---------------------------- MODULE Users_proof -----------------------------
(***************************************************************************)
(* Theorems about Users for any users, tenants, emails, names, seed and    *)
(* number of concurrent requests.                                          *)
(***************************************************************************)
EXTENDS Users, SequenceTheorems, TLAPS

-----------------------------------------------------------------------------
(* Type correctness.                                                       *)

Request == {New} \cup InProgress \cup Answered

Entry ==      [action : {"create"}, old : {Nothing}, new : Shown]
         \cup [action : {"update"}, old : [email : {None}, name : Names], new : Bodies]
         \cup [action : {"delete"}, old : Shown, new : {Nothing}]

(* One action of Next, by name. *)
Step(q) ==
  \/ \E row \in Rows : Exists(q, row) \/ Search(q, row)
  \/ \E u \in Ids : \E op \in {"update", "delete"} : NotFound(q, op, u)
  \/ \E u \in Ids : \E body \in Bodies : Find(q, "update", u, body)
  \/ \E u \in Ids : Find(q, "delete", u, Nothing)
  \/ LogCreated(q) \/ CreationUnlogged(q)
  \/ Fails(q)
  \/ \E ok \in BOOLEAN : \/ \E u \in Ids : Insert(q, u, ok)
                         \/ Invite(q, ok)
                         \/ Update(q, ok) \/ LogUpdated(q, ok)
                         \/ Delete(q, ok) \/ LogDeleted(q, ok)

LEMMA NextIsStep == Next <=> \E q \in Requests : Step(q)
BY DEF Next, Step

LEMMA TypeInit == Init => TypeOK
<1> SUFFICES ASSUME Init PROVE TypeOK
  OBVIOUS
<1>1. users \in [Ids -> Rows \cup {Absent}]
  BY SeedAssumption DEF Init, Initially
<1>2. <<>> \in Trails
  BY DEF Trails
<1> QED
  BY <1>1, <1>2 DEF Init, TypeOK

(* Rows keep their type under an update. *)
LEMMA OverwrittenRow ==
  ASSUME NEW row \in Rows, NEW body \in Bodies
  PROVE  Overwritten(row, body) \in Rows
BY BodiesAssumption DEF Overwritten, Given, Rows, Updates

(* The id that an update leaves a row with. *)
LEMMA GivenId ==
  ASSUME NEW u \in Ids, NEW body \in Bodies
  PROVE  Given(body.id, u) \in Ids
BY BodiesAssumption DEF Given, Updates

LEMMA PresentRow ==
  ASSUME TypeOK, NEW u \in Present
  PROVE  u \in Ids /\ users[u] \in Rows
BY DEF TypeOK, Present

LEMMA AbsentNoRow == Absent \notin Rows
BY SeedAssumption DEF Absent, Rows

(* What a request in a given step looks like. *)
LEMMA InStep ==
  ASSUME TypeOK, NEW q \in Requests
  PROVE  /\ requests[q] \in Request
         /\ requests[q].step = "insert" => requests[q] \in
              [step : {"insert"}, op : {"create"}, user : {None}, row : Rows]
         /\ requests[q].step = "invite" \/ (requests[q].step = "log" /\ requests[q].op = "create")
              => requests[q] \in [step : {"log", "invite"}, op : {"create"}, user : Ids, row : Rows]
         /\ requests[q].step \in {"change", "log"} /\ requests[q].op = "update" => requests[q] \in
              [step : {"change", "log"}, op : {"update"}, user : Ids, old : Rows, body : Bodies]
         /\ requests[q].step \in {"change", "log"} /\ requests[q].op = "delete" => requests[q] \in
              [step : {"change", "log"}, op : {"delete"}, user : Ids, old : Rows, body : {Nothing}]
BY DEF TypeOK, Request, InProgress, Answered, New

(* A request is answered after one of its calls. *)
LEMMA AnswerStep ==
  ASSUME TypeOK, NEW q \in Requests, requests[q] \in InProgress, NEW ok \in BOOLEAN,
         Answer(q, ok)
  PROVE  /\ requests' = [requests EXCEPT ![q] = [step |-> "answered", op |-> requests[q].op,
                                                user |-> requests[q].user, ok |-> ok]]
         /\ requests' \in [Requests -> Request]
<1>1. requests' = [requests EXCEPT ![q] = [step |-> "answered", op |-> requests[q].op,
                                           user |-> requests[q].user, ok |-> ok]]
  BY DEF Answer
<1>2. requests[q].op \in {"create", "update", "delete"} /\ requests[q].user \in Ids \cup {None}
  BY DEF InProgress
<1>3. [step |-> "answered", op |-> requests[q].op, user |-> requests[q].user, ok |-> ok]
        \in Answered
  BY <1>2 DEF Answered
<1> QED
  BY <1>1, <1>3 DEF TypeOK, Request

(* The write of a user has returned, or its reply was lost. *)
Altered(q, u) ==
  \/ requests' = [requests EXCEPT ![q].step = "log", ![q].user = u]
  \/ requests' = [requests EXCEPT ![q] =
                     [step |-> "answered", op |-> @.op, user |-> u, ok |-> FALSE]]

LEMMA WritesAlter ==
  ASSUME NEW q
  PROVE  /\ \A u : \A ok \in BOOLEAN : Insert(q, u, ok) => Altered(q, u)
         /\ \A ok \in BOOLEAN : Update(q, ok) \/ Delete(q, ok) => Altered(q, requests[q].user)
<1>1. ASSUME NEW u, NEW ok \in BOOLEAN, Changed(q, u, ok) PROVE Altered(q, u)
  <2>1. CASE ok = TRUE
    BY <1>1, <2>1 DEF Changed, Altered
  <2>2. CASE ok = FALSE
    BY <1>1, <2>2 DEF Changed, Altered
  <2> QED
    BY <2>1, <2>2
<1> QED
  BY <1>1 DEF Insert, Update, Delete

LEMMA ChangedStep ==
  ASSUME TypeOK, NEW q \in Requests, NEW u \in Ids, Altered(q, u),
         \/ requests[q].step = "insert"
         \/ requests[q].step = "change" /\ requests[q].user = u
  PROVE  /\ requests' \in [Requests -> Request]
         /\ \A p \in Requests \ {q} : requests'[p] = requests[p]
         /\ requests'[q].user = u /\ requests'[q].op = requests[q].op /\ requests'[q] # New
         /\ requests'[q].step \in {"log", "answered"}
         /\ requests'[q].step = "answered" => requests'[q].ok = FALSE
<1>1. CASE requests' = [requests EXCEPT ![q].step = "log", ![q].user = u]
  <2>2. /\ requests'[q] \in InProgress /\ requests'[q].user = u /\ requests'[q].step = "log"
        /\ requests'[q].op = requests[q].op
    <3>1. CASE requests[q].step = "insert"
      BY <1>1, <3>1, InStep DEF InProgress, TypeOK
    <3>2. CASE requests[q].step = "change" /\ requests[q].op = "update"
      BY <1>1, <3>2, InStep DEF InProgress, TypeOK
    <3>3. CASE requests[q].step = "change" /\ requests[q].op = "delete"
      BY <1>1, <3>3, InStep DEF InProgress, TypeOK
    <3>4. requests[q].step = "change" => requests[q].op \in {"update", "delete"}
      BY InStep DEF Request, InProgress, Answered, New
    <3> QED
      BY <3>1, <3>2, <3>3, <3>4
  <2> QED
    BY <1>1, <2>2 DEF TypeOK, Request, New, InProgress
<1>2. CASE requests' = [requests EXCEPT ![q] = [step |-> "answered", op |-> requests[q].op,
                                                user |-> u, ok |-> FALSE]]
  <2>2. requests[q].op \in {"create", "update", "delete"}
    BY InStep DEF Request, InProgress, Answered, New
  <2>3. [step |-> "answered", op |-> requests[q].op, user |-> u, ok |-> FALSE] \in Answered
    BY <2>2 DEF Answered
  <2> QED
    BY <1>2, <2>3 DEF TypeOK, Request, New
<1> QED
  BY <1>1, <1>2 DEF Altered

(* An entry reaches the trail. *)
LEMMA LoggedStep ==
  ASSUME TypeOK, NEW u \in Ids, NEW entry \in Entry, trail' = [trail EXCEPT ![u] = Append(@, entry)]
  PROVE  /\ trail' \in [Ids -> Trails]
         /\ \A v \in Ids \ {u} : trail'[v] = trail[v]
         /\ trail[u] \in Seq(Entry) /\ trail'[u] = Append(trail[u], entry)
<1>1. Trails = Seq(Entry)
  BY DEF Trails, Entry
<1>2. trail[u] \in Seq(Entry)
  BY <1>1 DEF TypeOK
<1>3. Append(trail[u], entry) \in Seq(Entry)
  BY <1>2
<1> QED
  BY <1>1, <1>2, <1>3 DEF TypeOK

LEMMA TypeStep == TypeOK /\ [Next]_vars => TypeOK'
<1> SUFFICES ASSUME TypeOK, [Next]_vars PROVE TypeOK'
  OBVIOUS
<1> USE DEF history
<1>1. ASSUME NEW q \in Requests, NEW op \in {"create", "update", "delete"}, Refuse(q, op)
      PROVE  TypeOK'
  <2>1. [step |-> "answered", op |-> op, user |-> None, ok |-> FALSE] \in Answered
    BY DEF Answered
  <2> QED
    BY <1>1, <2>1 DEF Refuse, TypeOK
<1>2. ASSUME NEW q \in Requests, NEW row \in Rows, Search(q, row) PROVE TypeOK'
  <2>1. [step |-> "insert", op |-> "create", user |-> None, row |-> row] \in InProgress
    BY DEF InProgress
  <2>2. requests' \in [Requests -> {New} \cup InProgress \cup Answered]
    BY <1>2, <2>1 DEF Search, TypeOK
  <2>3. row.email \in Emails
    BY DEF Rows
  <2> QED
    BY <1>2, <2>2, <2>3 DEF Search, TypeOK
<1>3. ASSUME NEW q \in Requests, NEW u \in Ids, NEW op, NEW body, Find(q, op, u, body),
             \/ op = "update" /\ body \in Bodies
             \/ op = "delete" /\ body = Nothing
      PROVE  TypeOK'
  <2>1. users[u] \in Rows
    BY <1>3, PresentRow DEF Find, Found
  <2>2. [step |-> "change", op |-> op, user |-> u, old |-> users[u], body |-> body] \in InProgress
    BY <1>3, <2>1 DEF InProgress
  <2>3. requests' \in [Requests -> {New} \cup InProgress \cup Answered]
    BY <1>3, <2>2 DEF Find, TypeOK
  <2> QED
    BY <1>3, <2>3 DEF Find, TypeOK
<1>4. ASSUME NEW q \in Requests, NEW u \in Ids, NEW ok \in BOOLEAN, Insert(q, u, ok) PROVE TypeOK'
  <2>1. requests[q].row \in Rows
    BY <1>4, InStep DEF Insert
  <2>2. requests' \in [Requests -> Request]
    <3>1. Altered(q, u) /\ requests[q].step = "insert"
      BY <1>4, WritesAlter DEF Insert
    <3> QED
      BY <3>1, ChangedStep
  <2> QED
    BY <1>4, <2>1, <2>2 DEF Insert, Changed, TypeOK, Request
<1>5. ASSUME NEW q \in Requests, NEW ok \in BOOLEAN, Update(q, ok) PROVE TypeOK'
  <2> DEFINE u   == requests[q].user
             row == Overwritten(users[u], requests[q].body)
  <2>1. u \in Ids /\ requests[q].body \in Bodies /\ users[u] \in Rows
    BY <1>5, InStep, PresentRow DEF Update
  <2> DEFINE id == Given(requests[q].body.id, u)
  <2>2. row \in Rows /\ row.email \in Emails /\ id \in Ids
    BY <2>1, OverwrittenRow, GivenId DEF Rows
  <2>3. requests' \in [Requests -> Request]
    <3>1. Altered(q, requests[q].user) /\ requests[q].step = "change"
      BY <1>5, WritesAlter DEF Update
    <3> QED
      BY <2>1, <3>1, ChangedStep
  <2>4. /\ users' = [users EXCEPT ![u] = Absent, ![id] = row]
        /\ rewritten' \subseteq rewritten \cup {row.email}
        /\ given' \subseteq given \cup {id}
    BY <1>5 DEF Update
  <2> HIDE DEF row, id
  <2>5. users' \in [Ids -> Rows \cup {Absent}]
    BY <2>1, <2>2, <2>4 DEF TypeOK
  <2> QED
    BY <1>5, <2>2, <2>3, <2>4, <2>5 DEF Update, Changed, TypeOK, Request
<1>6. ASSUME NEW q \in Requests, NEW ok \in BOOLEAN, Delete(q, ok) PROVE TypeOK'
  <2>1. requests[q].user \in Ids
    BY <1>6, InStep DEF Delete
  <2>2. requests' \in [Requests -> Request]
    <3>1. Altered(q, requests[q].user) /\ requests[q].step = "change"
      BY <1>6, WritesAlter DEF Delete
    <3> QED
      BY <2>1, <3>1, ChangedStep
  <2> QED
    BY <1>6, <2>1, <2>2 DEF Delete, Changed, TypeOK, Request
<1>7. ASSUME NEW q \in Requests, NEW ok \in BOOLEAN, LogCreated(q) PROVE TypeOK'
  <2> DEFINE r == requests[q]
             entry == [action |-> "create", old |-> Nothing,
                       new |-> [email |-> r.row.email, name |-> r.row.name]]
  <2>1. r \in [step : {"log", "invite"}, op : {"create"}, user : Ids, row : Rows]
    BY <1>7, InStep DEF LogCreated
  <2>2. entry \in Entry
    BY <2>1 DEF Entry, Shown, Rows
  <2>3. trail' \in [Ids -> Trails]
    BY <1>7, <2>1, <2>2, LoggedStep DEF LogCreated, Logged
  <2>4. requests' \in [Requests -> Request]
    BY <1>7, <2>1 DEF LogCreated, Goes, TypeOK, Request, InProgress
  <2> QED
    BY <1>7, <2>1, <2>3, <2>4 DEF LogCreated, Logged, TypeOK, Request
<1>8. ASSUME NEW q \in Requests, CreationUnlogged(q) PROVE TypeOK'
  <2>1. requests[q] \in [step : {"log", "invite"}, op : {"create"}, user : Ids, row : Rows]
    BY <1>8, InStep DEF CreationUnlogged
  <2>2. requests' \in [Requests -> Request]
    BY <1>8, <2>1 DEF CreationUnlogged, Goes, TypeOK, Request, InProgress
  <2> QED
    BY <1>8, <2>1, <2>2 DEF CreationUnlogged, TypeOK, Request
<1>9. ASSUME NEW q \in Requests, NEW ok \in BOOLEAN, Invite(q, ok) PROVE TypeOK'
  <2>1. requests[q] \in [step : {"log", "invite"}, op : {"create"}, user : Ids, row : Rows]
    BY <1>9, InStep DEF Invite
  <2>2. requests[q] \in InProgress /\ requests[q].user \in Ids
    BY <2>1 DEF InProgress
  <2>3. requests' \in [Requests -> Request]
    BY <1>9, <2>2, AnswerStep DEF Invite
  <2> QED
    BY <1>9, <2>2, <2>3 DEF Invite, TypeOK, Request
<1>10. ASSUME NEW q \in Requests, NEW ok \in BOOLEAN, LogUpdated(q, ok) PROVE TypeOK'
  <2> DEFINE r == requests[q]
             entry == [action |-> "update", old |-> [email |-> None, name |-> r.old.name],
                       new |-> r.body]
  <2>1. r \in [step : {"change", "log"}, op : {"update"}, user : Ids, old : Rows, body : Bodies]
    BY <1>10, InStep DEF LogUpdated
  <2>2. entry \in Entry /\ r \in InProgress
    BY <2>1 DEF Entry, Rows, InProgress
  <2>3. trail' \in [Ids -> Trails]
    BY <1>10, <2>1, <2>2, LoggedStep DEF LogUpdated, Logged
  <2>4. requests' \in [Requests -> Request]
    BY <1>10, <2>2, AnswerStep DEF LogUpdated
  <2> QED
    BY <1>10, <2>1, <2>3, <2>4 DEF LogUpdated, Logged, TypeOK, Request
<1>11. ASSUME NEW q \in Requests, NEW ok \in BOOLEAN, LogDeleted(q, ok) PROVE TypeOK'
  <2> DEFINE r == requests[q]
             entry == [action |-> "delete", old |-> [email |-> r.old.email, name |-> r.old.name],
                       new |-> Nothing]
  <2>1. r \in [step : {"change", "log"}, op : {"delete"}, user : Ids, old : Rows, body : {Nothing}]
    BY <1>11, InStep DEF LogDeleted
  <2>2. entry \in Entry /\ r \in InProgress
    BY <2>1 DEF Entry, Rows, Shown, InProgress
  <2>3. trail' \in [Ids -> Trails]
    BY <1>11, <2>1, <2>2, LoggedStep DEF LogDeleted, Logged
  <2>4. requests' \in [Requests -> Request]
    BY <1>11, <2>2, AnswerStep DEF LogDeleted
  <2> QED
    BY <1>11, <2>1, <2>3, <2>4 DEF LogDeleted, Logged, TypeOK, Request
<1>12. ASSUME NEW q \in Requests, Fails(q) PROVE TypeOK'
  <2>1. requests[q] \in InProgress
    BY <1>12, InStep DEF Fails, Failing, Request, New, Answered
  <2>2. requests[q].step = "log" => requests[q].user \in Ids
    BY <2>1 DEF InProgress
  <2>3. requests' \in [Requests -> Request]
    BY <1>12, <2>1, AnswerStep DEF Fails
  <2> QED
    BY <1>12, <2>2, <2>3 DEF Fails, TypeOK, Request
<1>13. CASE UNCHANGED vars
  BY <1>13 DEF vars, TypeOK
<1> QED
  <2>1. ASSUME NEW q \in Requests, Step(q) PROVE TypeOK'
    BY <2>1, <1>1, <1>2, <1>3, <1>4, <1>5, <1>6, <1>7, <1>8, <1>9, <1>10, <1>11, <1>12
       DEF Step, Exists, NotFound
  <2> QED
    BY <1>13, <2>1, NextIsStep

(* Users, trails and requests keep their types. *)
THEOREM TypeCorrect == Spec => []TypeOK
BY TypeInit, TypeStep, PTL DEF Spec

-----------------------------------------------------------------------------
(* Shared emails.  A request about to insert found no user with its email; if *)
(* there is one by now, another request inserted it, which was about to when  *)
(* one of the two searched, or an update did it.                              *)

Inserting(q) == requests[q].step = "insert"

SharedInv ==
  /\ TypeOK
  /\ \A u, v \in Present : u # v =>
       users[u].tenant # users[v].tenant \/ users[u].email # users[v].email
  /\ \A q \in Requests, v \in Present :
       Inserting(q) /\ users[v].email = requests[q].row.email
         => users[v].email \in raced \cup rewritten
  /\ \A p, q \in Requests :
       p # q /\ Inserting(p) /\ Inserting(q) /\ requests[p].row.email = requests[q].row.email
         => requests[p].row.email \in raced
  /\ \A u, v \in Present : u # v /\ users[u].email = users[v].email
       => users[u].email \in raced \cup rewritten

LEMMA SharedInit == Init => SharedInv
<1> SUFFICES ASSUME Init PROVE SharedInv
  OBVIOUS
<1>1. \A u \in Present : u \in DOMAIN Seed /\ users[u] = Seed[u]
  BY DEF Init, Initially, Present
<1>2. \A u, v \in Present : u # v => users[u].email # users[v].email
  BY <1>1, SeedAssumption
<1>3. \A q \in Requests : ~Inserting(q)
  BY DEF Init, Inserting, New
<1> QED
  BY <1>2, <1>3, TypeInit DEF SharedInv

(* A step that neither touches the rows nor begins a creation. *)
LEMMA SharedQuiet ==
  ASSUME SharedInv, TypeOK', users' = users, raced \subseteq raced', rewritten \subseteq rewritten',
         \A p \in Requests : requests'[p].step = "insert" => requests'[p] = requests[p]
  PROVE  SharedInv'
<1>1. Present' = Present
  BY DEF Present
<1>2. \A p \in Requests : Inserting(p)' => Inserting(p) /\ requests'[p] = requests[p]
  BY DEF Inserting
<1> QED
  BY <1>1, <1>2 DEF SharedInv

LEMMA SharedStep == SharedInv /\ [Next]_vars => SharedInv'
<1> SUFFICES ASSUME SharedInv, [Next]_vars PROVE SharedInv'
  OBVIOUS
<1> USE DEF history
<1>t. TypeOK /\ TypeOK'
  BY TypeStep DEF SharedInv
<1>1. ASSUME NEW q \in Requests, NEW row \in Rows, Search(q, row) PROVE SharedInv'
  <2>1. /\ requests' = [requests EXCEPT ![q] =
             [step |-> "insert", op |-> "create", user |-> None, row |-> row]]
        /\ users' = users /\ rewritten' = rewritten /\ raced \subseteq raced'
        /\ \A v \in Present : users[v].email # row.email
        /\ \A p \in Requests : Inserting(p) /\ requests[p].row.email = row.email
                             => row.email \in raced'
    BY <1>1 DEF Search, Taken, Inserting
  <2>2. /\ requests'[q].row = row /\ \A p \in Requests \ {q} : requests'[p] = requests[p]
        /\ Present' = Present
    BY <1>t, <2>1 DEF TypeOK, Present
  <2>3. \A p \in Requests, v \in Present :
          Inserting(p)' /\ users'[v].email = requests'[p].row.email
            => users'[v].email \in raced' \cup rewritten'
    BY <2>1, <2>2 DEF SharedInv, Inserting
  <2>4. \A p, o \in Requests :
          p # o /\ Inserting(p)' /\ Inserting(o)' /\ requests'[p].row.email = requests'[o].row.email
            => requests'[p].row.email \in raced'
    BY <2>1, <2>2 DEF SharedInv, Inserting
  <2> QED
    BY <1>t, <2>1, <2>2, <2>3, <2>4 DEF SharedInv
<1>2. ASSUME NEW q \in Requests, NEW u \in Ids, NEW ok \in BOOLEAN, Insert(q, u, ok)
      PROVE  SharedInv'
  <2> DEFINE row == requests[q].row
  <2>1. /\ Inserting(q) /\ Unique(u, row) /\ users' = [users EXCEPT ![u] = row]
        /\ raced' = raced /\ rewritten' = rewritten
    BY <1>2 DEF Insert, Changed, Inserting
  <2>2. \A p \in Requests : Inserting(p)' => p # q /\ Inserting(p) /\ requests'[p] = requests[p]
    <3>1. Altered(q, u) /\ requests[q].step = "insert"
      BY <1>2, WritesAlter DEF Insert
    <3> QED
      BY <1>t, <3>1, ChangedStep DEF Inserting
  <2>3. row \in Rows
    BY <1>t, <2>1, InStep DEF Inserting
  <2>4. \A v \in Present' : v \in Ids /\ (v = u => users'[v] = row)
                             /\ (v # u => v \in Present /\ users'[v] = users[v])
    BY <1>t, <2>1 DEF TypeOK, Present
  <2>5. \A v \in Present' : v # u /\ users'[v].email = row.email
          => users'[v].email \in raced' \cup rewritten' /\ users'[v].tenant # row.tenant
    BY <2>1, <2>4 DEF SharedInv, Unique
  <2>6. \A p \in Requests : Inserting(p)' /\ row.email = requests'[p].row.email
          => row.email \in raced' \cup rewritten'
    BY <2>1, <2>2 DEF SharedInv
  <2>7. \A p \in Requests, v \in Present' :
          Inserting(p)' /\ users'[v].email = requests'[p].row.email
            => users'[v].email \in raced' \cup rewritten'
    BY <2>1, <2>2, <2>4, <2>6 DEF SharedInv
  <2>8. \A p, o \in Requests :
          p # o /\ Inserting(p)' /\ Inserting(o)' /\ requests'[p].row.email = requests'[o].row.email
            => requests'[p].row.email \in raced'
    BY <2>1, <2>2 DEF SharedInv
  <2>9. \A v, w \in Present' : v # w =>
          /\ users'[v].tenant # users'[w].tenant \/ users'[v].email # users'[w].email
          /\ users'[v].email = users'[w].email => users'[v].email \in raced' \cup rewritten'
    BY <2>1, <2>4, <2>5 DEF SharedInv
  <2> QED
    BY <1>t, <2>7, <2>8, <2>9 DEF SharedInv
<1>3. ASSUME NEW q \in Requests, NEW ok \in BOOLEAN, Update(q, ok) PROVE SharedInv'
  <2> DEFINE u   == requests[q].user
             row == Overwritten(users[u], requests[q].body)
             id  == Given(requests[q].body.id, u)
  <2>1. /\ requests[q].step = "change" /\ u \in Present /\ Unique(u, row)
        /\ users' = [users EXCEPT ![u] = Absent, ![id] = row]
        /\ raced' = raced /\ rewritten \subseteq rewritten'
        /\ row.email = users[u].email \/ row.email \in rewritten'
    <3> HIDE DEF row, id
    <3>1. /\ requests[q].step = "change" /\ u \in Present /\ Unique(u, row)
          /\ users' = [users EXCEPT ![u] = Absent, ![id] = row]
          /\ rewritten' = IF row.email # users[u].email THEN rewritten \cup {row.email}
                                                        ELSE rewritten
      BY <1>3 DEF Update, row, id
    <3>2. raced' = raced
      BY <1>3 DEF Update, Changed
    <3> QED
      BY <3>1, <3>2
  <2>2. u \in Ids /\ id \in Ids
    BY <1>3, <1>t, <2>1, InStep, GivenId DEF Present, Update
  <2>3. \A p \in Requests : Inserting(p)' => p # q /\ Inserting(p) /\ requests'[p] = requests[p]
    <3>1. Altered(q, u)
      BY <1>3, WritesAlter
    <3> QED
      BY <1>t, <2>1, <2>2, <3>1, ChangedStep DEF Inserting
  <2> HIDE DEF row, id
  <2>4. \A v \in Present' : v \in Ids /\ (v = id => users'[v] = row)
                             /\ (v # id => v \in Present \ {u} /\ users'[v] = users[v])
    BY <1>t, <2>1, <2>2 DEF TypeOK, Present
  <2>5. \A p \in Requests : Inserting(p)' /\ row.email = requests'[p].row.email
          => row.email \in raced' \cup rewritten'
    BY <2>1, <2>3 DEF SharedInv
  <2>6. \A p \in Requests, v \in Present' :
          Inserting(p)' /\ users'[v].email = requests'[p].row.email
            => users'[v].email \in raced' \cup rewritten'
    <3> SUFFICES ASSUME NEW p \in Requests, NEW v \in Present', Inserting(p)',
                        users'[v].email = requests'[p].row.email
                 PROVE  users'[v].email \in raced' \cup rewritten'
      OBVIOUS
    <3>1. CASE v = id
      BY <2>4, <2>5, <3>1
    <3>2. CASE v # id
      <4>1. v \in Present /\ users'[v] = users[v]
        BY <2>4, <3>2
      <4> QED
        BY <2>1, <2>3, <4>1 DEF SharedInv
    <3> QED
      BY <3>1, <3>2
  <2>7. \A v \in Present' : v # id /\ users'[v].email = row.email
          => users'[v].email \in raced' \cup rewritten' /\ users'[v].tenant # row.tenant
    <3> SUFFICES ASSUME NEW v \in Present', v # id, users'[v].email = row.email
                 PROVE  users'[v].email \in raced' \cup rewritten' /\ users'[v].tenant # row.tenant
      OBVIOUS
    <3>1. v \in Present \ {u} /\ users'[v] = users[v]
      BY <2>4
    <3> QED
      BY <2>1, <3>1 DEF SharedInv, Unique
  <2>8. \A v, w \in Present' : v # w =>
          /\ users'[v].tenant # users'[w].tenant \/ users'[v].email # users'[w].email
          /\ users'[v].email = users'[w].email => users'[v].email \in raced' \cup rewritten'
    <3> SUFFICES ASSUME NEW v \in Present', NEW w \in Present', v # w
                 PROVE  /\ \/ users'[v].tenant # users'[w].tenant
                           \/ users'[v].email # users'[w].email
                        /\ users'[v].email = users'[w].email
                             => users'[v].email \in raced' \cup rewritten'
      OBVIOUS
    <3>1. CASE v = id \/ w = id
      BY <2>4, <2>7, <3>1
    <3>2. CASE v # id /\ w # id
      <4>1. /\ v \in Present /\ users'[v] = users[v]
            /\ w \in Present /\ users'[w] = users[w]
        BY <2>4, <3>2
      <4> QED
        BY <2>1, <4>1 DEF SharedInv
    <3> QED
      BY <3>1, <3>2
  <2>9. \A p, o \in Requests :
          p # o /\ Inserting(p)' /\ Inserting(o)' /\ requests'[p].row.email = requests'[o].row.email
            => requests'[p].row.email \in raced'
    BY <2>1, <2>3 DEF SharedInv
  <2> QED
    BY <1>t, <2>6, <2>8, <2>9 DEF SharedInv
<1>4. ASSUME NEW q \in Requests, NEW ok \in BOOLEAN, Delete(q, ok) PROVE SharedInv'
  <2>1. /\ requests[q].step = "change" /\ requests[q].user \in Ids
        /\ users' = [users EXCEPT ![requests[q].user] = Absent]
        /\ raced' = raced /\ rewritten' = rewritten
    BY <1>4, <1>t, InStep DEF Delete, Changed
  <2>2. \A p \in Requests : Inserting(p)' => Inserting(p) /\ requests'[p] = requests[p]
    <3>1. Altered(q, requests[q].user) /\ requests[q].step = "change"
      BY <1>4, WritesAlter DEF Delete
    <3> QED
      BY <1>t, <2>1, <3>1, ChangedStep DEF Inserting
  <2>3. \A v \in Present' : v \in Present /\ users'[v] = users[v]
    BY <1>t, <2>1 DEF TypeOK, Present
  <2> QED
    BY <1>t, <2>1, <2>2, <2>3 DEF SharedInv
<1>5. ASSUME NEW q \in Requests, NEW op, NEW u, NEW body, NEW ok \in BOOLEAN,
             \/ Refuse(q, op) \/ Find(q, op, u, body)
             \/ LogCreated(q) \/ CreationUnlogged(q) \/ Invite(q, ok)
             \/ LogUpdated(q, ok) \/ LogDeleted(q, ok) \/ Fails(q)
      PROVE  SharedInv'
  <2>1. users' = users /\ raced' = raced /\ rewritten' = rewritten
    BY <1>5 DEF Refuse, Find, LogCreated, CreationUnlogged, Invite, LogUpdated, LogDeleted,
                Fails, Logged
  <2>2. \A p \in Requests \ {q} : requests'[p] = requests[p]
    BY <1>5, <1>t DEF TypeOK, Refuse, Find, LogCreated, CreationUnlogged, Invite, LogUpdated,
                      LogDeleted, Fails, Goes, Answer
  <2>3. requests'[q].step # "insert"
    <3>1. CASE Refuse(q, op) \/ Find(q, op, u, body)
      BY <1>t, <3>1 DEF Refuse, Find, TypeOK
    <3>2. CASE LogCreated(q) \/ CreationUnlogged(q)
      <4>1. requests[q] \in [step : {"log", "invite"}, op : {"create"}, user : Ids, row : Rows]
        BY <1>t, <3>2, InStep DEF LogCreated, CreationUnlogged
      <4> QED
        BY <1>t, <3>2, <4>1 DEF LogCreated, CreationUnlogged, Goes, TypeOK
    <3>3. CASE Answer(q, ok) \/ Answer(q, FALSE)
      BY <1>t, <3>3 DEF Answer, TypeOK
    <3> QED
      BY <1>5, <3>1, <3>2, <3>3 DEF Invite, LogUpdated, LogDeleted, Fails
  <2> QED
    BY <1>t, <2>1, <2>2, <2>3, SharedQuiet
<1>6. CASE UNCHANGED vars
  BY <1>6, <1>t, SharedQuiet DEF vars
<1> QED
  <2>1. ASSUME NEW q \in Requests, Step(q) PROVE SharedInv'
    BY <2>1, <1>1, <1>2, <1>3, <1>4, <1>5 DEF Step, Exists, NotFound
  <2> QED
    BY <1>6, <2>1, NextIsStep

(* Two users share an email only across tenants, and only where two creations *)
(* overlapped or an update gave it away.                                      *)
THEOREM SharedEmailCorrect == Spec => []SharedEmailExplained
<1>1. SharedInv => SharedEmailExplained
  BY DEF SharedInv, SharedEmailExplained
<1> QED
  BY <1>1, SharedInit, SharedStep, PTL DEF Spec

-----------------------------------------------------------------------------
(* What a step does to the requests.                                         *)

(* A request that inserted u, or saw the reply of the insert lost. *)
Creator(q, u) == requests[q] # New /\ requests[q].op = "create" /\ requests[q].user = u

(* A request that removed u and has still to log it. *)
Deleter(q, u) == /\ requests[q].step = "log" /\ requests[q].op = "delete"
                 /\ requests[q].user = u

(* A first read: the request ends, or starts to work on a user that is there. *)
LEMMA Starts ==
  ASSUME TypeOK, TypeOK', NEW q \in Requests, NEW op, NEW u, NEW body, NEW row \in Rows,
         Refuse(q, op) \/ Find(q, op, u, body) \/ Search(q, row),
         requests[q] = New, op \in {"update", "delete"} \/ Refuse(q, op)
  PROVE  /\ \A p \in Requests \ {q} : requests'[p] = requests[p]
         /\ requests'[q] # New /\ requests'[q].step \in {"answered", "change", "insert"}
         /\ requests'[q].step \in {"answered", "insert"} => requests'[q].user = None
         /\ requests'[q].step = "change" => requests'[q].op # "create"
         /\ requests'[q].step = "answered" => requests'[q].ok = FALSE
         /\ UNCHANGED <<users, trail, invited, given>>
<1>1. CASE Refuse(q, op)
  BY <1>1 DEF Refuse, TypeOK, New, history
<1>2. CASE Find(q, op, u, body)
  BY <1>1, <1>2 DEF Find, TypeOK, New
<1>3. CASE Search(q, row)
  BY <1>3 DEF Search, TypeOK, New
<1> QED
  BY <1>1, <1>2, <1>3

LEMMA AnswerFields ==
  ASSUME TypeOK, NEW q \in Requests, requests[q] \in InProgress, NEW ok \in BOOLEAN,
         Answer(q, ok)
  PROVE  /\ requests[q] # New /\ requests'[q] # New
         /\ requests'[q].step = "answered" /\ requests'[q].op = requests[q].op
         /\ requests'[q].user = requests[q].user /\ requests'[q].ok = ok
         /\ \A p \in Requests \ {q} : requests'[p] = requests[p]
<1>1. requests' = [requests EXCEPT ![q] = [step |-> "answered", op |-> requests[q].op,
                                           user |-> requests[q].user, ok |-> ok]]
  BY AnswerStep
<1>2. requests[q] # New
  BY DEF New, InProgress
<1> QED
  BY <1>1, <1>2 DEF TypeOK, New

(* A call after the write: the request keeps its operation and its user. *)
LEMMA GoesOn ==
  ASSUME TypeOK, NEW q \in Requests, NEW ok \in BOOLEAN,
         \/ LogCreated(q) \/ CreationUnlogged(q) \/ Invite(q, ok)
         \/ LogUpdated(q, ok) \/ LogDeleted(q, ok) \/ Fails(q)
  PROVE  /\ \A p \in Requests \ {q} : requests'[p] = requests[p]
         /\ requests[q] # New /\ requests'[q] # New
         /\ requests'[q].op = requests[q].op /\ requests'[q].user = requests[q].user
         /\ requests'[q].step = "invite" \/ requests'[q].step = "answered"
         /\ requests'[q].step = "invite" => requests[q].step = "log"
         /\ users' = users /\ given' = given
<1> USE DEF history
<1>1. CASE LogCreated(q) \/ CreationUnlogged(q)
  <2>1. requests[q] \in [step : {"log", "invite"}, op : {"create"}, user : Ids, row : Rows]
    BY <1>1, InStep DEF LogCreated, CreationUnlogged
  <2>2. requests' = [requests EXCEPT ![q].step = "invite"]
    BY <1>1 DEF LogCreated, CreationUnlogged, Goes
  <2> QED
    BY <1>1, <2>1, <2>2 DEF TypeOK, LogCreated, CreationUnlogged, Logged, New
<1>2. requests[q].step \in {"insert", "change", "invite", "log"} => requests[q] \in InProgress
  BY InStep DEF Request, New, Answered
<1>3. CASE Invite(q, ok) \/ LogUpdated(q, ok) \/ LogDeleted(q, ok)
  <2>1. Answer(q, ok) /\ requests[q].step \in {"invite", "log"} /\ users' = users
          /\ given' = given
    BY <1>3 DEF Invite, LogUpdated, LogDeleted, Logged
  <2> QED
    BY <1>2, <2>1, AnswerFields, SMTT(30)
<1>4. CASE Fails(q)
  <2>1. Answer(q, FALSE) /\ requests[q].step \in {"insert", "change", "invite", "log"}
          /\ users' = users /\ given' = given
    BY <1>4 DEF Fails, Failing
  <2> QED
    BY <1>2, <2>1, AnswerFields
<1> QED
  BY <1>1, <1>3, <1>4

-----------------------------------------------------------------------------
(* Deletions.  A user's removal is logged once at most: by the request that   *)
(* removed it, which is the only one to find the row, as no id is used twice, *)
(* save for those that updates gave.                                          *)

Deletions(u) == {i \in DOMAIN trail[u] : trail[u][i].action = "delete"}

DeletedInv ==
  /\ TypeOK
  /\ \A u \in Ids \ given : Deletions(u) # {} =>
       /\ u \notin Present
       /\ \E q \in Requests : requests[q] # New /\ requests[q].user = u
  /\ \A u \in Ids \ given, q \in Requests : Deleter(q, u) => u \notin Present /\ Deletions(u) = {}
  /\ \A u \in Ids \ given, p, q \in Requests : Deleter(p, u) /\ Deleter(q, u) => p = q
  /\ \A u \in Ids \ given : \A i, j \in Deletions(u) : i = j

LEMMA DeletedInit == Init => DeletedInv
BY TypeInit DEF Init, DeletedInv, Deletions, Deleter, New

LEMMA AppendDeletion ==
  ASSUME NEW s \in Seq(Entry), NEW e \in Entry
  PROVE  {i \in DOMAIN Append(s, e) : Append(s, e)[i].action = "delete"}
           = {i \in DOMAIN s : s[i].action = "delete"}
               \cup (IF e.action = "delete" THEN {Len(s) + 1} ELSE {})
OBVIOUS

LEMMA DeletedStep == DeletedInv /\ [Next]_vars => DeletedInv'
<1> SUFFICES ASSUME DeletedInv, [Next]_vars PROVE DeletedInv'
  OBVIOUS
<1> USE DEF history
<1>t. TypeOK /\ TypeOK'
  BY TypeStep DEF DeletedInv
(* Steps that leave the deletions, the rows and the deleters alone. *)
<1>q. ASSUME NEW q \in Requests, \A u \in Ids : Deletions(u)' = Deletions(u),
             Present' \subseteq Present \cup given', given \subseteq given',
             \A p \in Requests \ {q} : requests'[p] = requests[p],
             ~(requests'[q].step = "log" /\ requests'[q].op = "delete"),
             requests'[q] # New, requests[q] # New => requests'[q].user = requests[q].user
      PROVE  DeletedInv'
  <2>1. \A u \in Ids, p \in Requests : Deleter(p, u)' => Deleter(p, u)
    BY <1>q DEF Deleter
  <2>2. \A u \in Ids : (\E p \in Requests : requests[p] # New /\ requests[p].user = u)
                   => \E p \in Requests : requests'[p] # New /\ requests'[p].user = u
    BY <1>q
  <2> QED
    BY <1>q, <1>t, <2>1, <2>2 DEF DeletedInv
<1>1. ASSUME NEW q \in Requests, NEW op, NEW u, NEW body, NEW row \in Rows,
             Refuse(q, op) \/ Find(q, op, u, body) \/ Search(q, row),
             requests[q] = New, op \in {"update", "delete"} \/ Refuse(q, op)
      PROVE  DeletedInv'
  BY <1>1, <1>q, <1>t, Starts DEF Deletions, Present
<1>2. ASSUME NEW q \in Requests, NEW u \in Ids, NEW ok \in BOOLEAN, Insert(q, u, ok)
      PROVE  DeletedInv'
  <2>1. /\ \A p \in Requests : requests[p] # New => requests[p].user # u
        /\ users' = [users EXCEPT ![u] = requests[q].row] /\ trail' = trail
        /\ requests[q].step = "insert" /\ given' = given /\ u \notin given
    BY <1>2 DEF Insert, Fresh, Changed
  <2>2. /\ \A p \in Requests \ {q} : requests'[p] = requests[p]
        /\ requests'[q].user = u /\ requests'[q].op = "create" /\ requests'[q] # New
        /\ requests[q].user = None
    <3>1. requests[q].op = "create" /\ requests[q].user = None
      BY <1>t, <2>1, InStep
    <3>2. Altered(q, u)
      BY <1>2, WritesAlter
    <3> QED
      BY <1>t, <2>1, <3>1, <3>2, ChangedStep
  <2>3. \A v \in Present' : v = u \/ v \in Present
    BY <1>t, <2>1 DEF Present, TypeOK
  <2>4. Deletions(u) = {} /\ \A v \in Ids : Deletions(v)' = Deletions(v)
    BY <2>1 DEF DeletedInv, Deletions
  <2>5. \A v \in Ids \ given, p \in Requests : Deleter(p, v)' => Deleter(p, v) /\ v # u
    BY <2>1, <2>2 DEF Deleter, New
  <2>6. None \notin Ids
    BY SeedAssumption
  <2>7. \A v \in Ids : (\E p \in Requests : requests[p] # New /\ requests[p].user = v)
                   => \E p \in Requests : requests'[p] # New /\ requests'[p].user = v
    BY <2>2, <2>6
  <2>8. \A v \in Ids \ given : Deletions(v)' # {} =>
          /\ v \notin Present'
          /\ \E p \in Requests : requests'[p] # New /\ requests'[p].user = v
    BY <2>3, <2>4, <2>7 DEF DeletedInv
  <2>9. \A v \in Ids \ given, p \in Requests :
          Deleter(p, v)' => v \notin Present' /\ Deletions(v)' = {}
    BY <2>3, <2>4, <2>5 DEF DeletedInv
  <2> QED
    BY <1>t, <2>1, <2>4, <2>5, <2>8, <2>9 DEF DeletedInv
<1>3. ASSUME NEW q \in Requests, NEW ok \in BOOLEAN, Update(q, ok) PROVE DeletedInv'
  <2> DEFINE u   == requests[q].user
             row == Overwritten(users[u], requests[q].body)
             id  == Given(requests[q].body.id, u)
  <2>1. /\ requests[q].step = "change" /\ requests[q].op = "update" /\ u \in Present
        /\ users' = [users EXCEPT ![u] = Absent, ![id] = row]
        /\ trail' = trail /\ given \subseteq given' /\ (id = u \/ id \in given')
    BY <1>3 DEF Update, Changed
  <2>2. Present' \subseteq Present \cup given' /\ requests[q].user \in Ids
    <3> HIDE DEF id, row
    <3> QED
      BY <1>t, <2>1 DEF Present, TypeOK
  <2>3. /\ \A p \in Requests \ {q} : requests'[p] = requests[p]
        /\ requests'[q].user = requests[q].user /\ requests'[q].op = "update" /\ requests'[q] # New
    <3> HIDE DEF id, row
    <3>1. Altered(q, requests[q].user)
      BY <1>3, WritesAlter
    <3> QED
      BY <1>t, <2>1, <2>2, <3>1, ChangedStep
  <2>4. trail' = trail /\ given \subseteq given'
    BY <2>1
  <2> HIDE DEF id, row
  <2>5. \A v \in Ids : Deletions(v)' = Deletions(v)
    BY <2>4 DEF Deletions
  <2>6. /\ \A p \in Requests \ {q} : requests'[p] = requests[p]
        /\ ~(requests'[q].step = "log" /\ requests'[q].op = "delete") /\ requests'[q] # New
        /\ requests'[q].user = requests[q].user
    BY <2>3
  <2> QED
    BY <1>q, <2>2, <2>4, <2>5, <2>6
<1>4. ASSUME NEW q \in Requests, NEW ok \in BOOLEAN, Delete(q, ok) PROVE DeletedInv'
  <2> DEFINE u == requests[q].user
  <2>1. /\ requests[q].step = "change" /\ requests[q].op = "delete" /\ u \in Present /\ u \in Ids
        /\ users' = [users EXCEPT ![u] = Absent] /\ trail' = trail /\ given' = given
    BY <1>4 DEF Delete, Changed, Deletable, Present
  <2>2. /\ \A p \in Requests \ {q} : requests'[p] = requests[p]
        /\ requests'[q].user = u /\ requests'[q] # New
    <3>1. Altered(q, u)
      BY <1>4, WritesAlter
    <3> QED
      BY <1>t, <2>1, <3>1, ChangedStep
  <2>3. Present' = Present \ {u}
    BY <1>t, <2>1 DEF Present, TypeOK
  <2>4. (u \notin given => Deletions(u) = {}) /\ \A v \in Ids : Deletions(v)' = Deletions(v)
    BY <2>1 DEF DeletedInv, Deletions
  <2>5. \A p \in Requests, v \in Ids \ given :
          Deleter(p, v)' => (Deleter(p, v) /\ v # u) \/ (p = q /\ v = u)
    BY <2>1, <2>2 DEF DeletedInv, Deleter
  <2>6. \A v \in Ids : (\E p \in Requests : requests[p] # New /\ requests[p].user = v)
                   => \E p \in Requests : requests'[p] # New /\ requests'[p].user = v
    BY <2>2
  <2>7. \A v \in Ids \ given, p \in Requests :
          Deleter(p, v)' => v \notin Present' /\ Deletions(v)' = {}
    BY <2>3, <2>4, <2>5 DEF DeletedInv
  <2>8. \A v \in Ids \ given, p, o \in Requests : Deleter(p, v)' /\ Deleter(o, v)' => p = o
    BY <2>5 DEF DeletedInv
  <2> QED
    BY <1>t, <2>1, <2>3, <2>4, <2>6, <2>7, <2>8 DEF DeletedInv
<1>5. ASSUME NEW q \in Requests, NEW ok \in BOOLEAN, LogDeleted(q, ok) PROVE DeletedInv'
  <2> DEFINE r == requests[q]
  <2>0. PICK u : u = r.user
    OBVIOUS
  <2> DEFINE entry == [action |-> "delete", old |-> [email |-> r.old.email, name |-> r.old.name],
                       new |-> Nothing]
  <2>1. r \in [step : {"change", "log"}, op : {"delete"}, user : Ids, old : Rows, body : {Nothing}]
    BY <1>5, <1>t, InStep DEF LogDeleted
  <2>2. entry \in Entry /\ entry.action = "delete" /\ u \in Ids /\ Deleter(q, u)
    BY <1>5, <2>0, <2>1 DEF Entry, Rows, Shown, LogDeleted, Deleter
  <2>3. /\ trail[u] \in Seq(Entry) /\ trail'[u] = Append(trail[u], entry)
        /\ \A v \in Ids \ {u} : trail'[v] = trail[v]
    BY <1>5, <1>t, <2>0, <2>2, LoggedStep DEF LogDeleted, Logged
  <2>4. /\ u \notin given => Deletions(u)' = {Len(trail[u]) + 1}
        /\ \A v \in Ids \ {u} : Deletions(v)' = Deletions(v)
    <3>1. Deletions(u)' = Deletions(u) \cup {Len(trail[u]) + 1}
      <4> HIDE DEF entry
      <4> QED
        BY <2>2, <2>3, AppendDeletion DEF Deletions
    <3> QED
      BY <2>2, <2>3, <3>1 DEF DeletedInv, Deletions
  <2>5. /\ \A p \in Requests \ {q} : requests'[p] = requests[p]
        /\ requests'[q] # New /\ requests'[q].user = u /\ requests'[q].step # "log"
        /\ Present' = Present /\ given' = given
    BY <1>5, <1>t, <2>0, GoesOn DEF Present
  <2>6. \A p \in Requests, v \in Ids \ given : Deleter(p, v)' => Deleter(p, v) /\ p # q /\ v # u
    BY <2>2, <2>5 DEF DeletedInv, Deleter
  <2>7. \A v \in Ids : (\E p \in Requests : requests[p] # New /\ requests[p].user = v)
                   => \E p \in Requests : requests'[p] # New /\ requests'[p].user = v
    BY <2>0, <2>5
  <2> QED
    BY <1>t, <2>2, <2>4, <2>5, <2>6, <2>7 DEF DeletedInv
<1>6. ASSUME NEW q \in Requests, NEW ok \in BOOLEAN, LogCreated(q) \/ LogUpdated(q, ok)
      PROVE  DeletedInv'
  <2>1. PICK entry \in Entry : /\ entry.action # "delete"
                              /\ trail' = [trail EXCEPT ![requests[q].user] = Append(@, entry)]
                              /\ requests[q].user \in Ids
    <3>1. CASE LogCreated(q)
      <4> DEFINE r == requests[q]
                 entry == [action |-> "create", old |-> Nothing,
                           new |-> [email |-> r.row.email, name |-> r.row.name]]
      <4>1. r \in [step : {"log", "invite"}, op : {"create"}, user : Ids, row : Rows]
        BY <1>t, <3>1, InStep DEF LogCreated
      <4>2. entry \in Entry
        BY <4>1 DEF Entry, Shown, Rows
      <4> QED
        BY <3>1, <4>1, <4>2 DEF LogCreated, Logged
    <3>2. CASE LogUpdated(q, ok)
      <4> DEFINE r == requests[q]
                 entry == [action |-> "update", old |-> [email |-> None, name |-> r.old.name],
                           new |-> r.body]
      <4>1. r \in [step : {"change", "log"}, op : {"update"}, user : Ids, old : Rows, body : Bodies]
        BY <1>t, <3>2, InStep DEF LogUpdated
      <4>2. entry \in Entry /\ entry.action # "delete"
        BY <4>1 DEF Entry, Rows
      <4>3. Logged(q, entry)
        BY <3>2 DEF LogUpdated
      <4> HIDE DEF entry
      <4>4. trail' = [trail EXCEPT ![requests[q].user] = Append(@, entry)]
        BY <4>3 DEF Logged
      <4> QED
        BY <4>1, <4>2, <4>4
    <3> QED
      BY <1>6, <3>1, <3>2
  <2>2. \A v \in Ids : Deletions(v)' = Deletions(v)
    BY <1>t, <2>1, LoggedStep, AppendDeletion, SMTT(30) DEF Deletions
  <2> QED
    BY <1>6, <1>q, <1>t, <2>2, GoesOn DEF Present
<1>7. ASSUME NEW q \in Requests, NEW ok \in BOOLEAN,
             CreationUnlogged(q) \/ Invite(q, ok) \/ Fails(q)
      PROVE  DeletedInv'
  <2>1. trail' = trail
    BY <1>7 DEF CreationUnlogged, Invite, Fails
  <2> QED
    BY <1>7, <1>q, <1>t, <2>1, GoesOn DEF Present, Deletions
<1>8. CASE UNCHANGED vars
  BY <1>8, <1>t DEF vars, DeletedInv, Deletions, Deleter, Present
<1> QED
  <2>1. ASSUME NEW q \in Requests, Step(q) PROVE DeletedInv'
    <3>1. ASSUME NEW op \in {"create", "update", "delete"}, requests[q] = New, Refuse(q, op)
          PROVE  DeletedInv'
      <4>1. Rows # {} => DeletedInv'
        BY <1>1, <3>1
      <4> QED
        BY <3>1, <1>q, <1>t DEF Refuse, TypeOK, New, Deletions, Present
    <3>2. ASSUME NEW op \in {"update", "delete"}, NEW u \in Ids, NEW body, Find(q, op, u, body)
          PROVE  DeletedInv'
      <4>1. users[u] \in Rows /\ requests[q] = New
        BY <1>t, <3>2, PresentRow DEF Find, Found
      <4> QED
        BY <1>1, <3>2, <4>1
    <3>3. ASSUME NEW row \in Rows, Search(q, row) PROVE DeletedInv'
      BY <1>1, <3>3 DEF Search
    <3> QED
      BY <2>1, <3>1, <3>2, <3>3, <1>2, <1>3, <1>4, <1>5, <1>6, <1>7 DEF Step, Exists, NotFound
  <2> QED
    BY <1>8, <2>1, NextIsStep

(* However many requests delete a user, the log shows it once at most. *)
THEOREM DeletedCorrect == Spec => []DeletedOnce
<1>1. DeletedInv => DeletedOnce
  BY DEF DeletedInv, DeletedOnce, Deletions, Present
<1> QED
  BY <1>1, DeletedInit, DeletedStep, PTL DEF Spec

-----------------------------------------------------------------------------
(* Invitations.  A created user has one creator, who invites it at the end of *)
(* the request and is told of success only then.                              *)

InvitedInv ==
  /\ TypeOK
  /\ \A u \in Ids : invited[u] <= 1
  /\ \A u \in Ids, p, q \in Requests : Creator(p, u) /\ Creator(q, u) => p = q
  /\ \A u \in Ids, q \in Requests :
       Creator(q, u) /\ requests[q].step \in {"log", "invite"} => invited[u] = 0
  /\ \A u \in Ids : invited[u] # 0 => \E q \in Requests : Creator(q, u)
  /\ \A u \in Present \ (DOMAIN Seed \cup given) : \E q \in Requests : Creator(q, u)
  /\ \A q \in Requests :
       requests[q].step = "answered" /\ requests[q].op = "create" /\ requests[q].ok = TRUE
         => requests[q].user \in Ids /\ invited[requests[q].user] = 1

LEMMA InvitedInit == Init => InvitedInv
<1> SUFFICES ASSUME Init PROVE InvitedInv
  OBVIOUS
<1>1. \A u \in Present : u \in DOMAIN Seed
  BY DEF Init, Initially, Present
<1>2. \A q \in Requests : requests[q] = New /\ requests[q].step = "new"
  BY DEF Init, New
<1> QED
  BY <1>1, <1>2, TypeInit DEF Init, InvitedInv, Creator

LEMMA InvitedStep == InvitedInv /\ [Next]_vars => InvitedInv'
<1> SUFFICES ASSUME InvitedInv, [Next]_vars PROVE InvitedInv'
  OBVIOUS
<1> USE DEF history
<1>t. TypeOK /\ TypeOK' /\ None \notin Ids
  BY TypeStep, SeedAssumption DEF InvitedInv
(* Steps that invite nobody and make nobody a creator. *)
<1>q. ASSUME NEW q \in Requests, invited' = invited, given \subseteq given',
             Present' \subseteq Present \cup given',
             \A p \in Requests \ {q} : requests'[p] = requests[p],
             \A u \in Ids : Creator(q, u)' <=> Creator(q, u),
             \A u \in Ids : Creator(q, u)' /\ requests'[q].step \in {"log", "invite"}
                            => requests[q].step \in {"log", "invite"},
             ~(/\ requests'[q].step = "answered" /\ requests'[q].op = "create"
               /\ requests'[q].ok = TRUE)
      PROVE  InvitedInv'
  <2>1. \A u \in Ids, p \in Requests : Creator(p, u)' <=> Creator(p, u)
    BY <1>q DEF Creator
  <2>2. \A u \in Ids, p \in Requests :
          Creator(p, u)' /\ requests'[p].step \in {"log", "invite"} => invited'[u] = 0
    BY <1>q, <2>1 DEF InvitedInv
  <2>3. \A p \in Requests :
          requests'[p].step = "answered" /\ requests'[p].op = "create" /\ requests'[p].ok = TRUE
            => requests'[p].user \in Ids /\ invited'[requests'[p].user] = 1
    BY <1>q DEF InvitedInv
  <2>4. /\ \A u \in Ids : invited'[u] <= 1
        /\ \A u \in Ids : invited'[u] # 0 => \E p \in Requests : Creator(p, u)'
    BY <1>q, <2>1 DEF InvitedInv
  <2>5. \A u \in Present' \ (DOMAIN Seed \cup given') : \E p \in Requests : Creator(p, u)'
    BY <1>q, <2>1 DEF InvitedInv, Present
  <2>6. \A u \in Ids, p, o \in Requests : Creator(p, u)' /\ Creator(o, u)' => p = o
    BY <2>1 DEF InvitedInv
  <2> QED
    BY <1>t, <2>2, <2>3, <2>4, <2>5, <2>6 DEF InvitedInv
<1>1. ASSUME NEW q \in Requests, NEW op, NEW u, NEW body, NEW row \in Rows,
             Refuse(q, op) \/ Find(q, op, u, body) \/ Search(q, row),
             requests[q] = New, op \in {"update", "delete"} \/ Refuse(q, op)
      PROVE  InvitedInv'
  <2>1. /\ \A p \in Requests \ {q} : requests'[p] = requests[p]
        /\ invited' = invited /\ given' = given /\ Present' = Present
        /\ requests'[q].step \in {"answered", "change", "insert"}
        /\ requests'[q].step = "answered" => requests'[q].ok = FALSE
    BY <1>1, <1>t, Starts DEF Present
  <2>2. \A v \in Ids : ~Creator(q, v) /\ ~Creator(q, v)'
    BY <1>1, <1>t, Starts DEF Creator
  <2> QED
    BY <1>q, <2>1, <2>2
<1>2. ASSUME NEW q \in Requests, NEW u \in Ids, NEW ok \in BOOLEAN, Insert(q, u, ok)
      PROVE  InvitedInv'
  <2>1. /\ \A p \in Requests : ~Creator(p, u)
        /\ users' = [users EXCEPT ![u] = requests[q].row]
        /\ invited' = invited /\ given' = given
        /\ requests[q].step = "insert"
    BY <1>2 DEF Insert, Fresh, Changed, Creator
  <2>2. Altered(q, u) /\ requests[q].op = "create" /\ requests[q].user = None
    BY <1>2, <1>t, <2>1, InStep, WritesAlter
  <2>3. /\ \A p \in Requests \ {q} : requests'[p] = requests[p]
        /\ requests'[q].user = u /\ requests'[q].op = "create" /\ requests'[q] # New
        /\ requests'[q].step = "answered" => requests'[q].ok = FALSE
    BY <1>t, <2>1, <2>2, ChangedStep
  <2>4. invited[u] = 0
    BY <2>1 DEF InvitedInv
  <2>5. \A v \in Ids, p \in Requests : Creator(p, v)' <=> Creator(p, v) \/ (p = q /\ v = u)
    BY <1>t, <2>2, <2>3 DEF Creator
  <2>6. \A v \in Present' : v \in Ids /\ (v = u \/ v \in Present)
    BY <1>t, <2>1 DEF Present, TypeOK
  <2>7. \A v \in Ids, p, o \in Requests : Creator(p, v)' /\ Creator(o, v)' => p = o
    BY <2>1, <2>5 DEF InvitedInv
  <2>8. \A v \in Ids, p \in Requests :
          Creator(p, v)' /\ requests'[p].step \in {"log", "invite"} => invited'[v] = 0
    <3> SUFFICES ASSUME NEW v \in Ids, NEW p \in Requests, Creator(p, v)',
                        requests'[p].step \in {"log", "invite"}
                 PROVE  invited'[v] = 0
      OBVIOUS
    <3>1. CASE v = u
      BY <2>1, <2>4, <3>1
    <3>2. CASE v # u
      BY <2>1, <2>3, <2>5, <3>2 DEF InvitedInv, Creator
    <3> QED
      BY <3>1, <3>2
  <2>9. \A p \in Requests :
          requests'[p].step = "answered" /\ requests'[p].op = "create" /\ requests'[p].ok = TRUE
            => requests'[p].user \in Ids /\ invited'[requests'[p].user] = 1
    BY <2>1, <2>3 DEF InvitedInv
  <2>10. /\ \A v \in Ids : invited'[v] # 0 => \E p \in Requests : Creator(p, v)'
         /\ \A v \in Present' \ (DOMAIN Seed \cup given') : \E p \in Requests : Creator(p, v)'
         /\ \A v \in Ids : invited'[v] <= 1
    BY <2>1, <2>5, <2>6 DEF InvitedInv
  <2> QED
    BY <1>t, <2>7, <2>8, <2>9, <2>10 DEF InvitedInv
<1>3. ASSUME NEW q \in Requests, NEW ok \in BOOLEAN, Update(q, ok) \/ Delete(q, ok)
      PROVE  InvitedInv'
  <2>1. PICK u : u = requests[q].user
    OBVIOUS
  <2>2. /\ requests[q].step = "change" /\ requests[q].op # "create" /\ u \in Present /\ u \in Ids
        /\ Altered(q, u) /\ invited' = invited /\ given \subseteq given'
        /\ \A v \in Ids \ {u} : users'[v] = users[v] \/ v \in given'
    <3>1. Altered(q, u)
      BY <1>3, <2>1, WritesAlter
    <3> DEFINE row == Overwritten(users[u], requests[q].body)
               id  == Given(requests[q].body.id, u)
    <3>2. CASE Update(q, ok)
      <4>1. /\ requests[q].step = "change" /\ requests[q].op = "update" /\ u \in Present
            /\ users' = [users EXCEPT ![u] = Absent, ![id] = row]
            /\ invited' = invited /\ given \subseteq given' /\ (id = u \/ id \in given')
        BY <2>1, <3>2 DEF Update, Changed
      <4>2. u \in Ids
        BY <4>1 DEF Present
      <4> HIDE DEF id, row
      <4>3. \A v \in Ids \ {u} : users'[v] = users[v] \/ v \in given'
        BY <1>t, <4>1, <4>2 DEF TypeOK
      <4>4. requests[q].op # "create"
        BY <4>1
      <4> QED
        BY <3>1, <4>1, <4>2, <4>3, <4>4
    <3>3. CASE Delete(q, ok)
      BY <1>t, <2>1, <3>1, <3>3 DEF Delete, Changed, Deletable, Present, TypeOK
    <3> QED
      BY <1>3, <3>2, <3>3
  <2>3. /\ \A p \in Requests \ {q} : requests'[p] = requests[p]
        /\ requests'[q].op # "create"
    BY <1>t, <2>1, <2>2, ChangedStep
  <2>4. Present' \subseteq Present \cup given'
    BY <2>2 DEF Present
  <2>5. \A v \in Ids : ~Creator(q, v) /\ ~Creator(q, v)'
    BY <2>2, <2>3 DEF Creator
  <2> QED
    BY <1>q, <2>2, <2>3, <2>4, <2>5
<1>4. ASSUME NEW q \in Requests, NEW ok \in BOOLEAN, Invite(q, ok) PROVE InvitedInv'
  <2>1. PICK u : u = requests[q].user
    OBVIOUS
  <2>2. requests[q] \in [step : {"log", "invite"}, op : {"create"}, user : Ids, row : Rows]
    BY <1>4, <1>t, InStep DEF Invite
  <2>3. /\ u \in Ids /\ Creator(q, u) /\ requests[q].step = "invite"
        /\ requests[q].op = "create" /\ invited' = [invited EXCEPT ![u] = @ + 1]
    BY <1>4, <2>1, <2>2 DEF Invite, Creator, New
  <2>4. invited[u] = 0 /\ invited'[u] = 1 /\ \A v \in Ids \ {u} : invited'[v] = invited[v]
    BY <1>t, <2>3 DEF InvitedInv, TypeOK
  <2>5. /\ \A p \in Requests \ {q} : requests'[p] = requests[p]
        /\ requests'[q] # New /\ requests'[q].op = "create" /\ requests'[q].user = u
        /\ Present' = Present /\ given' = given
    BY <1>4, <1>t, <2>1, <2>3, GoesOn DEF Present
  <2>6. requests'[q].step = "answered"
    <3>1. Answer(q, ok) /\ requests[q] \in InProgress
      BY <1>4, <2>2 DEF Invite, InProgress
    <3> QED
      BY <1>t, <3>1, AnswerFields
  <2>7. \A v \in Ids, p \in Requests : Creator(p, v)' <=> Creator(p, v)
    BY <2>1, <2>3, <2>5 DEF Creator
  <2>8. \A v \in Ids, p \in Requests :
          Creator(p, v)' /\ requests'[p].step \in {"log", "invite"} => invited'[v] = 0
    <3> SUFFICES ASSUME NEW v \in Ids, NEW p \in Requests, Creator(p, v),
                        requests'[p].step \in {"log", "invite"}
                 PROVE  invited'[v] = 0
      BY <2>7
    <3>1. p # q
      BY <2>6
    <3>2. v # u
      BY <2>3, <3>1 DEF InvitedInv
    <3> QED
      BY <2>4, <2>5, <3>1, <3>2 DEF InvitedInv
  <2>9. \A p \in Requests :
          requests'[p].step = "answered" /\ requests'[p].op = "create" /\ requests'[p].ok = TRUE
            => requests'[p].user \in Ids /\ invited'[requests'[p].user] = 1
    BY <2>3, <2>4, <2>5 DEF InvitedInv
  <2>10. \A v \in Ids : /\ invited'[v] # 0 => \E p \in Requests : Creator(p, v)'
                        /\ invited'[v] <= 1
    <3> SUFFICES ASSUME NEW v \in Ids
                 PROVE  /\ invited'[v] # 0 => \E p \in Requests : Creator(p, v)'
                        /\ invited'[v] <= 1
      OBVIOUS
    <3>1. CASE v = u
      BY <2>3, <2>4, <2>7, <3>1
    <3>2. CASE v # u
      BY <2>4, <2>7, <3>2 DEF InvitedInv
    <3> QED
      BY <3>1, <3>2
  <2>11. \A v \in Present' \ (DOMAIN Seed \cup given') : \E p \in Requests : Creator(p, v)'
    BY <2>5, <2>7 DEF InvitedInv, Present
  <2>12. \A v \in Ids, p, o \in Requests : Creator(p, v)' /\ Creator(o, v)' => p = o
    BY <2>7 DEF InvitedInv
  <2> QED
    BY <1>t, <2>8, <2>9, <2>10, <2>11, <2>12 DEF InvitedInv
<1>5. ASSUME NEW q \in Requests, NEW ok \in BOOLEAN,
             \/ LogCreated(q) \/ CreationUnlogged(q)
             \/ LogUpdated(q, ok) \/ LogDeleted(q, ok) \/ Fails(q)
      PROVE  InvitedInv'
  <2>1. /\ \A p \in Requests \ {q} : requests'[p] = requests[p]
        /\ requests[q] # New /\ requests'[q] # New
        /\ requests'[q].op = requests[q].op /\ requests'[q].user = requests[q].user
        /\ requests'[q].step = "invite" \/ requests'[q].step = "answered"
        /\ requests'[q].step = "invite" => requests[q].step = "log"
        /\ users' = users /\ given' = given
    <3>1. \/ LogCreated(q) \/ CreationUnlogged(q) \/ Invite(q, ok)
          \/ LogUpdated(q, ok) \/ LogDeleted(q, ok) \/ Fails(q)
      BY <1>5
    <3> QED
      BY <1>t, <3>1, GoesOn
  <2>2. invited' = invited
    BY <1>5 DEF LogCreated, CreationUnlogged, LogUpdated, LogDeleted, Fails, Logged
  <2>3. ~(/\ requests'[q].step = "answered" /\ requests'[q].op = "create"
          /\ requests'[q].ok = TRUE)
    <3>1. CASE Fails(q)
      <4>1. Answer(q, FALSE)
        BY <3>1 DEF Fails
      <4> QED
        BY <1>t, <4>1 DEF Answer, TypeOK
    <3>2. CASE LogCreated(q) \/ CreationUnlogged(q)
      <4>1. requests[q] \in [step : {"log", "invite"}, op : {"create"}, user : Ids, row : Rows]
        BY <1>t, <3>2, InStep DEF LogCreated, CreationUnlogged
      <4>2. requests'[q].step = "invite"
        BY <1>t, <3>2, <4>1 DEF LogCreated, CreationUnlogged, Goes, TypeOK
      <4> QED
        BY <4>2
    <3>3. CASE LogUpdated(q, ok) \/ LogDeleted(q, ok)
      BY <2>1, <3>3 DEF LogUpdated, LogDeleted
    <3> QED
      BY <1>5, <3>1, <3>2, <3>3
  <2>4. \A v \in Ids : Creator(q, v)' <=> Creator(q, v)
    BY <2>1 DEF Creator
  <2>5. Present' = Present
    BY <2>1 DEF Present
  <2> QED
    BY <1>q, <2>1, <2>2, <2>3, <2>4, <2>5
<1>6. CASE UNCHANGED vars
  <2>1. users' = users /\ invited' = invited /\ requests' = requests /\ given' = given
    BY <1>6 DEF vars
  <2> QED
    BY <1>t, <2>1 DEF InvitedInv, Creator, Present
<1> QED
  <2>1. ASSUME NEW q \in Requests, Step(q) PROVE InvitedInv'
    <3>1. ASSUME NEW op \in {"create", "update", "delete"}, requests[q] = New, Refuse(q, op)
          PROVE  InvitedInv'
      <4>1. /\ requests'[q].step = "answered" /\ requests'[q].ok = FALSE
            /\ requests'[q].user = None /\ invited' = invited /\ users' = users
            /\ given' = given /\ \A p \in Requests \ {q} : requests'[p] = requests[p]
        BY <3>1, <1>t DEF Refuse, TypeOK
      <4> QED
        BY <3>1, <4>1, <1>q, <1>t DEF Present, Creator
    <3>2. ASSUME NEW op \in {"update", "delete"}, NEW u \in Ids, NEW body, Find(q, op, u, body)
          PROVE  InvitedInv'
      <4>1. users[u] \in Rows /\ requests[q] = New
        BY <1>t, <3>2, PresentRow DEF Find, Found
      <4> QED
        BY <1>1, <3>2, <4>1
    <3>3. ASSUME NEW row \in Rows, Search(q, row) PROVE InvitedInv'
      <4>1. requests[q] = New
        BY <3>3 DEF Search
      <4> QED
        BY <1>1, <3>3, <4>1
    <3> QED
      BY <2>1, <3>1, <3>2, <3>3, <1>2, <1>3, <1>4, <1>5 DEF Step, Exists, NotFound
  <2> QED
    BY <1>6, <2>1, NextIsStep

(* A created user was invited once, or will be, or its creator was told that  *)
(* the creation failed.                                                       *)
THEOREM InvitationCorrect == Spec => []InvitationAccounted
<1>1. ASSUME InvitedInv PROVE InvitationAccounted
  <2>1. \A u \in Ids : invited[u] <= 1
    BY <1>1 DEF InvitedInv
  <2>2. ASSUME NEW q \in Requests, requests[q].step = "answered", requests[q].op = "create",
               requests[q].ok
        PROVE  invited[requests[q].user] = 1
    <3>1. requests[q] \in Answered
      BY <1>1, <2>2, InStep DEF InvitedInv, Request, InProgress, New
    <3>2. requests[q].ok = TRUE
      BY <2>2, <3>1 DEF Answered
    <3> QED
      BY <1>1, <2>2, <3>2 DEF InvitedInv
  <2>3. ASSUME NEW u \in Present \ (DOMAIN Seed \cup given), invited[u] = 0
        PROVE  \E q \in Requests :
                 /\ requests[q] # New
                 /\ requests[q].op = "create" /\ requests[q].user = u
                 /\ requests[q].step = "answered" => ~requests[q].ok
    <3>1. PICK q \in Requests : Creator(q, u)
      BY <1>1, <2>3 DEF InvitedInv
    <3>2. requests[q].step = "answered" => ~requests[q].ok
      BY <2>2, <2>3, <3>1 DEF Creator
    <3> QED
      BY <3>1, <3>2 DEF Creator
  <2> QED
    BY <2>1, <2>2, <2>3 DEF InvitationAccounted
<1> QED
  BY <1>1, InvitedInit, InvitedStep, PTL DEF Spec
-----------------------------------------------------------------------------
(* The story the entries tell.  A user no two requests ever changed at once is *)
(* changed by one request at most: until it writes, the row is the one it read; *)
(* until it logs, the story ends with that row, and its entry takes it on.     *)

(* The rows of u that the entries s tell. *)
Retells(g, s, u) ==
  g = [i \in 0..Len(s) |-> IF i = 0 THEN Told(Initially(u)) ELSE Retold(u, g[i - 1], s[i])]

IsStory(g, u) == Retells(g, trail[u], u)

EndsWith(u, row) == \A g : IsStory(g, u) => g[Len(trail[u])] = row

(* The row that an update leaves under u. *)
Kept(u, row, body) == IF Leaves(u, body) THEN Absent ELSE Overwritten(row, body)

(* Users whose requests overlapped, or who got their id by an update. *)
Disturbed == contended \cup given

(* What a request that changes u knows of the row. *)
Knows(q, u) ==
  /\ requests[q].step = "change" => users[u] = requests[q].old
  /\ requests[q].step = "log" /\ requests[q].op = "create" => users[u] = requests[q].row
  /\ requests[q].step = "log" /\ requests[q].op = "update"
       => users[u] = Kept(u, requests[q].old, requests[q].body)
  /\ requests[q].step = "log" /\ requests[q].op = "delete" => users[u] = Absent

(* The story ends with the row, or with the row before the change to be logged. *)
ToldUpTo(u) ==
  /\ (\A q \in Changing(u) : requests[q].step # "log") => EndsWith(u, Told(users[u]))
  /\ \A q \in Changing(u) : requests[q].step = "log" /\ requests[q].op # "create"
                              => EndsWith(u, Told(requests[q].old))

HistoryOf(u) ==
  /\ \E g : IsStory(g, u)
  /\ u \notin Disturbed => /\ \A p, q \in Changing(u) : p = q
                           /\ \A q \in Changing(u) : Knows(q, u)
  /\ u \notin Disturbed /\ ~Excused(u) => ToldUpTo(u)

HistoryInv == TypeOK /\ \A u \in Ids : HistoryOf(u)

(* The entries of a trail have a story, and one more entry takes it on. *)
LEMMA StoryBegins ==
  ASSUME NEW u
  PROVE  /\ \E g : Retells(g, <<>>, u)
         /\ \A g : Retells(g, <<>>, u) => g[Len(<<>>)] = Told(Initially(u))
<1>1. Len(<<>>) = 0 /\ 0..0 = {0}
  OBVIOUS
<1>2. Retells([i \in {0} |-> Told(Initially(u))], <<>>, u)
  BY <1>1 DEF Retells
<1> QED
  BY <1>1, <1>2 DEF Retells

LEMMA StoryGoesOn ==
  ASSUME NEW s \in Seq(Entry), NEW e \in Entry, NEW u
  PROVE  /\ \A g : Retells(g, Append(s, e), u) =>
              \E h : Retells(h, s, u) /\ g[Len(Append(s, e))] = Retold(u, h[Len(s)], e)
         /\ \A h : Retells(h, s, u) => \E g : Retells(g, Append(s, e), u)
<1> DEFINE n == Len(s)
           t == Append(s, e)
<1>1. /\ n \in Nat /\ Len(t) = n + 1 /\ t[n + 1] = e /\ \A i \in 1..n : t[i] = s[i]
      /\ 0..Len(t) = (0..n) \cup {n + 1}
  BY AppendProperties
<1> HIDE DEF n, t
<1>2. ASSUME NEW g, Retells(g, t, u)
      PROVE  \E h : Retells(h, s, u) /\ g[Len(t)] = Retold(u, h[n], e)
  <2> DEFINE h == [i \in 0..n |-> g[i]]
  <2>1. \A i \in 0..Len(t) : g[i] = IF i = 0 THEN Told(Initially(u)) ELSE Retold(u, g[i - 1], t[i])
    BY <1>2 DEF Retells
  <2>2. \A i \in 0..n : g[i] = IF i = 0 THEN Told(Initially(u)) ELSE Retold(u, h[i - 1], s[i])
    <3> SUFFICES ASSUME NEW i \in 0..n
                 PROVE  g[i] = IF i = 0 THEN Told(Initially(u)) ELSE Retold(u, h[i - 1], s[i])
      OBVIOUS
    <3>1. CASE i = 0
      BY <1>1, <2>1, <3>1
    <3>2. CASE i # 0
      <4>1. i - 1 \in 0..n /\ i \in 1..n
        BY <1>1, <3>2
      <4> QED
        BY <1>1, <2>1, <3>2, <4>1
    <3> QED
      BY <3>1, <3>2
  <2>3. h = [i \in 0..n |-> IF i = 0 THEN Told(Initially(u)) ELSE Retold(u, h[i - 1], s[i])]
    BY <2>2
  <2>4. g[Len(t)] = Retold(u, h[n], e)
    <3>1. Len(t) \in 0..Len(t) /\ Len(t) # 0 /\ Len(t) - 1 = n /\ n \in 0..n
      BY <1>1
    <3> QED
      BY <1>1, <2>1, <3>1
  <2>5. Retells(h, s, u)
    BY <2>3 DEF Retells, n
  <2> QED
    BY <2>4, <2>5
<1>3. ASSUME NEW h, Retells(h, s, u)
      PROVE  \E g : Retells(g, t, u)
  <2> DEFINE g == [i \in 0..Len(t) |-> IF i = n + 1 THEN Retold(u, h[n], e) ELSE h[i]]
  <2>1. \A i \in 0..n : h[i] = IF i = 0 THEN Told(Initially(u)) ELSE Retold(u, h[i - 1], s[i])
    BY <1>3 DEF Retells, n
  <2>2. \A i \in 0..Len(t) : g[i] = IF i = 0 THEN Told(Initially(u)) ELSE Retold(u, g[i - 1], t[i])
    <3> SUFFICES ASSUME NEW i \in 0..Len(t)
                 PROVE  g[i] = IF i = 0 THEN Told(Initially(u)) ELSE Retold(u, g[i - 1], t[i])
      OBVIOUS
    <3>1. CASE i = 0
      BY <1>1, <2>1, <3>1
    <3>2. CASE i = n + 1
      <4>1. i # 0 /\ i - 1 = n /\ n \in 0..Len(t) /\ n # n + 1
        BY <1>1, <3>2
      <4> QED
        BY <1>1, <3>2, <4>1
    <3>3. CASE i \in 1..n
      <4>1. i # 0 /\ i # n + 1 /\ i \in 0..n /\ i - 1 \in 0..Len(t) /\ i - 1 # n + 1
        BY <1>1, <3>3
      <4> QED
        BY <1>1, <2>1, <3>3, <4>1
    <3> QED
      BY <1>1, <3>1, <3>2, <3>3
  <2>3. g = [i \in 0..Len(t) |-> IF i = 0 THEN Told(Initially(u)) ELSE Retold(u, g[i - 1], t[i])]
    BY <2>2
  <2> QED
    BY <2>3 DEF Retells
<1> QED
  BY <1>2, <1>3 DEF n, t

LEMMA HistoryInit == Init => HistoryInv
<1> SUFFICES ASSUME Init PROVE HistoryInv
  OBVIOUS
<1>1. TypeOK
  BY TypeInit
<1>2. ASSUME NEW u \in Ids PROVE HistoryOf(u)
  <2>1. trail[u] = <<>> /\ users[u] = Initially(u) /\ Changing(u) = {}
    BY DEF Init, Changing, New
  <2> QED
    BY <2>1, StoryBegins DEF HistoryOf, ToldUpTo, EndsWith, IsStory
<1> QED
  BY <1>1, <1>2 DEF HistoryInv

(* Who is excused stays so, and whose caller sees an error is. *)
LEMMA ExcusedGrows ==
  ASSUME TypeOK, NEW q \in Requests, requests[q].step # "answered",
         \A p \in Requests \ {q} : requests'[p] = requests[p], unlogged \subseteq unlogged'
  PROVE  /\ \A u : Excused(u) => Excused(u)'
         /\ \A u : /\ requests'[q].user = u
                  /\ requests'[q].step = "answered" /\ requests'[q].ok = FALSE
                  => Excused(u)'
<1>1. ASSUME NEW u, Excused(u) PROVE Excused(u)'
  <2>1. CASE u \in unlogged
    BY <2>1 DEF Excused
  <2>2. CASE u \notin unlogged
    <3>1. PICK p \in Requests : /\ requests[p].step = "answered"
                                /\ requests[p].user = u /\ requests[p].ok = FALSE
      BY <1>1, <2>2 DEF Excused
    <3>2. requests'[p] = requests[p]
      BY <3>1
    <3> QED
      BY <3>1, <3>2 DEF Excused
  <2> QED
    BY <2>1, <2>2
<1>2. ASSUME NEW u, requests'[q].user = u,
             requests'[q].step = "answered", requests'[q].ok = FALSE
      PROVE  Excused(u)'
  BY <1>2 DEF Excused
<1> QED
  BY <1>1, <1>2

(* A step leaves alone the story of a user it does not touch. *)
LEMMA HistoryElsewhere ==
  ASSUME NEW u \in Ids, HistoryOf(u), trail'[u] = trail[u],
         users'[u] = users[u] \/ u \in Disturbed',
         \A p \in Requests :
            p \in Changing(u) \/ p \in Changing(u)' => requests'[p] = requests[p],
         Disturbed \subseteq Disturbed', Excused(u) => Excused(u)'
  PROVE  HistoryOf(u)'
<1>1. Changing(u)' = Changing(u)
  BY DEF Changing
<1>2. \A g : IsStory(g, u)' <=> IsStory(g, u)
  BY DEF IsStory, Retells
<1>3. \A q \in Changing(u) : q \in Requests /\ requests'[q] = requests[q]
  BY DEF Changing
<1>4. \A row : EndsWith(u, row)' <=> EndsWith(u, row)
  BY <1>2 DEF EndsWith
<1>5. ASSUME users'[u] = users[u]
      PROVE  \A q \in Changing(u) : Knows(q, u)' <=> Knows(q, u)
  BY <1>3, <1>5 DEF Knows
<1>6. ASSUME users'[u] = users[u]
      PROVE  ToldUpTo(u)' <=> ToldUpTo(u)
  BY <1>1, <1>3, <1>4, <1>6 DEF ToldUpTo
<1>7. CASE u \in Disturbed'
  BY <1>2, <1>7 DEF HistoryOf
<1>8. CASE users'[u] = users[u]
  BY <1>1, <1>2, <1>5, <1>6, <1>8 DEF HistoryOf
<1> QED
  BY <1>7, <1>8

(* The entry of u's only change: what the story told then, it tells after it. *)
LEMMA HistoryLogged ==
  ASSUME HistoryInv, NEW q \in Requests, NEW u \in Ids, requests[q].user = u,
         requests[q].step = "log", NEW entry \in Entry,
         trail' = [trail EXCEPT ![u] = Append(@, entry)], users' = users,
         \A p \in Requests \ {q} : requests'[p] = requests[p],
         requests'[q].step \notin {"change", "log"}, requests'[q].user = u,
         Disturbed' = Disturbed, \A v : Excused(v) => Excused(v)',
         \A row : /\ u \notin Disturbed
                  /\ requests[q].op # "create" => row = Told(requests[q].old)
                  => Retold(u, row, entry) = Told(users[u])
  PROVE  \A v \in Ids : HistoryOf(v)'
<1>1. ASSUME NEW v \in Ids, v # u PROVE HistoryOf(v)'
  <2>1. trail'[v] = trail[v]
    BY <1>1, LoggedStep DEF HistoryInv
  <2>2. \A p \in Requests : p \in Changing(v) \/ p \in Changing(v)' => requests'[p] = requests[p]
    BY <1>1 DEF Changing
  <2> QED
    BY <2>1, <2>2, HistoryElsewhere DEF HistoryInv
<1>2. HistoryOf(u)'
  <2>1. trail[u] \in Seq(Entry) /\ trail'[u] = Append(trail[u], entry)
    BY LoggedStep DEF HistoryInv
  <2>2. /\ \E g : IsStory(g, u)'
        /\ \A g : IsStory(g, u)' =>
             \E h : IsStory(h, u) /\ g[Len(trail'[u])] = Retold(u, h[Len(trail[u])], entry)
    <3>1. \A g : IsStory(g, u)' <=> Retells(g, Append(trail[u], entry), u)
      BY <2>1 DEF IsStory, Retells
    <3> QED
      BY <2>1, <3>1, StoryGoesOn DEF HistoryInv, HistoryOf, IsStory
  <2>3. q \in Changing(u) /\ Changing(u)' = Changing(u) \ {q}
    BY DEF Changing
  <2>4. u \notin Disturbed => Changing(u)' = {}
    BY <2>3 DEF HistoryInv, HistoryOf
  <2>5. ASSUME u \notin Disturbed', ~Excused(u)' PROVE EndsWith(u, Told(users[u]))'
    <3>1. u \notin Disturbed /\ ~Excused(u)
      BY <2>5
    <3>2. requests[q].op # "create" => EndsWith(u, Told(requests[q].old))
      BY <2>3, <3>1 DEF HistoryInv, HistoryOf, ToldUpTo
    <3>3. ASSUME NEW g, IsStory(g, u)' PROVE g[Len(trail'[u])] = Told(users[u])
      <4>1. PICK h : IsStory(h, u) /\ g[Len(trail'[u])] = Retold(u, h[Len(trail[u])], entry)
        BY <2>2, <3>3
      <4>2. requests[q].op # "create" => h[Len(trail[u])] = Told(requests[q].old)
        BY <3>2, <4>1 DEF EndsWith
      <4> QED
        BY <3>1, <4>1, <4>2
    <3> QED
      BY <3>3 DEF EndsWith
  <2> QED
    BY <2>2, <2>4, <2>5 DEF HistoryOf, ToldUpTo
<1> QED
  BY <1>1, <1>2

(* An update's entry makes of the row it shows what its body makes of the row. *)
LEMMA RetoldUpdate ==
  ASSUME NEW u \in Ids, NEW row \in Rows, NEW body \in Bodies, NEW entry,
         entry.action = "update", entry.old.name = row.name, entry.new = body
  PROVE  Retold(u, Told(row), entry) = Told(Kept(u, row, body))
<1>1. Told(row).name = row.name /\ Told(row).email = row.email
  BY DEF Told
<1>2. CASE Leaves(u, body)
  <2>1. Retold(u, Told(row), entry) = Nothing
    BY <1>1, <1>2 DEF Retold
  <2> QED
    BY <1>2, <2>1 DEF Kept, Told, Absent, Nothing
<1>3. CASE ~Leaves(u, body)
  <2>1. Retold(u, Told(row), entry) = [email |-> Given(body.email, row.email),
                                       name  |-> Given(body.name, row.name)]
    BY <1>1, <1>3 DEF Retold
  <2> QED
    BY <1>3, <2>1 DEF Kept, Told, Overwritten
<1> QED
  BY <1>2, <1>3

(* u is written as its request meant to. *)
LEMMA HistoryChanged ==
  ASSUME HistoryInv, NEW q \in Requests, NEW u \in Ids, requests[q].user = u,
         requests[q].step = "change", Altered(q, u), NEW row,
         users'[u] = row, \A v \in Ids \ {u} : users'[v] = users[v] \/ v \in given',
         given \subseteq given', u \in given' => u \in given,
         trail' = trail, contended' = contended, unlogged' = unlogged,
         \/ requests[q].op = "update" /\ row = Kept(u, users[u], requests[q].body)
         \/ requests[q].op = "delete" /\ row = Absent
  PROVE  \A v \in Ids : HistoryOf(v)'
<1>0. /\ \A p \in Requests \ {q} : requests'[p] = requests[p]
      /\ requests'[q].user = u /\ requests'[q].op = requests[q].op
      /\ requests'[q].step \in {"log", "answered"}
      /\ requests'[q].step = "answered" => Excused(u)'
      /\ Disturbed \subseteq Disturbed' /\ (u \in Disturbed' => u \in Disturbed)
      /\ \A v : Excused(v) => Excused(v)'
  <2>1. TypeOK /\ requests[q].step # "answered"
    BY DEF HistoryInv
  <2>2. /\ \A p \in Requests \ {q} : requests'[p] = requests[p]
        /\ requests'[q].user = u /\ requests'[q].op = requests[q].op
        /\ requests'[q].step \in {"log", "answered"}
        /\ requests'[q].step = "answered" => requests'[q].ok = FALSE
    BY <2>1, ChangedStep
  <2>3. /\ \A v : Excused(v) => Excused(v)'
        /\ requests'[q].step = "answered" => Excused(u)'
    BY <2>1, <2>2, ExcusedGrows
  <2> QED
    BY <2>2, <2>3 DEF Disturbed
<1>1. ASSUME NEW v \in Ids, v # u PROVE HistoryOf(v)'
  <2>1. \A p \in Requests : p \in Changing(v) \/ p \in Changing(v)' => requests'[p] = requests[p]
    BY <1>0, <1>1 DEF Changing
  <2> QED
    BY <1>0, <1>1, <2>1, HistoryElsewhere DEF HistoryInv, Disturbed
<1>2. \A g : IsStory(g, u)' <=> IsStory(g, u)
  BY DEF IsStory, Retells
<1>3. q \in Changing(u) /\ Changing(u)' \subseteq Changing(u)
  BY <1>0 DEF Changing
<1>4. ASSUME u \notin Disturbed
      PROVE  /\ Changing(u) = {q} /\ requests[q].old = users[u]
             /\ requests'[q].step = "log" => requests'[q].old = requests[q].old
             /\ requests'[q].step = "log" => requests'[q].body = requests[q].body
  <2>1. Changing(u) = {q} /\ requests[q].old = users[u]
    BY <1>3, <1>4 DEF HistoryInv, HistoryOf, Knows
  <2>2. requests'[q].step = "log" => requests' = [requests EXCEPT ![q].step = "log", ![q].user = u]
    BY DEF Altered, HistoryInv, TypeOK
  <2>3. requests[q] \in [step : {"change", "log"}, op : {"update"}, user : Ids, old : Rows,
                         body : Bodies]
          \cup [step : {"change", "log"}, op : {"delete"}, user : Ids, old : Rows,
                body : {Nothing}]
    BY InStep DEF HistoryInv
  <2> QED
    BY <2>1, <2>2, <2>3 DEF HistoryInv, TypeOK
<1>5. ASSUME u \notin Disturbed
      PROVE  /\ \A p, o \in Changing(u)' : p = o
             /\ \A p \in Changing(u)' : Knows(p, u)'
  <2>1. Changing(u)' \subseteq {q}
    BY <1>3, <1>4, <1>5
  <2>2. Knows(q, u)'
    BY <1>0, <1>4, <1>5 DEF Knows
  <2> QED
    BY <2>1, <2>2
<1>6. ASSUME u \notin Disturbed', ~Excused(u)' PROVE ToldUpTo(u)'
  <2>1. u \notin Disturbed /\ ~Excused(u)
    BY <1>0, <1>6
  <2>2. EndsWith(u, Told(users[u]))
    BY <1>4, <2>1 DEF HistoryInv, HistoryOf, ToldUpTo
  <2>3. \A any : EndsWith(u, any)' <=> EndsWith(u, any)
    BY <1>2 DEF EndsWith
  <2>4. requests'[q].step = "log"
    BY <1>0, <1>6
  <2>5. Changing(u)' = {q} /\ requests'[q].old = users[u]
    BY <1>0, <1>3, <1>4, <2>1, <2>4 DEF Changing
  <2> QED
    BY <2>2, <2>3, <2>4, <2>5 DEF ToldUpTo
<1>7. HistoryOf(u)'
  BY <1>0, <1>2, <1>5, <1>6 DEF HistoryInv, HistoryOf
<1> QED
  BY <1>1, <1>7

(* A request is done with u: it changed nothing, or its entry is missing. *)
LEMMA HistoryGivenUp ==
  ASSUME HistoryInv, NEW q \in Requests, NEW u, u = requests[q].user,
         requests'[q].step \notin {"change", "log"},
         \A p \in Requests \ {q} : requests'[p] = requests[p],
         requests[q].step # "answered",
         users' = users, trail' = trail, Disturbed' = Disturbed, unlogged \subseteq unlogged',
         requests[q].step = "log" => Excused(u)'
  PROVE  \A v \in Ids : HistoryOf(v)'
<1>0. \A v : Excused(v) => Excused(v)'
  BY ExcusedGrows DEF HistoryInv
<1>1. ASSUME NEW v \in Ids, q \notin Changing(v) PROVE HistoryOf(v)'
  <2>1. \A p \in Requests : p \in Changing(v) \/ p \in Changing(v)' => requests'[p] = requests[p]
    BY <1>1 DEF Changing
  <2> QED
    BY <1>0, <2>1, HistoryElsewhere DEF HistoryInv
<1>2. ASSUME NEW v \in Ids, q \in Changing(v) PROVE HistoryOf(v)'
  <2>1. v = u /\ Changing(v)' = Changing(v) \ {q}
    BY <1>2 DEF Changing
  <2>2. \A g : IsStory(g, v)' <=> IsStory(g, v)
    BY DEF IsStory, Retells
  <2>3. v \notin Disturbed => Changing(v)' = {} /\ Changing(v) = {q}
    BY <1>2, <2>1 DEF HistoryInv, HistoryOf
  <2>4. ASSUME v \notin Disturbed', ~Excused(v)' PROVE ToldUpTo(v)'
    <3>1. v \notin Disturbed /\ ~Excused(v) /\ requests[q].step # "log"
      BY <1>0, <2>1, <2>4
    <3>2. EndsWith(v, Told(users[v]))
      BY <2>3, <3>1 DEF HistoryInv, HistoryOf, ToldUpTo
    <3>3. \A any : EndsWith(v, any)' <=> EndsWith(v, any)
      BY <2>2 DEF EndsWith
    <3> QED
      BY <2>3, <3>1, <3>2, <3>3 DEF ToldUpTo
  <2> QED
    BY <2>2, <2>3, <2>4 DEF HistoryInv, HistoryOf
<1> QED
  BY <1>1, <1>2

LEMMA HistoryStep == HistoryInv /\ [Next]_vars => HistoryInv'
<1> SUFFICES ASSUME HistoryInv, [Next]_vars PROVE HistoryInv'
  OBVIOUS
<1> USE DEF history
<1>t. TypeOK /\ TypeOK' /\ None \notin Ids
  BY TypeStep, SeedAssumption DEF HistoryInv
<1>1. ASSUME NEW q \in Requests, NEW op, NEW row \in Rows, Refuse(q, op) \/ Search(q, row),
             requests[q] = New
      PROVE  \A v \in Ids : HistoryOf(v)'
  <2>1. /\ requests'[q].step \in {"answered", "insert"} /\ requests[q].step = "new"
        /\ \A p \in Requests \ {q} : requests'[p] = requests[p]
    BY <1>1, <1>t DEF Refuse, Search, TypeOK, New
  <2>2. UNCHANGED <<users, trail, unlogged>> /\ Disturbed' = Disturbed
    BY <1>1 DEF Refuse, Search, Disturbed
  <2> QED
    BY <2>1, <2>2, HistoryGivenUp
<1>2. ASSUME NEW q \in Requests, NEW op, NEW u \in Ids, NEW body, Find(q, op, u, body)
      PROVE  \A v \in Ids : HistoryOf(v)'
  <2>1. /\ requests[q] = New /\ UNCHANGED <<users, trail, unlogged>>
        /\ requests' = [requests EXCEPT ![q] = [step |-> "change", op |-> op, user |-> u,
                                                old |-> users[u], body |-> body]]
        /\ Disturbed \subseteq Disturbed'
        /\ u \notin Disturbed' => Changing(u) = {}
    BY <1>2 DEF Find, Disturbed
  <2>2. /\ requests[q].step = "new" /\ requests'[q].step = "change" /\ requests'[q].user = u
        /\ requests'[q].old = users[u]
        /\ \A p \in Requests \ {q} : requests'[p] = requests[p]
    BY <1>t, <2>1 DEF TypeOK, New
  <2>e. \A v : Excused(v) => Excused(v)'
    BY <1>t, <2>1, <2>2, ExcusedGrows
  <2>3. ASSUME NEW v \in Ids, v # u PROVE HistoryOf(v)'
    <3>1. \A p \in Requests : p \in Changing(v) \/ p \in Changing(v)' => requests'[p] = requests[p]
      BY <2>2, <2>3 DEF Changing
    <3> QED
      BY <2>1, <2>e, <3>1, HistoryElsewhere DEF HistoryInv
  <2>4. \A g : IsStory(g, u)' <=> IsStory(g, u)
    BY <2>1 DEF IsStory, Retells
  <2>5. ASSUME u \notin Disturbed' PROVE Changing(u)' = {q} /\ Knows(q, u)'
    BY <2>1, <2>2, <2>5 DEF Changing, Knows
  <2>6. ASSUME u \notin Disturbed', ~Excused(u)' PROVE ToldUpTo(u)'
    <3>1. EndsWith(u, Told(users[u]))
      BY <2>1, <2>e, <2>6 DEF HistoryInv, HistoryOf, ToldUpTo
    <3>2. \A any : EndsWith(u, any)' <=> EndsWith(u, any)
      BY <2>1, <2>4 DEF EndsWith
    <3> QED
      BY <2>1, <2>2, <2>5, <2>6, <3>1, <3>2 DEF ToldUpTo
  <2>7. HistoryOf(u)'
    BY <2>4, <2>5, <2>6 DEF HistoryInv, HistoryOf
  <2> QED
    BY <2>3, <2>7
<1>3. ASSUME NEW q \in Requests, NEW u \in Ids, NEW ok \in BOOLEAN, Insert(q, u, ok)
      PROVE  \A v \in Ids : HistoryOf(v)'
  <2>1. /\ \A p \in Requests : requests[p] = New \/ requests[p].user # u
        /\ users' = [users EXCEPT ![u] = requests[q].row]
        /\ UNCHANGED <<trail, contended, unlogged, given>>
        /\ requests[q].step = "insert"
    BY <1>3 DEF Insert, Fresh, Changed
  <2>2. /\ Altered(q, u)
        /\ requests[q] \in [step : {"insert"}, op : {"create"}, user : {None}, row : Rows]
    BY <1>3, <1>t, <2>1, InStep, WritesAlter
  <2>3. /\ \A p \in Requests \ {q} : requests'[p] = requests[p]
        /\ requests'[q].user = u /\ requests'[q].op = "create"
        /\ requests'[q].step \in {"log", "answered"}
        /\ requests'[q].step = "log" => requests'[q].row = requests[q].row
        /\ requests'[q].step = "answered" => requests'[q].ok = FALSE
    BY <1>t, <2>1, <2>2 DEF Altered, TypeOK
  <2>e. /\ \A v : Excused(v) => Excused(v)'
        /\ requests'[q].step = "answered" => Excused(u)'
        /\ Disturbed' = Disturbed
    BY <1>t, <2>1, <2>3, ExcusedGrows DEF Disturbed
  <2>4. users'[u] = requests[q].row /\ \A v \in Ids \ {u} : users'[v] = users[v]
    BY <1>t, <2>1 DEF TypeOK
  <2>5. ASSUME NEW v \in Ids, v # u PROVE HistoryOf(v)'
    <3>1. \A p \in Requests : p \in Changing(v) \/ p \in Changing(v)' => requests'[p] = requests[p]
      BY <2>1, <2>3, <2>5 DEF Changing
    <3> QED
      BY <2>1, <2>e, <2>4, <2>5, <3>1, HistoryElsewhere DEF HistoryInv
  <2>6. \A g : IsStory(g, u)' <=> IsStory(g, u)
    BY <2>1 DEF IsStory, Retells
  <2>7. Changing(u)' \subseteq {q}
    BY <2>1, <2>3 DEF Changing, New
  <2>8. Knows(q, u)'
    BY <2>3, <2>4 DEF Knows
  <2>9. ~Excused(u)' => ToldUpTo(u)'
    <3>1. ~Excused(u)' => Changing(u)' = {q} /\ requests'[q].step = "log"
      BY <2>3, <2>e, <2>7 DEF Changing
    <3> QED
      BY <2>3, <3>1 DEF ToldUpTo
  <2>10. HistoryOf(u)'
    BY <2>6, <2>7, <2>8, <2>9 DEF HistoryInv, HistoryOf
  <2> QED
    BY <2>5, <2>10
<1>4. ASSUME NEW q \in Requests, NEW ok \in BOOLEAN, Update(q, ok) \/ Delete(q, ok)
      PROVE  \A v \in Ids : HistoryOf(v)'
  <2>1. PICK u : u = requests[q].user
    OBVIOUS
  <2>2. /\ requests[q].step = "change" /\ u \in Ids /\ UNCHANGED <<trail, contended, unlogged>>
        /\ Altered(q, u)
    <3>1. requests[q].step = "change" /\ u \in Present /\ Changed(q, u, ok)
      BY <1>4, <2>1 DEF Update, Delete, Deletable
    <3>2. Altered(q, u)
      BY <1>4, <2>1, WritesAlter
    <3> QED
      BY <3>1, <3>2 DEF Changed, Present
  <2>3. CASE Update(q, ok)
    <3> DEFINE body == requests[q].body
               row  == Overwritten(users[u], body)
               id   == Given(body.id, u)
    <3>1. /\ users' = [users EXCEPT ![u] = Absent, ![id] = row] /\ requests[q].op = "update"
          /\ u \in Present /\ (id = u \/ id \notin Present)
          /\ given' = IF id # u THEN given \cup {id} ELSE given
      BY <2>1, <2>3 DEF Update
    <3>2. id \in Ids /\ (id = u <=> ~Leaves(u, body))
      <4>1. body \in Bodies
        BY <1>t, <2>3, InStep DEF Update
      <4> QED
        BY <2>2, <4>1, GivenId, SeedAssumption DEF Given, Leaves
    <3>3. users'[u] = Kept(u, users[u], body)
      <4> HIDE DEF body, row, id
      <4> QED
        BY <1>t, <2>2, <3>1, <3>2 DEF TypeOK, Kept, row
    <3>4. /\ \A v \in Ids \ {u} : users'[v] = users[v] \/ v \in given'
          /\ given \subseteq given' /\ (u \in given' => u \in given)
      <4> HIDE DEF body, row, id
      <4> QED
        BY <1>t, <2>2, <3>1, <3>2 DEF TypeOK
    <3> QED
      BY <2>1, <2>2, <3>1, <3>3, <3>4, HistoryChanged
  <2>4. CASE Delete(q, ok)
    <3>1. /\ users'[u] = Absent /\ \A v \in Ids \ {u} : users'[v] = users[v]
          /\ given' = given /\ requests[q].op = "delete"
      BY <1>t, <2>1, <2>2, <2>4 DEF Delete, TypeOK
    <3>2. /\ \A v \in Ids \ {u} : users'[v] = users[v] \/ v \in given'
          /\ given \subseteq given' /\ (u \in given' => u \in given)
      BY <3>1
    <3> QED
      BY <2>1, <2>2, <3>1, <3>2, HistoryChanged
  <2> QED
    BY <1>4, <2>3, <2>4
<1>5. ASSUME NEW q \in Requests, NEW ok \in BOOLEAN,
             LogCreated(q) \/ LogUpdated(q, ok) \/ LogDeleted(q, ok)
      PROVE  \A v \in Ids : HistoryOf(v)'
  <2>1. PICK u : u = requests[q].user
    OBVIOUS
  <2>2. /\ requests[q].step = "log" /\ u \in Ids /\ q \in Changing(u)
        /\ UNCHANGED <<users, contended, given, unlogged>>
    <3>1. /\ requests[q].step = "log" /\ UNCHANGED <<users, contended, given, unlogged>>
          /\ requests[q].op \in {"create", "update", "delete"}
      BY <1>5 DEF LogCreated, LogUpdated, LogDeleted, Logged
    <3> QED
      BY <1>t, <2>1, <3>1, InStep DEF Changing
  <2>3. u \notin Disturbed => Knows(q, u)
    BY <2>2 DEF HistoryInv, HistoryOf
  <2>4. /\ \A p \in Requests \ {q} : requests'[p] = requests[p]
        /\ requests'[q].user = u /\ requests'[q].step \notin {"change", "log"}
    BY <1>5, <1>t, <2>1, GoesOn
  <2>5. PICK entry \in Entry :
          /\ trail' = [trail EXCEPT ![u] = Append(@, entry)]
          /\ u \notin Disturbed => \A row :
               (requests[q].op # "create" => row = Told(requests[q].old))
                 => Retold(u, row, entry) = Told(users[u])
    <3>1. CASE LogCreated(q)
      <4> DEFINE r == requests[q]
                 entry == [action |-> "create", old |-> Nothing,
                           new |-> [email |-> r.row.email, name |-> r.row.name]]
      <4>1. r \in [step : {"log", "invite"}, op : {"create"}, user : Ids, row : Rows]
        BY <1>t, <3>1, InStep DEF LogCreated
      <4>2. entry \in Entry
        BY <4>1 DEF Entry, Shown, Rows
      <4>3. ASSUME u \notin Disturbed, NEW row PROVE Retold(u, row, entry) = Told(users[u])
        <5>1. users[u] = r.row
          BY <2>2, <2>3, <3>1, <4>3 DEF Knows, LogCreated
        <5> QED
          BY <5>1 DEF Retold, Told
      <4>4. trail' = [trail EXCEPT ![u] = Append(@, entry)]
        BY <2>1, <3>1 DEF LogCreated, Logged
      <4> QED
        BY <4>2, <4>3, <4>4
    <3>2. CASE LogUpdated(q, ok)
      <4> DEFINE r == requests[q]
                 entry == [action |-> "update", old |-> [email |-> None, name |-> r.old.name],
                           new |-> r.body]
      <4>1. r \in [step : {"change", "log"}, op : {"update"}, user : Ids, old : Rows, body : Bodies]
        BY <1>t, <3>2, InStep DEF LogUpdated
      <4>2. entry \in Entry
        BY <4>1 DEF Entry, Rows
      <4>3. ASSUME u \notin Disturbed PROVE Retold(u, Told(r.old), entry) = Told(users[u])
        <5>1. users[u] = Kept(u, r.old, r.body)
          BY <2>2, <2>3, <3>2, <4>3 DEF Knows, LogUpdated
        <5>2. r.old \in Rows /\ r.body \in Bodies
          BY <4>1
        <5> QED
          BY <2>2, <5>1, <5>2, RetoldUpdate
      <4>4. trail' = [trail EXCEPT ![u] = Append(@, entry)] /\ r.op # "create"
        BY <2>1, <3>2 DEF LogUpdated, Logged
      <4> QED
        BY <4>2, <4>3, <4>4
    <3>3. CASE LogDeleted(q, ok)
      <4> DEFINE r == requests[q]
                 entry == [action |-> "delete", new |-> Nothing,
                           old |-> [email |-> r.old.email, name |-> r.old.name]]
      <4>1. r \in [step : {"change", "log"}, op : {"delete"}, user : Ids, old : Rows,
                   body : {Nothing}]
        BY <1>t, <3>3, InStep DEF LogDeleted
      <4>2. entry \in Entry
        BY <4>1 DEF Entry, Rows, Shown
      <4>3. ASSUME u \notin Disturbed PROVE Retold(u, Told(r.old), entry) = Told(users[u])
        <5>1. users[u] = Absent
          BY <2>2, <2>3, <3>3, <4>3 DEF Knows, LogDeleted
        <5>2. Retold(u, Told(r.old), entry) = Nothing
          BY DEF Retold, Told
        <5> QED
          BY <5>1, <5>2 DEF Told, Absent, Nothing
      <4>4. trail' = [trail EXCEPT ![u] = Append(@, entry)] /\ r.op # "create"
        BY <2>1, <3>3 DEF LogDeleted, Logged
      <4> QED
        BY <4>2, <4>3, <4>4
    <3> QED
      BY <1>5, <3>1, <3>2, <3>3
  <2>6. (\A v : Excused(v) => Excused(v)') /\ Disturbed' = Disturbed
    BY <1>t, <2>2, <2>4, ExcusedGrows DEF Disturbed
  <2>7. \A row : /\ u \notin Disturbed
                 /\ requests[q].op # "create" => row = Told(requests[q].old)
                 => Retold(u, row, entry) = Told(users[u])
    BY <2>5
  <2> QED
    BY <2>1, <2>2, <2>4, <2>5, <2>6, <2>7, HistoryLogged
<1>6. ASSUME NEW q \in Requests, NEW ok \in BOOLEAN,
             CreationUnlogged(q) \/ Invite(q, ok) \/ Fails(q)
      PROVE  \A v \in Ids : HistoryOf(v)'
  <2>1. /\ \A p \in Requests \ {q} : requests'[p] = requests[p]
        /\ requests'[q].step \notin {"change", "log"} /\ requests'[q].user = requests[q].user
    BY <1>6, <1>t, GoesOn
  <2>0. PICK u : u = requests[q].user
    OBVIOUS
  <2>2. /\ UNCHANGED <<users, trail>> /\ Disturbed' = Disturbed
        /\ unlogged \subseteq unlogged' /\ requests[q].step # "answered"
    BY <1>6 DEF CreationUnlogged, Invite, Fails, Failing, Disturbed
  <2>3. requests[q].step = "log" => Excused(u)'
    <3>1. CASE CreationUnlogged(q)
      BY <2>0, <3>1 DEF CreationUnlogged, Excused
    <3>2. CASE Fails(q)
      <4>1. requests'[q].step = "answered" /\ requests'[q].ok = FALSE
        BY <1>t, <3>2 DEF Fails, Answer, TypeOK
      <4> QED
        BY <1>t, <2>0, <2>1, <2>2, <4>1, ExcusedGrows
    <3>3. CASE Invite(q, ok)
      BY <3>3 DEF Invite
    <3> QED
      BY <1>6, <3>1, <3>2, <3>3
  <2> QED
    BY <2>0, <2>1, <2>2, <2>3, HistoryGivenUp
<1>7. CASE UNCHANGED vars
  <2>1. \A v \in Ids : HistoryOf(v)'
    BY <1>7, HistoryElsewhere DEF HistoryInv, vars, Disturbed, Excused
  <2> QED
    BY <1>t, <2>1 DEF HistoryInv
<1> QED
  <2>1. ASSUME NEW q \in Requests, Step(q) PROVE \A v \in Ids : HistoryOf(v)'
    <3>1. ASSUME NEW op, requests[q] = New, Refuse(q, op) PROVE \A v \in Ids : HistoryOf(v)'
      <4>1. /\ requests'[q].step = "answered" /\ requests[q].step = "new"
            /\ \A p \in Requests \ {q} : requests'[p] = requests[p]
            /\ UNCHANGED <<users, trail, unlogged>> /\ Disturbed' = Disturbed
        BY <3>1, <1>t DEF Refuse, TypeOK, New, Disturbed
      <4> QED
        BY <4>1, HistoryGivenUp
    <3>2. ASSUME NEW row \in Rows, Search(q, row) PROVE \A v \in Ids : HistoryOf(v)'
      BY <1>1, <3>2 DEF Search
    <3> QED
      BY <2>1, <3>1, <3>2, <1>2, <1>3, <1>4, <1>5, <1>6 DEF Step, Exists, NotFound
  <2> QED
    BY <1>7, <1>t, <2>1, NextIsStep DEF HistoryInv

(* The entries of a user retell it, whatever else fails or overlaps: what an  *)
(* auditor reads is the row, unless two requests changed the user at once, an *)
(* update gave it its id, a caller got an error or its creation went          *)
(* unlogged.                                                                  *)
THEOREM TrailCorrect == Spec => []TrailTellsHistory
<1>1. ASSUME HistoryInv PROVE TrailTellsHistory
  <2> SUFFICES ASSUME NEW u \in Ids, u \notin Disturbed, Changing(u) = {}, ~Excused(u)
               PROVE  Story(u)[Len(trail[u])] = Told(users[u])
    BY DEF TrailTellsHistory, Disturbed
  <2>1. PICK g : IsStory(g, u)
    BY <1>1 DEF HistoryInv, HistoryOf
  <2>2. IsStory(Story(u), u)
    BY <2>1 DEF IsStory, Retells, Story
  <2>3. EndsWith(u, Told(users[u]))
    BY <1>1 DEF HistoryInv, HistoryOf, ToldUpTo
  <2> QED
    BY <2>2, <2>3 DEF EndsWith
<1> QED
  BY <1>1, HistoryInit, HistoryStep, PTL DEF Spec

-----------------------------------------------------------------------------
(* The directory.  An id leaves Fresh with the insert of its user or with the *)
(* update that gives it, and no id that is Fresh has a row, because whoever    *)
(* has one was there from the start, has a creator or got the id by an update. *)

DirInv == SharedInv /\ InvitedInv

LEMMA DirInit == Init => Dir!Init
<1> SUFFICES ASSUME Init PROVE Dir!Init
  OBVIOUS
<1>1. /\ users \in [Ids -> Rows \cup {Absent}]
      /\ \A u \in Ids : users[u] # Absent <=> u \in DOMAIN Seed
  BY SeedAssumption, AbsentNoRow DEF Init, Initially
<1>2. Ids \ Fresh = Dir!Present
  BY <1>1, SeedAssumption DEF Init, Fresh, Dir!Present
<1>3. Dir!Distinct
  <2>1. SharedInv
    BY SharedInit
  <2> QED
    BY <2>1 DEF SharedInv, Present, Dir!Distinct, Dir!Present
<1> QED
  BY <1>1, <1>2, <1>3 DEF Dir!Init

(* A request that keeps its user, or finds one that has a row. *)
LEMMA FreshStays ==
  ASSUME DirInv, NEW q \in Requests, \A p \in Requests \ {q} : requests'[p] = requests[p],
         given' = given, requests'[q] # New, requests'[q].user \notin Fresh,
         requests[q] # New => requests'[q].user = requests[q].user
  PROVE  Fresh' = Fresh
BY DEF Fresh

LEMMA PresentNotFresh ==
  ASSUME DirInv, NEW u \in Present
  PROVE  u \notin Fresh
BY DEF DirInv, InvitedInv, Creator, Fresh

LEMMA UserNotFresh ==
  ASSUME NEW q \in Requests, requests[q] # New
  PROVE  requests[q].user \notin Fresh
BY DEF Fresh

LEMMA DirStep == DirInv /\ DirInv' /\ [Next]_vars => [Dir!Next]_<<users, Ids \ Fresh>>
<1> SUFFICES ASSUME DirInv, DirInv', [Next]_vars
             PROVE  Dir!Next \/ (users' = users /\ Fresh' = Fresh)
  OBVIOUS
<1> USE DEF history
<1>t. TypeOK /\ TypeOK' /\ None \notin Ids /\ None \notin Fresh
  BY SeedAssumption DEF DirInv, SharedInv, Fresh
<1>d. Dir!Distinct'
  BY DEF DirInv, SharedInv, Present, Dir!Distinct, Dir!Present
<1>1. ASSUME NEW q \in Requests, NEW u \in Ids, NEW ok \in BOOLEAN, Insert(q, u, ok)
      PROVE  Dir!Next
  <2>1. /\ u \in Fresh /\ users' = [users EXCEPT ![u] = requests[q].row]
        /\ requests[q].step = "insert"
    BY <1>1 DEF Insert
  <2>g. given' = given
    BY <1>1 DEF Insert
  <2>2. Altered(q, u) /\ requests[q].user = None /\ requests[q].row \in Rows
    BY <1>1, <1>t, <2>1, InStep, WritesAlter
  <2>3. /\ \A p \in Requests \ {q} : requests'[p] = requests[p]
        /\ requests'[q].user = u /\ requests'[q] # New
    BY <1>t, <2>1, <2>2, ChangedStep
  <2>4. Fresh' = Fresh \ {u}
    <3>1. requests[q].user = None /\ \A v \in Ids : v # None
      BY <1>t, <2>2
    <3> QED
      BY <2>3, <2>g, <3>1 DEF Fresh
  <2>5. Ids \ Fresh' = (Ids \ Fresh) \cup {u} /\ u \notin Ids \ Fresh
    BY <2>1, <2>4
  <2> QED
    BY <1>d, <2>1, <2>2, <2>5 DEF Dir!Next, Dir!Enrol
<1>2. ASSUME NEW q \in Requests, NEW ok \in BOOLEAN, Update(q, ok) \/ Delete(q, ok)
      PROVE  Dir!Next
  <2>1. PICK u : u = requests[q].user
    OBVIOUS
  <2>2. requests[q].step = "change" /\ requests[q] # New /\ u \in Present /\ Altered(q, u)
    BY <1>2, <2>1, WritesAlter DEF Update, Delete, Deletable, New
  <2>3. u \in Ids /\ u \in Dir!Present
    BY <2>2 DEF Present, Dir!Present
  <2>4. /\ \A p \in Requests \ {q} : requests'[p] = requests[p]
        /\ requests'[q].user = u /\ requests'[q] # New
    BY <1>t, <2>1, <2>2, <2>3, ChangedStep
  <2>5. CASE Update(q, ok)
    <3> DEFINE body == requests[q].body
               row  == Overwritten(users[u], body)
               id   == Given(body.id, u)
    <3>1. /\ users' = [users EXCEPT ![u] = Absent, ![id] = row]
          /\ id = u \/ id \notin Present
          /\ given' = IF id # u THEN given \cup {id} ELSE given
      BY <2>1, <2>5 DEF Update
    <3>2. users[u] \in Rows /\ body \in Bodies
      BY <1>t, <2>2, <2>5, InStep, PresentRow DEF Update
    <3>3. row \in Rows /\ id \in Ids
      BY <2>3, <3>2, OverwrittenRow, GivenId
    <3> HIDE DEF body, row, id
    <3>4. Fresh' = Fresh \ {id}
      <4>1. u \notin Fresh
        BY <2>2, PresentNotFresh
      <4>2. \A v \in Ids : v \in Fresh' <=> v \in Fresh /\ v # id
        BY <2>1, <2>2, <2>4, <3>1, <4>1 DEF Fresh
      <4> QED
        BY <4>2 DEF Fresh
    <3>5. Ids \ Fresh' = (Ids \ Fresh) \cup {id}
      BY <3>3, <3>4
    <3>6. Dir!Change(u, id, row)
      BY <2>3, <3>1, <3>5 DEF Dir!Change, Dir!Present, Present
    <3> QED
      BY <1>d, <2>3, <3>3, <3>6 DEF Dir!Next
  <2>6. CASE Delete(q, ok)
    <3>1. given' = given
      BY <2>6 DEF Delete
    <3>2. Fresh' = Fresh
      BY <2>1, <2>2, <2>4, <3>1, PresentNotFresh, FreshStays
    <3>3. Dir!Remove(u)
      BY <2>1, <2>3, <2>6, <3>2 DEF Delete, Dir!Remove
    <3> QED
      BY <1>d, <2>3, <3>3 DEF Dir!Next
  <2> QED
    BY <1>2, <2>5, <2>6
<1>3. ASSUME NEW q \in Requests, NEW op, requests[q] = New, Refuse(q, op)
      PROVE  users' = users /\ Fresh' = Fresh
  <2>1. /\ \A p \in Requests \ {q} : requests'[p] = requests[p]
        /\ requests'[q] # New /\ requests'[q].user = None /\ users' = users
        /\ given' = given
    BY <1>3, <1>t DEF Refuse, TypeOK, New
  <2> QED
    BY <1>3, <1>t, <2>1, FreshStays
<1>4. ASSUME NEW q \in Requests, NEW row \in Rows, Search(q, row)
      PROVE  users' = users /\ Fresh' = Fresh
  <2>1. /\ \A p \in Requests \ {q} : requests'[p] = requests[p]
        /\ requests[q] = New /\ requests'[q] # New /\ requests'[q].user = None /\ users' = users
        /\ given' = given
    BY <1>4, <1>t DEF Search, TypeOK, New
  <2> QED
    BY <1>t, <2>1, FreshStays
<1>5. ASSUME NEW q \in Requests, NEW op, NEW u \in Ids, NEW body, Find(q, op, u, body)
      PROVE  users' = users /\ Fresh' = Fresh
  <2>1. /\ \A p \in Requests \ {q} : requests'[p] = requests[p]
        /\ requests[q] = New /\ requests'[q] # New /\ requests'[q].user = u
        /\ users' = users /\ given' = given /\ u \in Present
    BY <1>5, <1>t DEF Find, Found, TypeOK, New
  <2> QED
    BY <2>1, PresentNotFresh, FreshStays
<1>6. ASSUME NEW q \in Requests, NEW ok \in BOOLEAN,
             \/ LogCreated(q) \/ CreationUnlogged(q) \/ Invite(q, ok)
             \/ LogUpdated(q, ok) \/ LogDeleted(q, ok) \/ Fails(q)
      PROVE  users' = users /\ Fresh' = Fresh
  BY <1>6, <1>t, GoesOn, UserNotFresh, FreshStays
<1>7. CASE UNCHANGED vars
  BY <1>7 DEF vars, Fresh
<1> QED
  <2>1. ASSUME NEW q \in Requests, Step(q) PROVE Dir!Next \/ (users' = users /\ Fresh' = Fresh)
    BY <2>1, <1>1, <1>2, <1>3, <1>4, <1>5, <1>6 DEF Step, Exists, NotFound
  <2> QED
    BY <1>7, <2>1, NextIsStep

(* The users implement the abstract directory: only a creation adds a user,    *)
(* whose id is new; an update changes one that is there and never brings back  *)
(* one that was removed; and a tenant's emails stay distinct.                  *)
THEOREM DirectoryCorrect == Spec => ImplementsDirectory
<1>1. Init => DirInv
  BY SharedInit, InvitedInit DEF DirInv
<1>2. DirInv /\ [Next]_vars => DirInv'
  BY SharedStep, InvitedStep DEF DirInv
<1> QED
  BY <1>1, <1>2, DirInit, DirStep, PTL DEF Spec, ImplementsDirectory, Dir!Spec
=============================================================================
