----------------------------- MODULE AuditChain -----------------------------
(***************************************************************************)
(* The tamper-evident audit trail: AuditService.log and verifyChain over   *)
(* the AuditLog table.                                                     *)
(*                                                                         *)
(* log() reads the tenant's newest row, derives the new row's hash from it *)
(* and inserts the new row.  The read and the insert are two awaited       *)
(* database calls with neither a transaction nor a lock around them, so    *)
(* the steps of several calls (several requests, or the service's log and  *)
(* the response hook's log of one request) interleave:                     *)
(*                                                                         *)
(*   Idle --GetLastLog--> "read" --SendCreate--> "sent" --Create--> Idle   *)
(*                                                                         *)
(* SHA-256 is taken to be collision free: a digest is the tuple of what    *)
(* was hashed.  A JSON object is the sequence of its keys in the order     *)
(* JSON.stringify prints them, because that order is hashed while the      *)
(* JSONB columns return their own order.                                   *)
(***************************************************************************)
EXTENDS Naturals, Sequences, FiniteSets, Functions

CONSTANTS Tenants,   \* tenant ids
          Callers,   \* calls of log() that can be in flight together
          Entries,   \* the entries the services log
          MaxClock,  \* bound: distinct millisecond stamps
          MaxRows    \* bound: rows the table can hold

ASSUME BoundsAssumption == MaxClock \in Nat /\ MaxRows \in Nat

VARIABLES rows,      \* the AuditLog table
          calls,     \* what each log() call in flight knows
          clock,     \* the milliseconds that stamp createdAt
          contended  \* history: tenants for which two calls have overlapped

vars == <<rows, calls, clock, contended>>

-----------------------------------------------------------------------------
(* JSON values and the entries the services write.                         *)

Null      == <<"null">>
Undefined == <<"undefined">>

(* The order in which JSONB returns keys: by length, then bytewise. *)
KeyOrder == <<"name", "role", "email", "isActive", "keyPrefix">>

(* What a Json? column returns for v: an absent value comes back as null and *)
(* an object with its keys reordered.                                        *)
StoredValue(v) ==
  IF v \in {Null, Undefined} THEN Null
  ELSE SelectSeq(KeyOrder, LAMBDA k : k \in Range(v))

Stored(e) == [e EXCEPT !.previousValue = StoredValue(@),
                       !.newValue      = StoredValue(@)]

Entry(action, id, previous, new) ==
  [action |-> action, entityId |-> id, previousValue |-> previous, newValue |-> new]

UserCreated(u)       == Entry("USER_CREATED", u, Null, <<"email", "name", "role">>)
UserUpdated(u, body) == Entry("USER_UPDATED", u, <<"name", "role">>, body)
UserDeleted(u)       == Entry("USER_DELETED", u, <<"email", "name">>, Null)
KeyRotated(k)        == Entry("API_KEY_ROTATED", k, <<"keyPrefix">>, <<"keyPrefix">>)
KeyRevoked(k)        == Entry("API_KEY_REVOKED", k, <<"isActive">>, <<"isActive">>)
TenantCreated(t)     == Entry("TENANT_UPDATED", t, Null, <<"name">>)
TenantUpdated(t)     == Entry("TENANT_UPDATED", t, <<"name">>, <<"name">>)

(* The response hook's entry for a write request on the user routes; body is *)
(* Undefined when the request had none.                                      *)
Requested(action, id, body) ==
  Entry(action, id, Null, IF action = "DELETE_User" THEN Null ELSE body)

-----------------------------------------------------------------------------
(* Hashes and queries.                                                     *)

NoHash == <<>>

Hash(t, e, previousHash) == <<t, e, previousHash>>

RowsOf(t) == {r \in rows : r.tenantId = t}

(* Bug: getLastLog sorts the wrong way. *)
Oldest(t) == {r \in RowsOf(t) : \A q \in RowsOf(t) : r.createdAt <= q.createdAt}

(* Rows stamped in the same millisecond tie, and the database may return any *)
(* of them for ORDER BY createdAt DESC LIMIT 1.                              *)
Latest(t) == {r \in RowsOf(t) : \A q \in RowsOf(t) : q.createdAt <= r.createdAt}

(* Bug: an absent row yields undefined instead of null. *)
LastHashesUndefined(t) == IF RowsOf(t) = {} THEN {Undefined}
                          ELSE {r.chainHash : r \in Latest(t)}

(* Bug: the newest row of the table, whosever it is. *)
LastHashesOfAll(t) ==
  IF rows = {} THEN {NoHash}
  ELSE {r.chainHash : r \in {x \in rows : \A q \in rows : q.createdAt <= x.createdAt}}

LastHashes(t) == IF RowsOf(t) = {} THEN {NoHash}
                 ELSE {r.chainHash : r \in Latest(t)}

(* Newest first, as findAll returns rows.  (Bug, when getChain does.) *)
SortedDescending(s) == \A i, j \in DOMAIN s : i < j => s[i].createdAt >= s[j].createdAt

(* The orders in which ORDER BY createdAt ASC may return a set of rows. *)
Sorted(s) == \A i, j \in DOMAIN s : i < j => s[i].createdAt <= s[j].createdAt

Orders(R) == {s \in Bijection(1..Cardinality(R), R) : Sorted(s)}

-----------------------------------------------------------------------------
(* Listing the trail: GET /audit with filters, a cursor and a limit.       *)

AnyAction == "any"

(* The filters of a request; entityType, entityId, userId and endDate filter *)
(* in the same way.  There is none on the tenant: the repository has no      *)
(* tenant id.                                                                *)
Filter == [action : {AnyAction} \cup {e.action : e \in Entries}, startDate : 0..MaxClock]

Matching(f, R) == {r \in R : /\ f.action \in {AnyAction, r.entry.action}
                             /\ f.startDate <= r.createdAt}

Listings(f, R) == {s \in Bijection(1..Cardinality(Matching(f, R)), Matching(f, R)) :
                     SortedDescending(s)}

(* A cursor is the set of the one row it names, or empty. *)
NoCursor == {}

(* findMany reads up to n rows, from the cursor's row on, which it includes. *)
Read(s, cursor, n) ==
  LET start == IF cursor = NoCursor THEN 1 ELSE CHOOSE i \in DOMAIN s : s[i] \in cursor
  IN  SubSeq(s, start, IF start + n - 1 <= Len(s) THEN start + n - 1 ELSE Len(s))

(* Bug: the cursor is the last row of the page. *)
PageToLast(s, cursor, limit) ==
  LET read == Read(s, cursor, limit + 1)
  IN  IF Len(read) > limit
      THEN [data |-> SubSeq(read, 1, limit), nextCursor |-> {read[limit]}]
      ELSE [data |-> read, nextCursor |-> NoCursor]

(* One row more than the limit is read, and becomes the cursor of the next *)
(* page instead of part of this one.                                       *)
Page(s, cursor, limit) ==
  LET read == Read(s, cursor, limit + 1)
  IN  IF Len(read) > limit
      THEN [data |-> SubSeq(read, 1, limit), nextCursor |-> {read[limit + 1]}]
      ELSE [data |-> read, nextCursor |-> NoCursor]

-----------------------------------------------------------------------------
(* verifyChain on the rows s in the order the database returned them.  The *)
(* running previousHash of the loop is the chainHash of the row before,    *)
(* because the loop ends at the first row whose hash differs.              *)

Previous(s, i) == IF i = 1 THEN NoHash ELSE s[i-1].chainHash

(* Bug: only the hashes are compared. *)
BrokenHash(s, i) == s[i].chainHash # Hash(s[i].tenantId, s[i].entry, Previous(s, i))

Broken(s, i) ==
  \/ s[i].chainHash # Hash(s[i].tenantId, s[i].entry, Previous(s, i))
  \/ Previous(s, i) # NoHash /\ s[i].previousHash # Previous(s, i)

Valid(s) == \A i \in DOMAIN s : ~Broken(s, i)

(* The index verifyChain reports is i. *)
BrokenAt(s, i) == /\ i \in DOMAIN s
                  /\ Broken(s, i)
                  /\ \A j \in DOMAIN s : j < i => ~Broken(s, j)

-----------------------------------------------------------------------------
Idle == [step |-> "idle"]

InFlight(t) == {c \in Callers : calls[c] # Idle /\ calls[c].tenantId = t}

Init == /\ rows = {}
        /\ calls = [c \in Callers |-> Idle]
        /\ clock = 0
        /\ contended = {}

(* The database answers getLastLog. *)
GetLastLog(c, t, e) ==
  /\ calls[c] = Idle
  /\ \E h \in LastHashes(t) :
       calls' = [calls EXCEPT ![c] =
                  [step |-> "read", tenantId |-> t, entry |-> e, previousHash |-> h]]
  /\ contended' = IF InFlight(t) = {} THEN contended ELSE contended \cup {t}
  /\ UNCHANGED <<rows, clock>>

(* The continuation hashes the entry and sends the insert, stamped now. *)
SendCreate(c) ==
  /\ calls[c].step = "read"
  /\ LET k == calls[c]
     IN  calls' = [calls EXCEPT ![c] =
           [step |-> "sent", tenantId |-> k.tenantId,
            row  |-> [tenantId     |-> k.tenantId,
                      entry        |-> Stored(k.entry),
                      previousHash |-> k.previousHash,
                      chainHash    |-> Hash(k.tenantId, k.entry, k.previousHash),
                      createdAt    |-> clock]]]
  /\ UNCHANGED <<rows, clock, contended>>

(* Bug: the column has no unique index. *)
AnyHash(r) == TRUE

(* The insert reaches the table, whose chainHash column is unique. *)
Unique(r) == \A q \in rows : q.chainHash # r.chainHash

Create(c) ==
  /\ calls[c].step = "sent"
  /\ Cardinality(rows) < MaxRows
  /\ Unique(calls[c].row)
  /\ rows' = rows \cup {calls[c].row}
  /\ calls' = [calls EXCEPT ![c] = Idle]
  /\ UNCHANGED <<clock, contended>>

(* The call ends without a row: the unique constraint or the client library *)
(* refuses the insert, the database is unreachable, or the process stops.   *)
Fails(c) ==
  /\ calls[c] # Idle
  /\ calls' = [calls EXCEPT ![c] = Idle]
  /\ UNCHANGED <<rows, clock, contended>>

Tick == /\ clock < MaxClock
        /\ clock' = clock + 1
        /\ UNCHANGED <<rows, calls, contended>>

Next == \/ \E c \in Callers :
             \/ \E t \in Tenants, e \in Entries : GetLastLog(c, t, e)
             \/ SendCreate(c)
             \/ Create(c)
             \/ Fails(c)
        \/ Tick

Spec == Init /\ [][Next]_vars

-----------------------------------------------------------------------------
(* Properties.                                                             *)

Digests == {NoHash} \cup {r.chainHash : r \in rows}

Row == [tenantId : Tenants, entry : {Stored(e) : e \in Entries},
        previousHash : Digests, createdAt : 0..clock,
        chainHash : {Hash(t, e, h) : t \in Tenants, e \in Entries, h \in Digests}]

Reading == [step : {"read"}, tenantId : Tenants, entry : Entries, previousHash : Digests]
Sending == [step : {"sent"}, tenantId : Tenants, row : Row]

(* Rows and calls hold values of their types; a row's and a call's           *)
(* previousHash is always a digest that the table still holds.               *)
TypeOK ==
  /\ rows \subseteq Row
  /\ calls \in [Callers -> {Idle} \cup Reading \cup Sending]
  /\ clock \in 0..MaxClock
  /\ contended \in SUBSET Tenants

(* However calls interleave, the row named by previousHash is stored, belongs *)
(* to the same tenant and is not younger: an entry is never chained to        *)
(* another tenant's trail nor to a row verifyChain would meet later.          *)
ParentStored ==
  \A r \in rows :
    \/ r.previousHash = NoHash
    \/ \E p \in RowsOf(r.tenantId) :
         p.chainHash = r.previousHash /\ p.createdAt <= r.createdAt

(* The premises under which log() builds one chain. *)
DistinctStamps(t) ==
  \A r, q \in RowsOf(t) : r.createdAt = q.createdAt => r = q

Serial(t) == t \notin contended /\ DistinctStamps(t)

(* The entry that was hashed comes back unchanged from the JSONB columns. *)
Survives(r) == \E e \in Entries :
                 Stored(e) = e /\ r.chainHash = Hash(r.tenantId, e, r.previousHash)

(* If a tenant's calls of log() never overlapped and no two of its rows share *)
(* a millisecond, no two rows of its trail follow the same row.               *)
NoForkWhenSerial ==
  \A t \in Tenants : Serial(t) =>
    \A r, q \in RowsOf(t) : r.previousHash = q.previousHash => r = q

(* If, besides, every logged value survives storage, verifyChain accepts the  *)
(* trail: failures of calls and the other tenants' traffic do not disturb it. *)
SerialChainVerifies ==
  \A t \in Tenants :
    (Serial(t) /\ \A r \in RowsOf(t) : Survives(r)) =>
      \A s \in Orders(RowsOf(t)) : Valid(s)

(* verifyChain finds a change of any one row of a trail that verifies, and    *)
(* reports its place: other content, another predecessor (which it does not   *)
(* compare in the first row), or a missing row that is not the newest.        *)
TamperLocated ==
  \A t \in Tenants : \A s \in Orders(RowsOf(t)) : Valid(s) =>
    \A i \in DOMAIN s :
      /\ \A e \in Entries \ {s[i].entry} : BrokenAt([s EXCEPT ![i].entry = e], i)
      /\ i > 1 => \A h \in Digests \ {s[i].previousHash} :
                    BrokenAt([s EXCEPT ![i].previousHash = h], i)
      /\ i < Len(s) =>
           BrokenAt([j \in 1..Len(s)-1 |-> IF j < i THEN s[j] ELSE s[j+1]], i)

(* A reader who takes a first page before a step and the rest after it sees   *)
(* every row that was there exactly once, and no row twice, whatever was      *)
(* inserted in between and wherever it sorts, provided that no two rows share *)
(* a millisecond: the cursor's place is decided by createdAt alone.           *)
PagesSurviveInsert ==
  [][(\A r, q \in rows' : r.createdAt = q.createdAt => r = q) =>
       \A f \in Filter, limit \in 1..MaxRows :
         \A s \in Listings(f, rows), n \in Listings(f, rows') :
           LET first == Page(s, NoCursor, limit)
               rest  == Page(n, first.nextCursor, MaxRows)
           IN  first.nextCursor # NoCursor =>
                 /\ Matching(f, rows) \subseteq Range(first.data) \cup Range(rest.data)
                 /\ Range(first.data) \cap Range(rest.data) = {}]_rows

(* Every step of the trail is a step of an append-only tree of digests. *)
Tree == INSTANCE HashTree WITH
          Root  <- NoHash,
          nodes <- {[tenantId |-> r.tenantId, parent |-> r.previousHash,
                     digest |-> r.chainHash, at |-> r.createdAt] : r \in rows}

ImplementsHashTree == Tree!Spec

(* What the end-to-end test and the documentation state of every trail, taken *)
(* here only where createdAt alone decides the order of the rows.             *)
ChainVerifies ==
  \A t \in Tenants : DistinctStamps(t) => \A s \in Orders(RowsOf(t)) : Valid(s)
=============================================================================
