-------------------------- MODULE AuditChain_proof --------------------------
(***************************************************************************)
(* Theorems about AuditChain for any number of tenants, concurrent calls,  *)
(* entries, rows and clock values.                                         *)
(***************************************************************************)
EXTENDS AuditChain, FiniteSetTheorems, SequenceTheorems, TLAPS

-----------------------------------------------------------------------------
(* Type correctness.  The types of rows and calls mention the digests that *)
(* are stored and the clock, which only grow.                              *)

LEMMA Grows ==
  ASSUME TypeOK, [Next]_vars
  PROVE  rows \subseteq rows' /\ clock \in Nat /\ clock' \in Nat /\ clock <= clock'
BY BoundsAssumption DEF TypeOK, Next, vars, GetLastLog, SendCreate, Create, Fails, Tick

LEMMA TypesGrow ==
  ASSUME rows \subseteq rows', clock \in Nat, clock' \in Nat, clock <= clock'
  PROVE  /\ Digests \subseteq Digests'
         /\ Row \subseteq Row'
         /\ Reading \subseteq Reading'
         /\ Sending \subseteq Sending'
<1>1. Digests \subseteq Digests'
  BY DEF Digests
<1>2. Row \subseteq Row'
  BY <1>1 DEF Row
<1> QED
  BY <1>1, <1>2 DEF Reading, Sending

LEMMA LastHashesStored ==
  ASSUME NEW t \in Tenants, NEW h \in LastHashes(t)
  PROVE  h \in Digests
BY DEF LastHashes, Latest, RowsOf, Digests

LEMMA TypeInit == Init => TypeOK
BY BoundsAssumption DEF Init, TypeOK

LEMMA TypeStep == TypeOK /\ [Next]_vars => TypeOK'
<1> SUFFICES ASSUME TypeOK, [Next]_vars PROVE TypeOK'
  OBVIOUS
<1>0. /\ Digests \subseteq Digests' /\ Row \subseteq Row'
      /\ Reading \subseteq Reading' /\ Sending \subseteq Sending'
  BY Grows, TypesGrow
<1>1. ASSUME NEW c \in Callers, NEW t \in Tenants, NEW e \in Entries, GetLastLog(c, t, e)
      PROVE  TypeOK'
  <2>1. PICK h \in LastHashes(t) : calls' = [calls EXCEPT ![c] =
             [step |-> "read", tenantId |-> t, entry |-> e, previousHash |-> h]]
    BY <1>1 DEF GetLastLog
  <2>2. [step |-> "read", tenantId |-> t, entry |-> e, previousHash |-> h] \in Reading
    BY LastHashesStored DEF Reading
  <2>3. calls' \in [Callers -> {Idle} \cup Reading' \cup Sending']
    BY <1>0, <2>1, <2>2 DEF TypeOK
  <2> QED
    BY <1>0, <1>1, <2>3 DEF TypeOK, GetLastLog
<1>2. ASSUME NEW c \in Callers, SendCreate(c) PROVE TypeOK'
  <2> DEFINE k == calls[c]
             row == [tenantId |-> k.tenantId, entry |-> Stored(k.entry),
                     previousHash |-> k.previousHash,
                     chainHash |-> Hash(k.tenantId, k.entry, k.previousHash),
                     createdAt |-> clock]
  <2>1. k \in Reading
    BY <1>2 DEF SendCreate, TypeOK, Sending, Idle
  <2>2. k.tenantId \in Tenants /\ k.entry \in Entries /\ k.previousHash \in Digests
    BY <2>1 DEF Reading
  <2>3. clock \in 0..clock
    BY BoundsAssumption DEF TypeOK
  <2>4. row \in Row
    BY <2>2, <2>3 DEF Row
  <2>5. calls' = [calls EXCEPT ![c] = [step |-> "sent", tenantId |-> k.tenantId, row |-> row]]
    BY <1>2 DEF SendCreate
  <2>6. [step |-> "sent", tenantId |-> k.tenantId, row |-> row] \in Sending
    BY <2>2, <2>4 DEF Sending
  <2> HIDE DEF k, row
  <2>7. calls' \in [Callers -> {Idle} \cup Reading' \cup Sending']
    BY <1>0, <2>5, <2>6 DEF TypeOK
  <2> QED
    BY <1>0, <1>2, <2>7 DEF TypeOK, SendCreate
<1>3. ASSUME NEW c \in Callers, Create(c) PROVE TypeOK'
  <2>1. calls[c].row \in Row
    BY <1>3 DEF Create, TypeOK, Reading, Sending, Idle
  <2>2. rows' \subseteq Row'
    BY <1>0, <1>3, <2>1 DEF Create, TypeOK
  <2>3. calls' \in [Callers -> {Idle} \cup Reading' \cup Sending']
    BY <1>0, <1>3 DEF Create, TypeOK
  <2> QED
    BY <1>3, <2>2, <2>3 DEF TypeOK, Create
<1>4. ASSUME NEW c \in Callers, Fails(c) PROVE TypeOK'
  <2>1. calls' \in [Callers -> {Idle} \cup Reading' \cup Sending']
    BY <1>0, <1>4 DEF Fails, TypeOK
  <2> QED
    BY <1>0, <1>4, <2>1 DEF TypeOK, Fails
<1>5. CASE Tick
  <2>1. clock' \in 0..MaxClock
    BY <1>5, BoundsAssumption DEF Tick, TypeOK
  <2> QED
    BY <1>0, <1>5, <2>1 DEF TypeOK, Tick
<1>6. CASE UNCHANGED vars
  BY <1>0, <1>6 DEF vars, TypeOK
<1> QED
  BY <1>1, <1>2, <1>3, <1>4, <1>5, <1>6 DEF Next

(* Every row and every call in flight has its type, and their predecessors   *)
(* are digests that the table holds.                                         *)
THEOREM TypeCorrect == Spec => []TypeOK
<1> QED BY TypeInit, TypeStep, PTL DEF Spec

-----------------------------------------------------------------------------
(* The parent of a row.  ParentStored is not inductive alone: a row is     *)
(* inserted with a predecessor that its call read some steps before.  What *)
(* is inductive is that the predecessor a call carries stays stored, which *)
(* holds because rows are only added.                                      *)

Stays(R, t, h, stamp) ==
  h = NoHash \/ \E p \in R : p.tenantId = t /\ p.chainHash = h /\ p.createdAt <= stamp

Hashed(r) == \E e \in Entries : /\ r.entry = Stored(e)
                                /\ r.chainHash = Hash(r.tenantId, e, r.previousHash)

RowOK(R, r) == Stays(R, r.tenantId, r.previousHash, r.createdAt) /\ Hashed(r)

CallOK(R, k, now) ==
  /\ k.step = "read" => Stays(R, k.tenantId, k.previousHash, now)
  /\ k.step = "sent" => k.row.tenantId = k.tenantId /\ RowOK(R, k.row)

ParentInv == /\ TypeOK
             /\ \A c \in Callers : CallOK(rows, calls[c], clock)
             /\ \A r \in rows : RowOK(rows, r)
             /\ \A r, q \in rows : r.chainHash = q.chainHash => r = q
             /\ IsFiniteSet(rows)

LEMMA StaysGrows ==
  ASSUME NEW R, NEW S, R \subseteq S, NEW m \in Nat, NEW n \in Nat, m <= n,
         \A r \in R : r.createdAt \in Nat, NEW t, NEW h, Stays(R, t, h, m)
  PROVE  Stays(S, t, h, n)
BY DEF Stays

LEMMA RowTypes ==
  ASSUME NEW r \in Row, clock \in Nat
  PROVE  r.tenantId \in Tenants /\ r.createdAt \in Nat /\ r.createdAt <= clock
BY DEF Row

LEMMA LastHashesStay ==
  ASSUME TypeOK, NEW t \in Tenants, NEW h \in LastHashes(t)
  PROVE  Stays(rows, t, h, clock)
<1>1. \A r \in rows : r.createdAt <= clock
  BY RowTypes, BoundsAssumption DEF TypeOK
<1> QED
  BY <1>1 DEF LastHashes, Latest, Stays, RowsOf

LEMMA ParentInit == Init => ParentInv
BY TypeInit, FS_EmptySet DEF Init, ParentInv, CallOK, Idle

LEMMA ParentStep == ParentInv /\ [Next]_vars => ParentInv'
<1> SUFFICES ASSUME ParentInv, [Next]_vars PROVE ParentInv'
  OBVIOUS
<1>t. TypeOK /\ TypeOK'
  BY TypeStep DEF ParentInv
<1>g. rows \subseteq rows' /\ clock \in Nat /\ clock' \in Nat /\ clock <= clock'
  BY <1>t, Grows
<1>n. \A r \in rows : r.createdAt \in Nat
  BY <1>t, <1>g, RowTypes DEF TypeOK
<1>c. \A c \in Callers : calls[c].step = "sent" =>
        calls[c].row \in Row /\ calls[c].row.createdAt \in Nat
  BY <1>t, <1>g, RowTypes DEF TypeOK, Idle, Reading, Sending
<1>r. \A r : RowOK(rows, r) /\ r.createdAt \in Nat => RowOK(rows', r)
  BY <1>g, <1>n, StaysGrows DEF RowOK
<1>old. \A c \in Callers : CallOK(rows', calls[c], clock')
  <2> SUFFICES ASSUME NEW c \in Callers PROVE CallOK(rows', calls[c], clock')
    OBVIOUS
  <2>1. CallOK(rows, calls[c], clock)
    BY DEF ParentInv
  <2> QED
    BY <1>g, <1>n, <1>c, <1>r, <2>1, StaysGrows DEF CallOK
<1>same. ASSUME rows' = rows, \A c \in Callers : CallOK(rows', calls'[c], clock')
         PROVE  ParentInv'
  BY <1>same, <1>t DEF ParentInv
<1>1. ASSUME NEW c \in Callers, NEW t \in Tenants, NEW e \in Entries, GetLastLog(c, t, e)
      PROVE  ParentInv'
  <2>1. PICK h \in LastHashes(t) : calls' = [calls EXCEPT ![c] =
             [step |-> "read", tenantId |-> t, entry |-> e, previousHash |-> h]]
    BY <1>1 DEF GetLastLog
  <2>2. Stays(rows', t, h, clock')
    BY <1>t, <1>g, <1>n, LastHashesStay, StaysGrows
  <2>3. CallOK(rows', calls'[c], clock')
    BY <1>t, <2>1, <2>2 DEF CallOK, TypeOK
  <2>4. \A d \in Callers : CallOK(rows', calls'[d], clock')
    BY <1>t, <1>old, <2>1, <2>3 DEF TypeOK
  <2> QED
    BY <1>1, <1>same, <2>4 DEF GetLastLog
<1>2. ASSUME NEW c \in Callers, SendCreate(c) PROVE ParentInv'
  <2> DEFINE k == calls[c]
  <2>1. k \in Reading
    BY <1>2, <1>t DEF SendCreate, TypeOK, Sending, Idle
  <2>2. Stays(rows', k.tenantId, k.previousHash, clock)
    BY <1>2 DEF ParentInv, CallOK, SendCreate
  <2>3. /\ calls'[c].step = "sent"
        /\ calls'[c].tenantId = k.tenantId
        /\ calls'[c].row.tenantId = k.tenantId
        /\ calls'[c].row.previousHash = k.previousHash
        /\ calls'[c].row.createdAt = clock
        /\ Hashed(calls'[c].row)
    BY <1>2, <1>t, <2>1 DEF SendCreate, TypeOK, Hashed, Reading
  <2>4. CallOK(rows', calls'[c], clock')
    BY <2>2, <2>3 DEF CallOK, RowOK
  <2>5. \A d \in Callers : CallOK(rows', calls'[d], clock')
    BY <1>2, <1>t, <1>old, <2>4 DEF SendCreate, TypeOK
  <2> QED
    BY <1>2, <1>same, <2>5 DEF SendCreate
<1>idle. ASSUME NEW c \in Callers, calls' = [calls EXCEPT ![c] = Idle]
         PROVE  \A d \in Callers : CallOK(rows', calls'[d], clock')
  BY <1>idle, <1>t, <1>old DEF CallOK, TypeOK, Idle
<1>3. ASSUME NEW c \in Callers, Create(c) PROVE ParentInv'
  <2> DEFINE n == calls[c].row
  <2>1. n.createdAt \in Nat /\ RowOK(rows, n)
    BY <1>3, <1>c DEF Create, ParentInv, CallOK
  <2>2. rows' = rows \cup {n} /\ calls' = [calls EXCEPT ![c] = Idle]
    BY <1>3 DEF Create
  <2>3. \A r \in rows' : RowOK(rows', r)
    BY <1>n, <1>r, <2>1, <2>2 DEF ParentInv
  <2>4. \A r, q \in rows' : r.chainHash = q.chainHash => r = q
    BY <1>3, <2>2 DEF Create, Unique, ParentInv
  <2>5. IsFiniteSet(rows')
    BY <2>2, FS_AddElement DEF ParentInv
  <2> QED
    BY <1>t, <1>idle, <2>2, <2>3, <2>4, <2>5 DEF ParentInv
<1>4. ASSUME NEW c \in Callers, Fails(c) PROVE ParentInv'
  BY <1>4, <1>idle, <1>same DEF Fails
<1>5. CASE Tick \/ UNCHANGED vars
  BY <1>5, <1>old, <1>same DEF Tick, vars
<1> QED
  BY <1>1, <1>2, <1>3, <1>4, <1>5 DEF Next

(* However log() calls interleave and fail, every row's predecessor is a row *)
(* of its own tenant that is stored and not younger.                         *)
THEOREM ParentCorrect == Spec => []ParentStored
<1>1. ParentInv => ParentStored
  BY DEF ParentInv, RowOK, ParentStored, Stays, RowsOf
<1> QED
  BY <1>1, ParentInit, ParentStep, PTL DEF Spec

-----------------------------------------------------------------------------
(* Refinement: the table implements the append-only tree of digests.       *)

Node(r) == [tenantId |-> r.tenantId, parent |-> r.previousHash,
            digest |-> r.chainHash, at |-> r.createdAt]

Nodes == {Node(r) : r \in rows}

LEMMA TreeStep == ParentInv /\ [Next]_vars => [Tree!Append]_Nodes
<1> SUFFICES ASSUME ParentInv, [Next]_vars PROVE Tree!Append \/ Nodes' = Nodes
  OBVIOUS
<1>1. ASSUME NEW c \in Callers, Create(c) PROVE Tree!Append
  <2> DEFINE n == calls[c].row
  <2>1. n \in Row /\ RowOK(rows, n)
    BY <1>1 DEF Create, ParentInv, CallOK, TypeOK, Idle, Reading, Sending
  <2>2. n.tenantId \in Tenants
    BY <2>1 DEF Row
  <2>3. Nodes' = Nodes \cup {Node(n)} /\ Node(n) \in Nodes'
    BY <1>1 DEF Create, Nodes
  <2>4. n.previousHash = NoHash
          \/ \E m \in Nodes : m.tenantId = n.tenantId /\ m.digest = n.previousHash
    <3>1. ASSUME NEW p \in rows PROVE Node(p) \in Nodes
      BY DEF Nodes
    <3>2. \A p : Node(p).tenantId = p.tenantId /\ Node(p).digest = p.chainHash
      BY DEF Node
    <3> QED
      BY <2>1, <3>1, <3>2 DEF RowOK, Stays
  <2>5. \A m \in Nodes : m.digest # n.chainHash
    BY <1>1 DEF Create, Unique, Nodes, Node
  <2>6. /\ Node(n).tenantId \in Tenants
        /\ Tree!Parent(Node(n).tenantId, Node(n).parent)
        /\ \A m \in Nodes : m.digest # Node(n).digest
    BY <2>2, <2>4, <2>5 DEF Node, Nodes, Tree!Parent
  <2> QED
    BY <2>3, <2>6 DEF Tree!Append, Nodes, Node
<1>2. ASSUME rows' = rows PROVE Nodes' = Nodes
  BY <1>2 DEF Nodes
<1> QED
  BY <1>1, <1>2 DEF Next, vars, GetLastLog, SendCreate, Fails, Tick

(* Every behaviour of log()'s interleaved steps is a behaviour of HashTree. *)
THEOREM Refinement == Spec => ImplementsHashTree
<1>1. Init => Tree!Init
  BY DEF Init, Tree!Init
<1>2. ParentInv /\ [Next]_vars
        => [Tree!Append]_{[tenantId |-> r.tenantId, parent |-> r.previousHash,
                            digest |-> r.chainHash, at |-> r.createdAt] : r \in rows}
  BY TreeStep DEF Nodes, Node
<1> QED
  BY <1>1, <1>2, ParentInit, ParentStep, PTL DEF Spec, ImplementsHashTree, Tree!Spec

-----------------------------------------------------------------------------
(* The chain of a tenant whose calls do not overlap and whose rows have     *)
(* stamps of their own.  While such a call is in flight the table's newest  *)
(* row of its tenant does not change, so the predecessor it read is still   *)
(* the newest row when its own row arrives, which is then the youngest.     *)

NewestHash(R, t, h) ==
  IF \A r \in R : r.tenantId # t THEN h = NoHash
  ELSE \E p \in R : /\ p.tenantId = t /\ p.chainHash = h
                    /\ \A q \in R : q.tenantId = t => q.createdAt <= p.createdAt

Undisturbed(R, k) ==
  /\ k.step = "read" => NewestHash(R, k.tenantId, k.previousHash)
  /\ k.step = "sent" =>
       /\ NewestHash(R, k.tenantId, k.row.previousHash)
       /\ \A q \in R : q.tenantId = k.tenantId => q.createdAt <= k.row.createdAt

Alone(c) == \A d \in Callers : (calls[d] # Idle /\ calls[d].tenantId = calls[c].tenantId) => d = c

(* r follows the row just before it, or is the first. *)
Follows(R, r) ==
  \/ r.previousHash = NoHash /\ \A q \in R : r.createdAt <= q.createdAt
  \/ \E p \in R : /\ p.createdAt < r.createdAt /\ p.chainHash = r.previousHash
                  /\ \A q \in R : q.createdAt <= p.createdAt \/ r.createdAt <= q.createdAt

Linked(t) == \A r \in RowsOf(t) : Follows(RowsOf(t), r)

SerialInv ==
  /\ ParentInv
  /\ \A c \in Callers : (calls[c] # Idle /\ calls[c].tenantId \notin contended)
                          => Alone(c) /\ Undisturbed(rows, calls[c])
  /\ \A t \in Tenants : Serial(t) => Linked(t)

LEMMA NewestRead ==
  ASSUME NEW t, NEW h \in LastHashes(t)
  PROVE  NewestHash(rows, t, h)
BY DEF LastHashes, Latest, RowsOf, NewestHash

LEMMA SerialInit == Init => SerialInv
BY ParentInit DEF Init, SerialInv, Idle, Linked, RowsOf

LEMMA CreateLinks ==
  ASSUME SerialInv, SerialInv => TypeOK, NEW c \in Callers, Create(c),
         NEW t \in Tenants, Serial(t)'
  PROVE  Linked(t)'
<1> DEFINE n == calls[c].row
           R == RowsOf(t)
<1>1. /\ n \in Row /\ n.tenantId = calls[c].tenantId /\ n \notin rows
      /\ rows' = rows \cup {n}
  BY DEF Create, SerialInv, ParentInv, CallOK, TypeOK, Idle, Reading, Sending, Unique
<1>2. \A r \in rows \cup {n} : r.createdAt \in Nat
  BY <1>1, RowTypes, BoundsAssumption DEF SerialInv, ParentInv, TypeOK
<1>3. Serial(t) /\ Linked(t)
  BY <1>1 DEF Serial, DistinctStamps, RowsOf, Create, SerialInv
<1>4. CASE n.tenantId # t
  BY <1>1, <1>3, <1>4 DEF Linked, RowsOf
<1>5. CASE n.tenantId = t
  <2>1. RowsOf(t)' = R \cup {n}
    BY <1>1, <1>5 DEF RowsOf
  <2>2. NewestHash(rows, t, n.previousHash) /\ \A q \in R : q.createdAt <= n.createdAt
    <3>1. calls[c] # Idle /\ calls[c].step = "sent"
      BY DEF Create, Idle
    <3>2. Undisturbed(rows, calls[c])
      BY <1>1, <1>3, <1>5, <3>1 DEF SerialInv, Serial
    <3> QED
      BY <1>1, <1>5, <3>1, <3>2 DEF Undisturbed, RowsOf
  <2>3. \A q \in R : q.createdAt # n.createdAt
    BY <1>1, <2>1 DEF Serial, DistinctStamps, RowsOf
  <2>4. \A q \in R : q.createdAt < n.createdAt
    BY <1>2, <2>2, <2>3, <1>1 DEF RowsOf
  <2>5. Follows(R \cup {n}, n)
    <3>1. CASE R = {}
      BY <1>1, <1>2, <1>5, <2>2, <3>1 DEF NewestHash, RowsOf, Follows
    <3>2. CASE R # {}
      <4>1. PICK p \in R : p.chainHash = n.previousHash /\ \A q \in R : q.createdAt <= p.createdAt
        BY <2>2, <3>2 DEF NewestHash, RowsOf
      <4> QED
        BY <1>2, <2>4, <4>1 DEF Follows
    <3> QED
      BY <3>1, <3>2
  <2>6. \A r \in R : Follows(R \cup {n}, r)
    BY <1>3, <2>2 DEF Linked, Follows
  <2> QED
    BY <2>1, <2>5, <2>6 DEF Linked
<1> QED
  BY <1>4, <1>5

LEMMA SerialStep == SerialInv /\ [Next]_vars => SerialInv'
<1> SUFFICES ASSUME SerialInv, [Next]_vars PROVE SerialInv'
  OBVIOUS
<1>p. ParentInv /\ ParentInv' /\ TypeOK /\ TypeOK'
  BY ParentStep DEF SerialInv, ParentInv
<1>n. clock \in Nat /\ \A r \in rows : r.createdAt \in Nat /\ r.createdAt <= clock
  BY <1>p, RowTypes, BoundsAssumption DEF TypeOK
<1> DEFINE Quiet(c) == (calls[c] # Idle /\ calls[c].tenantId \notin contended)
                          => Alone(c) /\ Undisturbed(rows, calls[c])
<1>q. \A c \in Callers : Quiet(c)
  BY DEF SerialInv
<1>linked. ASSUME rows' = rows, contended \subseteq contended'
           PROVE  \A t \in Tenants : Serial(t)' => Linked(t)'
  <2>1. \A t : RowsOf(t)' = RowsOf(t)
    BY <1>linked DEF RowsOf
  <2> QED
    BY <1>linked, <2>1 DEF SerialInv, Serial, DistinctStamps, Linked
<1>1. ASSUME NEW c \in Callers, NEW t \in Tenants, NEW e \in Entries, GetLastLog(c, t, e)
      PROVE  SerialInv'
  <2>1. PICK h \in LastHashes(t) : calls' = [calls EXCEPT ![c] =
             [step |-> "read", tenantId |-> t, entry |-> e, previousHash |-> h]]
    BY <1>1 DEF GetLastLog
  <2>2. /\ calls[c] = Idle /\ rows' = rows
        /\ contended' = IF InFlight(t) = {} THEN contended ELSE contended \cup {t}
    BY <1>1 DEF GetLastLog
  <2>3. /\ calls'[c].step = "read" /\ calls'[c].tenantId = t /\ calls'[c].previousHash = h
        /\ \A d \in Callers \ {c} : calls'[d] = calls[d]
    BY <1>p, <2>1 DEF TypeOK
  <2>4. Undisturbed(rows', calls'[c])
    BY <2>2, <2>3, NewestRead DEF Undisturbed
  <2>5. ASSUME NEW d \in Callers, calls'[d] # Idle, calls'[d].tenantId \notin contended'
        PROVE  Alone(d)' /\ Undisturbed(rows', calls'[d])
    <3>1. CASE d = c
      <4>1. InFlight(t) = {}
        BY <2>2, <2>3, <2>5, <3>1
      <4> QED
        BY <2>2, <2>3, <2>4, <3>1, <4>1 DEF Alone, InFlight
    <3>2. CASE d # c
      <4>1. calls[d] # Idle /\ calls[d].tenantId \notin contended /\ calls'[d] = calls[d]
        BY <2>2, <2>3, <2>5, <3>2
      <4>2. calls[d].tenantId # t
        BY <2>2, <2>5, <4>1 DEF InFlight
      <4> QED
        BY <1>q, <2>2, <2>3, <4>1, <4>2 DEF Alone
    <3> QED
      BY <3>1, <3>2
  <2>6. contended \subseteq contended'
    BY <2>2
  <2> QED
    BY <1>p, <1>linked, <2>2, <2>5, <2>6 DEF SerialInv
<1>2. ASSUME NEW c \in Callers, SendCreate(c) PROVE SerialInv'
  <2> DEFINE k == calls[c]
  <2>1. k \in Reading /\ k # Idle
    BY <1>2, <1>p DEF SendCreate, TypeOK, Sending, Idle, Reading
  <2>2. /\ calls'[c].step = "sent" /\ calls'[c].tenantId = k.tenantId /\ calls'[c] # Idle
        /\ calls'[c].row.previousHash = k.previousHash /\ calls'[c].row.createdAt = clock
        /\ \A d \in Callers \ {c} : calls'[d] = calls[d]
        /\ rows' = rows /\ contended' = contended
    BY <1>2, <1>p, <2>1 DEF SendCreate, TypeOK, Reading, Idle
  <2>3. k.tenantId \notin contended => Undisturbed(rows', calls'[c])
    BY <1>2, <1>q, <1>n, <2>1, <2>2 DEF Undisturbed, SendCreate
  <2>4. \A d \in Callers : Alone(d) => Alone(d)'
    BY <2>1, <2>2 DEF Alone
  <2>5. \A d \in Callers : (calls'[d] # Idle /\ calls'[d].tenantId \notin contended')
                             => Alone(d)' /\ Undisturbed(rows', calls'[d])
    BY <1>q, <2>1, <2>2, <2>3, <2>4
  <2> QED
    BY <1>p, <1>linked, <2>2, <2>5 DEF SerialInv
<1>3. ASSUME NEW c \in Callers, Create(c) PROVE SerialInv'
  <2> DEFINE n == calls[c].row
  <2>1. /\ calls[c] # Idle /\ n.tenantId = calls[c].tenantId
        /\ rows' = rows \cup {n} /\ contended' = contended /\ calls'[c] = Idle
        /\ \A d \in Callers \ {c} : calls'[d] = calls[d]
    BY <1>3, <1>p DEF Create, ParentInv, CallOK, TypeOK, Idle
  <2>2. ASSUME NEW d \in Callers, calls'[d] # Idle, calls'[d].tenantId \notin contended'
        PROVE  Alone(d)' /\ Undisturbed(rows', calls'[d])
    <3>1. d # c /\ calls'[d] = calls[d] /\ Alone(d) /\ Undisturbed(rows, calls[d])
      BY <1>q, <2>1, <2>2
    <3>2. n.tenantId # calls[d].tenantId
      BY <2>1, <3>1 DEF Alone
    <3>3. Alone(d)'
      BY <2>1, <3>1 DEF Alone
    <3>4. Undisturbed(rows', calls[d])
      BY <2>1, <3>1, <3>2 DEF Undisturbed, NewestHash
    <3> QED
      BY <3>1, <3>3, <3>4
  <2>3. \A t \in Tenants : Serial(t)' => Linked(t)'
    BY <1>3, <1>p, CreateLinks
  <2> QED
    BY <1>p, <2>2, <2>3 DEF SerialInv
<1>4. ASSUME NEW c \in Callers, Fails(c) PROVE SerialInv'
  <2>1. /\ rows' = rows /\ contended' = contended /\ calls'[c] = Idle
        /\ \A d \in Callers \ {c} : calls'[d] = calls[d]
    BY <1>4, <1>p DEF Fails, TypeOK
  <2>2. \A d \in Callers : Alone(d) => Alone(d)' \/ calls'[d] = Idle
    BY <2>1 DEF Alone
  <2> QED
    BY <1>p, <1>q, <1>linked, <2>1, <2>2 DEF SerialInv
<1>5. CASE Tick \/ UNCHANGED vars
  <2>1. rows' = rows /\ contended' = contended /\ calls' = calls
    BY <1>5 DEF Tick, vars
  <2> QED
    BY <1>p, <1>q, <1>linked, <2>1 DEF SerialInv, Alone
<1> QED
  BY <1>1, <1>2, <1>3, <1>4, <1>5 DEF Next

(* In a linked trail whose stamps differ, two rows with one predecessor are  *)
(* the same row.                                                             *)
LEMMA LinkedNoFork ==
  ASSUME ParentInv, NEW t \in Tenants, Serial(t), Linked(t),
         NEW r \in RowsOf(t), NEW q \in RowsOf(t), r.previousHash = q.previousHash
  PROVE  r = q
<1>1. \A x \in RowsOf(t) : x \in Row /\ x \in rows /\ x.createdAt \in Nat
  BY RowTypes, BoundsAssumption DEF ParentInv, TypeOK, RowsOf
<1>2. \A x \in RowsOf(t) : x.chainHash # NoHash
  <2>1. \A a, b, h : Hash(a, b, h) # NoHash
    <3> SUFFICES ASSUME NEW a, NEW b, NEW h, <<a, b, h>> = <<>> PROVE FALSE
      BY DEF Hash, NoHash
    <3>1. Len(<<a, b, h>>) = 3 /\ Len(<<>>) = 0
      OBVIOUS
    <3> QED
      BY <3>1
  <2> QED
    BY <1>1, <2>1 DEF Row
<1>3. r.createdAt <= q.createdAt /\ q.createdAt <= r.createdAt
  <2>1. CASE r.previousHash = NoHash
    BY <1>2, <2>1 DEF Linked, Follows
  <2>2. CASE r.previousHash # NoHash
    <3>1. PICK p \in RowsOf(t) :
            /\ p.createdAt < r.createdAt /\ p.chainHash = r.previousHash
            /\ \A x \in RowsOf(t) : x.createdAt <= p.createdAt \/ r.createdAt <= x.createdAt
      BY <2>2 DEF Linked, Follows
    <3>2. PICK m \in RowsOf(t) :
            /\ m.createdAt < q.createdAt /\ m.chainHash = q.previousHash
            /\ \A x \in RowsOf(t) : x.createdAt <= m.createdAt \/ q.createdAt <= x.createdAt
      BY <2>2 DEF Linked, Follows
    <3>3. p = m
      BY <1>1, <3>1, <3>2 DEF ParentInv
    <3> QED
      BY <1>1, <3>1, <3>2, <3>3
  <2> QED
    BY <2>1, <2>2
<1> QED
  BY <1>1, <1>3 DEF Serial, DistinctStamps

(* A trail written by calls that never overlapped, with stamps of their own, *)
(* does not fork.                                                            *)
THEOREM NoForkCorrect == Spec => []NoForkWhenSerial
<1>1. SerialInv => NoForkWhenSerial
  BY LinkedNoFork DEF SerialInv, NoForkWhenSerial
<1> QED
  BY <1>1, SerialInit, SerialStep, PTL DEF Spec

(* The order of a linked trail with stamps of its own: each row of any order *)
(* the database may return follows the row before it.                        *)
LEMMA LinkedOrder ==
  ASSUME ParentInv, NEW t \in Tenants, Serial(t), Linked(t),
         NEW s \in Orders(RowsOf(t)), NEW i \in DOMAIN s
  PROVE  s[i].previousHash = Previous(s, i)
<1> DEFINE R == RowsOf(t)
           n == Cardinality(R)
<1>1. n \in Nat
  BY FS_Subset, FS_CardinalityType DEF ParentInv, RowsOf
<1>2. /\ s \in [1..n -> R] /\ DOMAIN s = 1..n
      /\ \A a, b \in 1..n : s[a] = s[b] => a = b
      /\ \A x \in R : \E a \in 1..n : s[a] = x
      /\ \A a, b \in 1..n : a < b => s[a].createdAt <= s[b].createdAt
  BY DEF Orders, Sorted, Bijection, Injection, Surjection, IsInjective
<1>3. \A x \in R : x \in Row /\ x.createdAt \in Nat
  BY RowTypes, BoundsAssumption DEF ParentInv, TypeOK, RowsOf
<1>4. \A a, b \in 1..n : a < b <=> s[a].createdAt < s[b].createdAt
  <2> SUFFICES ASSUME NEW a \in 1..n, NEW b \in 1..n
               PROVE  a < b <=> s[a].createdAt < s[b].createdAt
    OBVIOUS
  <2>1. s[a] \in R /\ s[b] \in R
    BY <1>2
  <2>2. s[a].createdAt = s[b].createdAt => a = b
    BY <1>2, <2>1 DEF Serial, DistinctStamps
  <2> QED
    BY <1>1, <1>2, <1>3, <2>1, <2>2
<1>5. Follows(R, s[i])
  BY <1>2 DEF Linked
<1>6. CASE s[i].previousHash = NoHash /\ \A q \in R : s[i].createdAt <= q.createdAt
  <2>1. i = 1
    <3>1. 1 \in 1..n /\ s[1] \in R /\ i \in 1..n
      BY <1>1, <1>2
    <3> QED
      <4> SUFFICES ASSUME 1 < i PROVE FALSE
        BY <3>1
      <4>1. s[1].createdAt < s[i].createdAt
        BY <1>4, <3>1
      <4>2. s[i].createdAt <= s[1].createdAt
        BY <1>6, <3>1
      <4>3. s[1].createdAt \in Nat /\ s[i].createdAt \in Nat
        BY <1>2, <1>3, <3>1
      <4> QED
        BY <4>1, <4>2, <4>3
  <2> QED
    BY <1>6, <2>1 DEF Previous
<1>7. ASSUME NEW p \in R, p.createdAt < s[i].createdAt, p.chainHash = s[i].previousHash,
             \A q \in R : q.createdAt <= p.createdAt \/ s[i].createdAt <= q.createdAt
      PROVE  s[i].previousHash = Previous(s, i)
  <2>1. PICK j \in 1..n : s[j] = p
    BY <1>2
  <2>2. j < i /\ i \in 1..n
    BY <1>2, <1>4, <1>7, <2>1
  <2>3. i - 1 \in 1..n /\ s[i-1] \in R
    BY <1>1, <1>2, <2>2
  <2>4. s[i-1].createdAt < s[i].createdAt
    BY <1>1, <1>4, <2>2, <2>3
  <2>5. s[i-1].createdAt <= s[j].createdAt
    BY <1>2, <1>3, <1>7, <2>1, <2>3, <2>4
  <2>6. ~(j < i - 1)
    BY <1>2, <1>3, <1>4, <2>1, <2>3, <2>5
  <2>7. j = i - 1 /\ i # 1
    BY <1>1, <2>2, <2>3, <2>6
  <2> QED
    BY <1>7, <2>1, <2>7 DEF Previous
<1> QED
  BY <1>5, <1>6, <1>7 DEF Follows

(* A trail written by calls that never overlapped, with stamps of their own  *)
(* and values that storage returns unchanged, passes verifyChain.            *)
THEOREM SerialCorrect == Spec => []SerialChainVerifies
<1>1. ASSUME SerialInv, NEW t \in Tenants, Serial(t), \A r \in RowsOf(t) : Survives(r),
             NEW s \in Orders(RowsOf(t)), NEW i \in DOMAIN s
      PROVE  ~Broken(s, i)
  <2>1. s[i] \in RowsOf(t)
    BY <1>1 DEF Orders, Bijection, Injection
  <2>2. s[i].previousHash = Previous(s, i)
    BY <1>1, LinkedOrder DEF SerialInv
  <2>3. Hashed(s[i]) /\ Survives(s[i])
    BY <1>1, <2>1 DEF SerialInv, ParentInv, RowOK, RowsOf
  <2>4. s[i].chainHash = Hash(s[i].tenantId, s[i].entry, s[i].previousHash)
    BY <2>3 DEF Hashed, Survives, Hash
  <2> QED
    BY <2>2, <2>4 DEF Broken
<1>2. SerialInv => SerialChainVerifies
  BY <1>1 DEF SerialInv, SerialChainVerifies, Valid
<1> QED
  BY <1>2, SerialInit, SerialStep, PTL DEF Spec

-----------------------------------------------------------------------------
(* Tampering.  verifyChain looks at a row and at the row before it, so it    *)
(* reports the first row whose own contents or whose predecessor changed.    *)

LEMMA HashesDiffer ==
  ASSUME NEW t, NEW a, NEW b, NEW h
  PROVE  Hash(t, a, h) # NoHash /\ (Hash(t, a, h) = Hash(t, b, h) => a = b)
<1>1. Len(<<t, a, h>>) = 3 /\ Len(<<>>) = 0
  OBVIOUS
<1> QED
  BY <1>1 DEF Hash, NoHash

(* A trail that agrees with a valid one before i is reported at i, or not at *)
(* all before it.                                                            *)
LEMMA FirstBroken ==
  ASSUME NEW n \in Nat, NEW m \in Nat, NEW s, NEW z, NEW i \in 1..m,
         DOMAIN s = 1..n, DOMAIN z = 1..m, m <= n, Valid(s),
         \A j \in 1..m : j < i => z[j] = s[j],
         Broken(z, i)
  PROVE  BrokenAt(z, i)
<1>1. ASSUME NEW j \in 1..m, j < i PROVE ~Broken(z, j)
  <2>1. j \in 1..n /\ z[j] = s[j] /\ ~Broken(s, j)
    BY <1>1 DEF Valid
  <2>2. Previous(z, j) = Previous(s, j)
    <3>1. CASE j = 1
      BY <3>1 DEF Previous
    <3>2. CASE j # 1
      <4>1. j - 1 \in 1..m /\ j - 1 < i
        BY <1>1, <3>2
      <4> QED
        BY <3>2, <4>1 DEF Previous
    <3> QED
      BY <3>1, <3>2
  <2> QED
    BY <2>1, <2>2 DEF Broken
<1> QED
  BY <1>1 DEF BrokenAt

(* A stored trail that verifies, in the order the database returned it: no   *)
(* chain hash occurs twice.                                                  *)
LEMMA ValidTrail ==
  ASSUME ParentInv, NEW t \in Tenants, NEW s \in Orders(RowsOf(t)), Valid(s)
  PROVE  \E n \in Nat :
           /\ DOMAIN s = 1..n /\ Len(s) = n /\ s = [k \in 1..n |-> s[k]]
           /\ \A k \in 1..n :
                /\ s[k] \in Row
                /\ s[k] = [tenantId |-> s[k].tenantId, entry |-> s[k].entry,
                           previousHash |-> s[k].previousHash,
                           createdAt |-> s[k].createdAt, chainHash |-> s[k].chainHash]
                /\ s[k].chainHash # NoHash
                /\ s[k].chainHash = Hash(s[k].tenantId, s[k].entry, Previous(s, k))
                /\ Previous(s, k) # NoHash => s[k].previousHash = Previous(s, k)
           /\ \A j, k \in 1..n : s[j].chainHash = s[k].chainHash => j = k
<1> DEFINE n == Cardinality(RowsOf(t))
<1>1. n \in Nat
  BY FS_Subset, FS_CardinalityType DEF ParentInv, RowsOf
<1>2. s \in [1..n -> RowsOf(t)] /\ \A a, b \in 1..n : s[a] = s[b] => a = b
  BY DEF Orders, Bijection, Injection, IsInjective
<1>3. DOMAIN s = 1..n /\ Len(s) = n /\ s = [k \in 1..n |-> s[k]]
  BY <1>1, <1>2
<1>4. \A k \in 1..n : s[k] \in Row /\ s[k] \in rows
  BY <1>2 DEF ParentInv, TypeOK, RowsOf
<1>5. ASSUME NEW j \in 1..n, NEW k \in 1..n, s[j].chainHash = s[k].chainHash PROVE j = k
  BY <1>2, <1>4, <1>5 DEF ParentInv
<1>6. ASSUME NEW k \in 1..n
      PROVE  /\ s[k].chainHash = Hash(s[k].tenantId, s[k].entry, Previous(s, k))
             /\ Previous(s, k) # NoHash => s[k].previousHash = Previous(s, k)
  BY <1>3, <1>6 DEF Valid, Broken
<1>7. \A k \in 1..n : s[k].chainHash # NoHash
  BY <1>6, HashesDiffer
<1>8. \A k \in 1..n : s[k] = [tenantId |-> s[k].tenantId, entry |-> s[k].entry,
                             previousHash |-> s[k].previousHash,
                             createdAt |-> s[k].createdAt, chainHash |-> s[k].chainHash]
  BY <1>4 DEF Row
<1> QED
  BY <1>1, <1>3, <1>4, <1>5, <1>6, <1>7, <1>8

(* verifyChain reports a row that was changed, or the row after one that is  *)
(* missing, at its place.                                                    *)
THEOREM TamperCorrect == Spec => []TamperLocated
<1>1. ASSUME ParentInv, NEW t \in Tenants, NEW s \in Orders(RowsOf(t)), Valid(s),
             NEW i \in DOMAIN s
      PROVE  /\ \A e \in Entries \ {s[i].entry} : BrokenAt([s EXCEPT ![i].entry = e], i)
             /\ i > 1 => \A h \in Digests \ {s[i].previousHash} :
                           BrokenAt([s EXCEPT ![i].previousHash = h], i)
             /\ i < Len(s) =>
                  BrokenAt([j \in 1..Len(s)-1 |-> IF j < i THEN s[j] ELSE s[j+1]], i)
  <2>1. PICK n \in Nat :
          /\ DOMAIN s = 1..n /\ Len(s) = n /\ s = [k \in 1..n |-> s[k]]
          /\ \A k \in 1..n :
               /\ s[k] \in Row
               /\ s[k] = [tenantId |-> s[k].tenantId, entry |-> s[k].entry,
                          previousHash |-> s[k].previousHash,
                          createdAt |-> s[k].createdAt, chainHash |-> s[k].chainHash]
               /\ s[k].chainHash # NoHash
               /\ s[k].chainHash = Hash(s[k].tenantId, s[k].entry, Previous(s, k))
               /\ Previous(s, k) # NoHash => s[k].previousHash = Previous(s, k)
          /\ \A j, k \in 1..n : s[j].chainHash = s[k].chainHash => j = k
    BY <1>1, ValidTrail
  <2>2. i \in 1..n /\ (i > 1 => i - 1 \in 1..n) /\ (i < n => i + 1 \in 1..n)
    BY <1>1, <2>1
  <2>3. ASSUME NEW e \in Entries \ {s[i].entry}
        PROVE  BrokenAt([s EXCEPT ![i].entry = e], i)
    <3> DEFINE z == [s EXCEPT ![i].entry = e]
    <3>1. /\ DOMAIN z = 1..n /\ \A j \in 1..n : j < i => z[j] = s[j]
          /\ z[i].tenantId = s[i].tenantId /\ z[i].chainHash = s[i].chainHash /\ z[i].entry = e
      BY <2>1, <2>2
    <3>2. Previous(z, i) = Previous(s, i)
      BY <2>2, <3>1 DEF Previous
    <3>3. z[i].chainHash # Hash(z[i].tenantId, z[i].entry, Previous(z, i))
      BY <2>1, <2>2, <2>3, <3>1, <3>2, HashesDiffer
    <3>4. Broken(z, i)
      BY <3>3 DEF Broken
    <3>5. BrokenAt(z, i)
      <4> HIDE DEF z
      <4> QED
        BY <1>1, <2>1, <2>2, <3>1, <3>4, FirstBroken
    <3> QED
      BY <3>5
  <2>4. ASSUME i > 1, NEW h \in Digests \ {s[i].previousHash}
        PROVE  BrokenAt([s EXCEPT ![i].previousHash = h], i)
    <3> DEFINE z == [s EXCEPT ![i].previousHash = h]
    <3>1. /\ DOMAIN z = 1..n /\ \A j \in 1..n : j < i => z[j] = s[j]
          /\ z[i].previousHash = h
      BY <2>1, <2>2
    <3>2. Previous(z, i) = Previous(s, i) /\ Previous(s, i) # NoHash
      BY <2>1, <2>2, <2>4, <3>1 DEF Previous
    <3>3. z[i].previousHash # Previous(z, i)
      BY <2>1, <2>2, <2>4, <3>1, <3>2
    <3>4. Broken(z, i)
      BY <3>2, <3>3 DEF Broken
    <3>5. BrokenAt(z, i)
      <4> HIDE DEF z
      <4> QED
        BY <1>1, <2>1, <2>2, <3>1, <3>4, FirstBroken
    <3> QED
      BY <3>5
  <2>5. ASSUME i < Len(s)
        PROVE  BrokenAt([j \in 1..Len(s)-1 |-> IF j < i THEN s[j] ELSE s[j+1]], i)
    <3> DEFINE z == [j \in 1..Len(s)-1 |-> IF j < i THEN s[j] ELSE s[j+1]]
    <3>1. /\ n - 1 \in Nat /\ i \in 1..(n-1) /\ n - 1 <= n /\ i < n /\ i + 1 \in 1..n
          /\ DOMAIN z = 1..(n-1) /\ \A j \in 1..(n-1) : j < i => z[j] = s[j]
          /\ z[i] = s[i+1]
      BY <2>1, <2>2, <2>5
    <3>2. Previous(s, i+1) = s[i].chainHash
      BY <2>2, <3>1 DEF Previous
    <3>3. Previous(z, i) # Previous(s, i+1)
      <4>1. CASE i = 1
        BY <2>1, <2>2, <3>2, <4>1 DEF Previous
      <4>2. CASE i # 1
        <5>1. i - 1 \in 1..(n-1) /\ i - 1 \in 1..n /\ z[i-1] = s[i-1] /\ i - 1 # i
          BY <2>2, <3>1, <4>2
        <5>2. Previous(z, i) = s[i-1].chainHash
          BY <4>2, <5>1 DEF Previous
        <5> QED
          BY <2>1, <2>2, <3>2, <5>1, <5>2
      <4> QED
        BY <4>1, <4>2
    <3>4. z[i].chainHash # Hash(z[i].tenantId, z[i].entry, Previous(z, i))
      <4>1. s[i+1].chainHash = Hash(s[i+1].tenantId, s[i+1].entry, Previous(s, i+1))
        BY <2>1, <3>1
      <4> QED
        BY <3>1, <3>3, <4>1 DEF Hash
    <3>5. Broken(z, i)
      BY <3>4 DEF Broken
    <3>6. BrokenAt(z, i)
      <4> HIDE DEF z
      <4> QED
        BY <1>1, <2>1, <3>1, <3>5, FirstBroken
    <3> QED
      BY <3>6
  <2> QED
    BY <2>3, <2>4, <2>5
<1>2. ParentInv => TamperLocated
  BY <1>1 DEF TamperLocated
<1> QED
  BY <1>2, ParentInit, ParentStep, PTL DEF Spec

-----------------------------------------------------------------------------
(* Paging.  A listing holds each matching row once and, where stamps differ,  *)
(* strictly descends.  So the rows of the first page are younger than the row  *)
(* its cursor names, the other rows are not, and a row inserted later changes  *)
(* neither: it only moves the cursor's place.                                  *)

Bounded == IsFiniteSet(rows) /\ Cardinality(rows) <= MaxRows

PagesInv == TypeOK /\ Bounded

LEMMA PagesInit == Init => PagesInv
BY TypeInit, FS_EmptySet, BoundsAssumption DEF Init, PagesInv, Bounded

LEMMA PagesStep == PagesInv /\ [Next]_vars => PagesInv'
<1> SUFFICES ASSUME PagesInv, [Next]_vars PROVE PagesInv'
  OBVIOUS
<1>1. TypeOK'
  BY TypeStep DEF PagesInv
<1>2. ASSUME NEW c \in Callers, Create(c) PROVE Bounded'
  <2>1. rows' = rows \cup {calls[c].row} /\ Cardinality(rows) < MaxRows
    BY <1>2 DEF Create
  <2>2. /\ IsFiniteSet(rows') /\ Cardinality(rows) \in Nat
        /\ Cardinality(rows') = Cardinality(rows)
             \/ Cardinality(rows') = Cardinality(rows) + 1
    BY <2>1, FS_AddElement, FS_CardinalityType DEF PagesInv, Bounded
  <2> QED
    BY <2>1, <2>2, BoundsAssumption DEF Bounded
<1>3. ASSUME rows' = rows PROVE Bounded'
  BY <1>3 DEF PagesInv, Bounded
<1> QED
  BY <1>1, <1>2, <1>3 DEF PagesInv, Next, vars, GetLastLog, SendCreate, Fails, Tick

(* A listing is a sequence of the matching rows, each of them once. *)
LEMMA ListingRows ==
  ASSUME NEW R, IsFiniteSet(R), NEW f, NEW s \in Listings(f, R)
  PROVE  /\ s \in Seq(Matching(f, R)) /\ Len(s) \in Nat /\ Len(s) <= Cardinality(R)
         /\ \A i \in 1..Len(s) : s[i] \in Matching(f, R)
         /\ \A r \in Matching(f, R) : \E i \in 1..Len(s) : s[i] = r
         /\ \A i, j \in 1..Len(s) : s[i] = s[j] => i = j
         /\ \A i, j \in 1..Len(s) : i < j => s[i].createdAt >= s[j].createdAt
<1> DEFINE M == Matching(f, R)
           n == Cardinality(M)
<1>1. M \subseteq R
  BY DEF Matching
<1>2. n \in Nat /\ n <= Cardinality(R)
  BY <1>1, FS_Subset, FS_CardinalityType
<1>3. /\ s \in [1..n -> M] /\ DOMAIN s = 1..n
      /\ \A a, b \in 1..n : s[a] = s[b] => a = b
      /\ \A x \in M : \E a \in 1..n : s[a] = x
      /\ \A a, b \in 1..n : a < b => s[a].createdAt >= s[b].createdAt
  BY DEF Listings, SortedDescending, Bijection, Injection, Surjection, IsInjective
<1>4. s \in Seq(M) /\ Len(s) = n
  BY <1>2, <1>3, SeqDef
<1> QED
  BY <1>2, <1>3, <1>4

(* The first page, if it is not the only one. *)
LEMMA FirstPage ==
  ASSUME NEW S, NEW s \in Seq(S), NEW limit \in Nat, limit >= 1,
         Page(s, NoCursor, limit).nextCursor # NoCursor
  PROVE  /\ limit + 1 \in 1..Len(s)
         /\ Page(s, NoCursor, limit).nextCursor = {s[limit + 1]}
         /\ \A r : r \in Range(Page(s, NoCursor, limit).data) <=> \E i \in 1..limit : s[i] = r
<1> DEFINE end  == IF 1 + (limit + 1) - 1 <= Len(s) THEN 1 + (limit + 1) - 1 ELSE Len(s)
           read == Read(s, NoCursor, limit + 1)
           data == SubSeq(read, 1, limit)
<1>1. Len(s) \in Nat /\ \A i \in 1..Len(s) : s[i] \in S
  BY LenProperties
<1>2. read = SubSeq(s, 1, end) /\ end \in Nat /\ end <= Len(s) /\ end <= limit + 1
  BY <1>1 DEF Read
<1> HIDE DEF end, read
<1>3. read \in Seq(S) /\ Len(read) = end /\ \A i \in 1..end : read[i] = s[i]
  BY <1>1, <1>2, SubSeqProperties
<1>4. /\ Len(read) > limit
      /\ Page(s, NoCursor, limit) = [data |-> data, nextCursor |-> {read[limit + 1]}]
  BY DEF Page, read
<1>5. end = limit + 1 /\ limit + 1 \in 1..Len(s) /\ read[limit + 1] = s[limit + 1]
  BY <1>1, <1>2, <1>3, <1>4
<1>6. data \in Seq(S) /\ Len(data) = limit /\ \A i \in 1..limit : data[i] = s[i]
  BY <1>1, <1>3, <1>5, SubSeqProperties
<1>7. Range(data) = {data[i] : i \in 1..limit}
  BY <1>6, RangeEquality
<1>8. /\ Page(s, NoCursor, limit).nextCursor = {s[limit + 1]}
      /\ Page(s, NoCursor, limit).data = data
  BY <1>4, <1>5
<1>9. \A r : r \in Range(data) <=> \E i \in 1..limit : s[i] = r
  BY <1>6, <1>7
<1> QED
  BY <1>5, <1>8, <1>9

(* The rest, read from the cursor on without a limit. *)
LEMMA RestOfPages ==
  ASSUME NEW S, NEW s \in Seq(S), NEW limit \in Nat, Len(s) <= limit,
         NEW k \in 1..Len(s), \A i \in 1..Len(s) : s[i] = s[k] => i = k
  PROVE  \A r : r \in Range(Page(s, {s[k]}, limit).data) <=> \E i \in k..Len(s) : s[i] = r
<1> DEFINE start == CHOOSE i \in DOMAIN s : s[i] \in {s[k]}
           read  == Read(s, {s[k]}, limit + 1)
<1>1. Len(s) \in Nat /\ DOMAIN s = 1..Len(s) /\ \A i \in 1..Len(s) : s[i] \in S
  BY LenProperties
<1>2. start = k
  BY <1>1
<1>3. ~(k + (limit + 1) - 1 <= Len(s))
  BY <1>1
<1>4. read = SubSeq(s, k, Len(s))
  BY <1>2, <1>3 DEF Read, NoCursor
<1> HIDE DEF start, read
<1>5. /\ read \in Seq(S) /\ Len(read) = Len(s) - k + 1
      /\ \A i \in 1..Len(s) - k + 1 : read[i] = s[k + i - 1]
  BY <1>1, <1>4, SubSeqProperties
<1>6. Page(s, {s[k]}, limit).data = read
  BY <1>1, <1>5 DEF Page, read
<1>7. Range(read) = {read[i] : i \in 1..Len(s) - k + 1}
  BY <1>5, RangeEquality
<1>8. ASSUME NEW i \in k..Len(s) PROVE s[i] \in Range(read)
  <2>1. i - k + 1 \in 1..Len(s) - k + 1 /\ k + (i - k + 1) - 1 = i
    BY <1>1
  <2>2. read[i - k + 1] = s[i]
    BY <1>5, <2>1
  <2> QED
    BY <1>7, <2>1, <2>2
<1>9. ASSUME NEW i \in 1..Len(s) - k + 1 PROVE \E j \in k..Len(s) : s[j] = read[i]
  <2>1. k + i - 1 \in k..Len(s)
    BY <1>1
  <2> QED
    BY <1>5, <2>1
<1>10. ASSUME NEW r PROVE r \in Range(read) <=> \E i \in k..Len(s) : s[i] = r
  <2>1. r \in Range(read) => \E i \in k..Len(s) : s[i] = r
    BY <1>7, <1>9
  <2>2. ASSUME NEW i \in k..Len(s), s[i] = r PROVE r \in Range(read)
    BY <1>8, <2>2
  <2> QED
    BY <2>1, <2>2
<1> QED
  BY <1>6, <1>10

LEMMA PagesMeet ==
  ASSUME PagesInv, PagesInv', rows \subseteq rows',
         \A r, q \in rows' : r.createdAt = q.createdAt => r = q,
         NEW f, NEW limit \in 1..MaxRows,
         NEW s \in Listings(f, rows), NEW n \in Listings(f, rows'),
         Page(s, NoCursor, limit).nextCursor # NoCursor
  PROVE  LET first == Page(s, NoCursor, limit)
             rest  == Page(n, first.nextCursor, MaxRows)
         IN  /\ Matching(f, rows) \subseteq Range(first.data) \cup Range(rest.data)
             /\ Range(first.data) \cap Range(rest.data) = {}
<1> DEFINE M     == Matching(f, rows)
           N     == Matching(f, rows')
           first == Page(s, NoCursor, limit)
           rest  == Page(n, first.nextCursor, MaxRows)
           x     == s[limit + 1]
<1>1. M \subseteq N /\ N \subseteq rows'
  BY DEF Matching
<1>2. \A r \in N : r.createdAt \in Nat
  BY <1>1, BoundsAssumption DEF PagesInv, TypeOK, Row
<1>3. /\ s \in Seq(M) /\ Len(s) \in Nat
      /\ \A i \in 1..Len(s) : s[i] \in M
      /\ \A r \in M : \E i \in 1..Len(s) : s[i] = r
      /\ \A i, j \in 1..Len(s) : s[i] = s[j] => i = j
      /\ \A i, j \in 1..Len(s) : i < j => s[i].createdAt >= s[j].createdAt
  <2>1. IsFiniteSet(rows) /\ Cardinality(rows) \in Nat
    BY FS_CardinalityType DEF PagesInv, Bounded
  <2> QED
    BY <2>1, ListingRows
<1>4. /\ n \in Seq(N) /\ Len(n) \in Nat /\ Len(n) <= MaxRows
      /\ \A i \in 1..Len(n) : n[i] \in N
      /\ \A r \in N : \E i \in 1..Len(n) : n[i] = r
      /\ \A i, j \in 1..Len(n) : n[i] = n[j] => i = j
      /\ \A i, j \in 1..Len(n) : i < j => n[i].createdAt >= n[j].createdAt
  <2>1. IsFiniteSet(rows') /\ Cardinality(rows') \in Nat /\ Cardinality(rows') <= MaxRows
    BY FS_CardinalityType DEF PagesInv, Bounded
  <2>2. Len(n) \in Nat /\ Len(n) <= Cardinality(rows')
    BY <2>1, ListingRows
  <2>3. Len(n) <= MaxRows
    <3>1. MaxRows \in Nat
      BY BoundsAssumption
    <3> HIDE DEF M, N, first, rest, x
    <3> QED
      BY <2>1, <2>2, <3>1
  <2>4. /\ n \in Seq(N)
        /\ \A i \in 1..Len(n) : n[i] \in N
        /\ \A r \in N : \E i \in 1..Len(n) : n[i] = r
        /\ \A i, j \in 1..Len(n) : n[i] = n[j] => i = j
        /\ \A i, j \in 1..Len(n) : i < j => n[i].createdAt >= n[j].createdAt
    BY <2>1, ListingRows
  <2> QED
    BY <2>2, <2>3, <2>4
<1>5. limit \in Nat /\ limit >= 1 /\ MaxRows \in Nat
  BY BoundsAssumption
<1>6. /\ limit + 1 \in 1..Len(s) /\ first.nextCursor = {x}
      /\ \A r : r \in Range(first.data) <=> \E i \in 1..limit : s[i] = r
  <2>1. s \in Seq(M)
    BY <1>3
  <2> HIDE DEF M
  <2> QED
    BY <1>5, <2>1, FirstPage
<1>7. PICK k \in 1..Len(n) : n[k] = x
  BY <1>1, <1>3, <1>4, <1>6
<1>8. \A r : r \in Range(rest.data) <=> \E i \in k..Len(n) : n[i] = r
  <2>1. /\ n \in Seq(N) /\ Len(n) <= MaxRows
        /\ \A i \in 1..Len(n) : n[i] = n[k] => i = k
    BY <1>4
  <2>2. rest = Page(n, {n[k]}, MaxRows)
    BY <1>6, <1>7
  <2>3. \A r : r \in Range(Page(n, {n[k]}, MaxRows).data) <=> \E i \in k..Len(n) : n[i] = r
    <3> HIDE DEF N, rest
    <3> QED
      BY <1>5, <2>1, RestOfPages
  <2> QED
    BY <2>2, <2>3
<1> HIDE DEF M, N, first, rest, x
<1>9. \A r, q \in N : r.createdAt = q.createdAt => r = q
  BY <1>1
<1>10. /\ x \in M /\ x \in N
       /\ \A i \in 1..limit : /\ i \in 1..Len(s) /\ s[i] # x
                               /\ s[i].createdAt >= x.createdAt
  <2>1. x \in M /\ x \in N
    BY <1>1, <1>3, <1>6 DEF x
  <2>2. ASSUME NEW i \in 1..limit PROVE i \in 1..Len(s) /\ i < limit + 1
    BY <1>3, <1>5, <1>6
  <2>3. ASSUME NEW i \in 1..limit PROVE s[i] # x
    <3>1. i # limit + 1
      BY <1>5, <2>2
    <3> QED
      BY <1>3, <1>6, <2>2, <3>1 DEF x
  <2>4. ASSUME NEW i \in 1..limit PROVE s[i].createdAt >= x.createdAt
    BY <1>3, <1>6, <2>2 DEF x
  <2> QED
    BY <2>1, <2>2, <2>3, <2>4
<1>11. ASSUME NEW r \in M PROVE r \in Range(first.data) \cup Range(rest.data)
  <2>1. PICK i \in 1..Len(s) : s[i] = r
    BY <1>3
  <2>2. CASE i <= limit
    BY <1>5, <1>6, <2>1, <2>2
  <2>3. CASE i > limit
    <3>1. x.createdAt >= r.createdAt /\ r \in N
      <4>1. CASE i = limit + 1
        BY <1>1, <1>2, <1>10, <2>1, <4>1 DEF x
      <4>2. CASE i > limit + 1
        BY <1>1, <1>3, <1>6, <2>1, <4>2 DEF x
      <4> QED
        BY <1>5, <2>3, <4>1, <4>2
    <3>2. PICK j \in 1..Len(n) : n[j] = r
      BY <1>4, <3>1
    <3>3. ~(j < k)
      <4> SUFFICES ASSUME j < k PROVE FALSE
        OBVIOUS
      <4>1. r.createdAt >= x.createdAt
        BY <1>4, <1>7, <3>2
      <4>2. r = x
        <5>1. r.createdAt \in Nat /\ x.createdAt \in Nat
          BY <1>2, <1>10, <3>1
        <5>2. r.createdAt = x.createdAt
          BY <3>1, <4>1, <5>1
        <5> QED
          BY <1>9, <1>10, <3>1, <5>2
      <4>3. j = k
        BY <1>4, <1>7, <3>2, <4>2
      <4> QED
        BY <1>4, <4>3
    <3> QED
      BY <1>8, <3>2, <3>3
  <2> QED
    BY <1>5, <2>2, <2>3
<1>12. ASSUME NEW r \in Range(first.data), r \in Range(rest.data) PROVE FALSE
  <2>1. PICK i \in 1..limit : s[i] = r
    BY <1>6
  <2>2. PICK j \in k..Len(n) : n[j] = r
    BY <1>8, <1>12
  <2>3. r # x /\ r.createdAt >= x.createdAt
    BY <1>10, <2>1
  <2>4. j \in 1..Len(n) /\ k < j /\ r \in N
    <3>1. j \in 1..Len(n) /\ k <= j /\ k \in Nat /\ j \in Nat
      BY <1>4, <1>7, <2>2
    <3>2. j # k
      BY <1>7, <2>2, <2>3
    <3>3. k < j
      BY <3>1, <3>2
    <3> QED
      BY <1>4, <2>2, <3>1, <3>3
  <2>5. x.createdAt >= r.createdAt
    <3>1. n[k].createdAt >= n[j].createdAt
      BY <1>4, <1>7, <2>4
    <3> QED
      BY <1>7, <2>2, <3>1
  <2> QED
    BY <1>2, <1>9, <1>10, <2>3, <2>4, <2>5
<1> QED
  BY <1>11, <1>12 DEF M, first, rest

(* Two pages read one after the other miss no row that was there before and   *)
(* show none twice, whatever is inserted between them.                        *)
THEOREM PagesCorrect == Spec => PagesSurviveInsert
<1>1. ASSUME PagesInv, PagesInv', [Next]_vars
      PROVE  \/ (\A r, q \in rows' : r.createdAt = q.createdAt => r = q) =>
                  \A f \in Filter, limit \in 1..MaxRows :
                    \A s \in Listings(f, rows), n \in Listings(f, rows') :
                      LET first == Page(s, NoCursor, limit)
                          rest  == Page(n, first.nextCursor, MaxRows)
                      IN  first.nextCursor # NoCursor =>
                            /\ Matching(f, rows) \subseteq Range(first.data) \cup Range(rest.data)
                            /\ Range(first.data) \cap Range(rest.data) = {}
             \/ UNCHANGED rows
  <2>1. rows \subseteq rows'
    BY <1>1, Grows DEF PagesInv
  <2> QED
    BY <1>1, <2>1, PagesMeet
<1> QED
  BY <1>1, PagesInit, PagesStep, PTL DEF Spec, PagesSurviveInsert
=============================================================================
