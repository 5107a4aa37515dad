------------------------- MODULE RateLimiter_proof --------------------------
(***************************************************************************)
(* Theorems about RateLimiter.  Everything rests on one invariant: every   *)
(* script on the wire belongs to a request that made this very check with  *)
(* this very stamp, and a request that has not reached its burst check has *)
(* no stamp for it yet, so the stamps of a request never change.  For the  *)
(* order of the stamps, it is joined by the order of the scripts.          *)
(***************************************************************************)
EXTENDS RateLimiter, FiniteSetTheorems, TLAPS

Command == [request : Requests, set : Sets, now : 0..clock]

WireOK == \A i \in DOMAIN wire :
            /\ CheckedAt(wire[i].request, wire[i].set)
            /\ StampOf(wire[i].request, wire[i].set) = wire[i].now

BurstLater == \A q \in Requests :
                requests[q].step \in {"global", "checked"} => requests[q].burst = None

StampInv == TypeOK /\ WireOK /\ BurstLater /\ OwnStamps

-----------------------------------------------------------------------------
(* The sets of a key, and what the script makes of one.                    *)

LEMMA SetsOfKey ==
  ASSUME NEW k \in ApiKeys
  PROVE  GlobalSet(TenantOf[k]) \in Sets /\ BurstSet(k) \in Sets
BY LimiterAssumption DEF Sets

(* The global and the burst set of a key differ by their tier. *)
LEMMA Tiers ==
  /\ \A t : GlobalSet(t).tier = "global"
  /\ \A k : BurstSet(k).tier = "burst"
BY DEF GlobalSet, BurstSet

(* The script keeps some of the stamps and adds at most its own. *)
LEMMA RecordedStamps ==
  ASSUME NEW s \in Sets, NEW now
  PROVE  Recorded(s, now) \subseteq stamps[s] \cup {now}
BY DEF Recorded, Kept

(* A request that has made a check was made. *)
LEMMA IsMade ==
  ASSUME TypeOK, NEW q \in Requests, requests[q] # NotMade
  PROVE  requests[q] \in Made
BY DEF TypeOK

-----------------------------------------------------------------------------
(* Steps that leave the requests' stamps alone.                            *)

(* If no request loses its key or a stamp, every check that was made stays    *)
(* made, with its stamp.                                                      *)
Keeps(q) ==
  requests[q] # NotMade =>
    /\ requests'[q] # NotMade
    /\ requests'[q].key = requests[q].key
    /\ requests'[q].global = requests[q].global
    /\ requests[q].burst # None => requests'[q].burst = requests[q].burst

LEMMA ChecksStay ==
  ASSUME \A q \in Requests : Keeps(q)
  PROVE  \A q \in Requests : \A s \in Sets :
           CheckedAt(q, s) => /\ CheckedAt(q, s)'
                              /\ StampOf(q, s)' = StampOf(q, s)
<1> TAKE q \in Requests
<1> TAKE s \in Sets
<1> HAVE CheckedAt(q, s)
<1>1. Keeps(q)
  OBVIOUS
<1>2. CASE s = GlobalSet(TenantOf[requests[q].key])
  BY <1>1, <1>2, Tiers DEF CheckedAt, StampOf, Keeps
<1>3. CASE s = BurstSet(requests[q].key) /\ requests[q].burst # None
  BY <1>1, <1>3, Tiers DEF CheckedAt, StampOf, Keeps
<1> QED
  BY <1>2, <1>3 DEF CheckedAt

(* The types of a script stay right as time goes on. *)
LEMMA CommandsStay ==
  ASSUME TypeOK, clock' \in Nat, clock <= clock'
  PROVE  wire \in Seq(Command')
<1>1. Command \subseteq Command'
  BY DEF Command, TypeOK, Sets, GlobalSet, BurstSet
<1>2. wire \in Seq(Command)
  BY DEF TypeOK, Command
<1> QED
  BY <1>1, <1>2

-----------------------------------------------------------------------------
(* Every step preserves the invariant.                                     *)

LEMMA StampInit == Init => StampInv
<1> SUFFICES ASSUME Init PROVE StampInv
  OBVIOUS
<1>1. TypeOK
  <2>1. clock \in 0..MaxClock
    BY LimiterAssumption DEF Init
  <2>0. stamps \in [Sets -> SUBSET (0..clock)] /\ resent = FALSE
    BY DEF Init
  <2>2. wire \in Seq(Command) /\ evaluated \in 0..Len(wire)
    BY DEF Init
  <2>3. requests \in [Requests -> {NotMade} \cup Made]
    BY DEF Init
  <2> QED
    BY <2>0, <2>1, <2>2, <2>3 DEF TypeOK, Command
<1>2. WireOK
  BY DEF Init, WireOK
<1>3. BurstLater /\ OwnStamps
  BY DEF Init, BurstLater, OwnStamps, NotMade
<1> QED
  BY <1>1, <1>2, <1>3 DEF StampInv

(* Sending a script keeps the invariant if the request has noted its stamp. *)
LEMMA Sends ==
  ASSUME StampInv, NEW q \in Requests, NEW s \in Sets, Send(q, s, clock),
         UNCHANGED <<clock, stamps, evaluated, resent>>,
         requests' \in [Requests -> {NotMade} \cup Made],
         \A p \in Requests : Keeps(p),
         CheckedAt(q, s)', StampOf(q, s)' = clock
  PROVE  TypeOK' /\ WireOK' /\ OwnStamps'
<1> DEFINE c == [request |-> q, set |-> s, now |-> clock]
<1>1. c \in Command /\ wire \in Seq(Command) /\ wire' = Append(wire, c)
  BY DEF StampInv, TypeOK, Command, Send
<1>2. TypeOK'
  <2>1. wire' \in Seq(Command) /\ evaluated' \in 0..Len(wire')
    BY <1>1 DEF StampInv, TypeOK
  <2>2. Command' = Command
    BY DEF Command, Sets, GlobalSet, BurstSet
  <2> QED
    BY <2>1, <2>2 DEF StampInv, TypeOK, Command
<1>3. WireOK'
  <2> SUFFICES ASSUME NEW i \in DOMAIN wire'
               PROVE  /\ CheckedAt(wire[i].request, wire[i].set)'
                      /\ (StampOf(wire[i].request, wire[i].set) = wire[i].now)'
    BY DEF WireOK
  <2>1. CASE i = Len(wire) + 1
    <3>1. wire'[i] = c
      BY <1>1, <2>1
    <3> QED
      BY <3>1 DEF CheckedAt, StampOf
  <2>2. CASE i # Len(wire) + 1
    <3>1. i \in DOMAIN wire /\ wire'[i] = wire[i] /\ wire[i] \in Command
      BY <1>1, <2>2
    <3>2. CheckedAt(wire[i].request, wire[i].set)
            /\ StampOf(wire[i].request, wire[i].set) = wire[i].now
      BY <3>1 DEF StampInv, WireOK
    <3> QED
      BY <3>1, <3>2, ChecksStay DEF CheckedAt, StampOf, Command
  <2> QED
    BY <2>1, <2>2
<1>4. OwnStamps'
  BY ChecksStay DEF StampInv, OwnStamps, Sets, GlobalSet, BurstSet
<1> QED
  BY <1>2, <1>3, <1>4

LEMMA StampStep == StampInv /\ [Next]_vars => StampInv'
<1> SUFFICES ASSUME StampInv, [Next]_vars PROVE StampInv'
  OBVIOUS
<1> USE DEF StampInv
<1>1. ASSUME NEW q \in Requests, NEW k \in ApiKeys, Arrive(q, k) PROVE StampInv'
  <2>1. requests' \in [Requests -> {NotMade} \cup Made]
    BY <1>1 DEF Arrive, TypeOK, Made
  <2>2. \A p \in Requests : Keeps(p)
    BY <1>1 DEF Arrive, Keeps, TypeOK
  <2>3. CheckedAt(q, GlobalSet(TenantOf[k]))'
          /\ StampOf(q, GlobalSet(TenantOf[k]))' = clock
    BY <1>1, Tiers DEF Arrive, CheckedAt, StampOf, NotMade, TypeOK
  <2>4. BurstLater'
    BY <1>1 DEF Arrive, BurstLater, TypeOK
  <2> QED
    BY <1>1, <2>1, <2>2, <2>3, <2>4, SetsOfKey, Sends DEF Arrive
<1>2. ASSUME NEW q \in Requests, SendBurst(q) PROVE StampInv'
  <2> DEFINE k == requests[q].key
  <2>1. requests[q] \in Made /\ requests[q].burst = None
    BY <1>2 DEF SendBurst, TypeOK, BurstLater, NotMade
  <2>2. requests' = [requests EXCEPT ![q].step = "burst", ![q].burst = clock]
    BY <1>2 DEF SendBurst, BurstStamp
  <2>3. requests' \in [Requests -> {NotMade} \cup Made]
    <3>1. clock \in Nat
      BY DEF TypeOK
    <3>2. [requests[q] EXCEPT !.step = "burst", !.burst = clock] \in Made
      BY <2>1, <3>1 DEF Made
    <3>3. requests' = [requests EXCEPT ![q] =
                         [requests[q] EXCEPT !.step = "burst", !.burst = clock]]
      BY <2>2
    <3> QED
      BY <3>2, <3>3 DEF TypeOK
  <2>4. requests'[q].burst = clock /\ requests'[q].key = k /\ clock # None
          /\ requests'[q] # NotMade
    BY <2>1, <2>2 DEF TypeOK, Made, None, NotMade
  <2>5. \A p \in Requests : Keeps(p)
    BY <2>1, <2>2, <2>4 DEF Keeps, TypeOK, Made
  <2>6. CheckedAt(q, BurstSet(k))' /\ StampOf(q, BurstSet(k))' = clock
    BY <2>4, Tiers DEF CheckedAt, StampOf
  <2>7. BurstLater'
    BY <2>1, <2>2 DEF BurstLater, TypeOK, Made
  <2> QED
    BY <1>2, <2>1, <2>3, <2>5, <2>6, <2>7, SetsOfKey, Sends DEF SendBurst, BurstStamp, Made
<1>3. CASE Evaluate
  <2> DEFINE c == wire[evaluated + 1]
  <2> wire \in Seq(Command) /\ evaluated \in 0..Len(wire) /\ evaluated < Len(wire)
    BY <1>3 DEF Evaluate, TypeOK, Command
  <2>1. evaluated + 1 \in DOMAIN wire /\ c \in Command
    OBVIOUS
  <2>2. stamps' = [stamps EXCEPT ![c.set] = Recorded(c.set, c.now)]
    BY <1>3 DEF Evaluate
  <2>3. Recorded(c.set, c.now) \subseteq stamps[c.set] \cup {c.now}
    BY <2>1, RecordedStamps DEF Command
  <2>4. TypeOK'
    BY <1>3, <2>1, <2>2, <2>3 DEF Evaluate, TypeOK, Command
  <2>5. CheckedAt(c.request, c.set) /\ StampOf(c.request, c.set) = c.now
    BY <2>1 DEF WireOK
  <2>6. OwnStamps'
    <3> SUFFICES ASSUME NEW s \in Sets, NEW x \in stamps'[s]
                 PROVE  \E q \in Requests : CheckedAt(q, s) /\ StampOf(q, s) = x
      BY <1>3 DEF Evaluate, OwnStamps, CheckedAt, StampOf
    <3>1. x \in stamps[s] \/ (s = c.set /\ x = c.now)
      BY <2>1, <2>2, <2>3 DEF TypeOK, Command
    <3> QED
      BY <2>1, <2>5, <3>1 DEF OwnStamps, Command
  <2> QED
    BY <1>3, <2>4, <2>6 DEF Evaluate, WireOK, BurstLater, CheckedAt, StampOf
<1>4. CASE Reply
  <2> DEFINE c == Head(wire)
  <2> wire \in Seq(Command) /\ evaluated \in 0..Len(wire) /\ evaluated > 0
    BY <1>4 DEF Reply, TypeOK, Command
  <2>1. 1 \in DOMAIN wire /\ c = wire[1] /\ c \in Command /\ wire \in Seq(Command)
    OBVIOUS
  <2>2. requests[c.request] \in Made
    BY <2>1 DEF WireOK, CheckedAt, TypeOK, Command
  <2>3. requests' = [requests EXCEPT ![c.request].step = Allowed(@)]
    BY <1>4 DEF Reply
  <2>4. \A q \in Requests : Keeps(q)
    BY <2>1, <2>2, <2>3 DEF Keeps, TypeOK, Made, NotMade, Command
  <2>5. wire' = Tail(wire) /\ UNCHANGED <<clock, stamps, resent>> /\ evaluated' = evaluated - 1
    BY <1>4 DEF Reply
  <2>6. TypeOK'
    <3>1. requests' \in [Requests -> {NotMade} \cup Made]
      BY <2>1, <2>2, <2>3 DEF TypeOK, Made, Allowed, Command
    <3>2. wire' \in Seq(Command) /\ evaluated' \in 0..Len(wire')
      BY <1>4, <2>1, <2>5 DEF Reply, TypeOK
    <3> QED
      BY <2>5, <3>1, <3>2 DEF TypeOK, Command
  <2>7. WireOK'
    <3> SUFFICES ASSUME NEW i \in DOMAIN wire'
                 PROVE  /\ CheckedAt(wire[i].request, wire[i].set)'
                        /\ (StampOf(wire[i].request, wire[i].set) = wire[i].now)'
      BY DEF WireOK
    <3>1. i + 1 \in DOMAIN wire /\ wire'[i] = wire[i + 1] /\ wire[i + 1] \in Command
      BY <2>1, <2>5
    <3>2. CheckedAt(wire[i+1].request, wire[i+1].set)
            /\ StampOf(wire[i+1].request, wire[i+1].set) = wire[i+1].now
      BY <3>1 DEF WireOK
    <3> QED
      BY <2>4, <3>1, <3>2, ChecksStay DEF CheckedAt, StampOf, Command
  <2>8. BurstLater'
    BY <2>1, <2>2, <2>3 DEF BurstLater, TypeOK, Made, Allowed, Command
  <2>9. OwnStamps'
    BY <2>4, <2>5, ChecksStay DEF OwnStamps, Sets, GlobalSet, BurstSet
  <2> QED
    BY <2>6, <2>7, <2>8, <2>9
<1>5. CASE Disconnect
  BY <1>5 DEF Disconnect, Unanswered, TypeOK, WireOK, BurstLater, OwnStamps, CheckedAt, StampOf
<1>6. CASE Tick
  <2>1. clock' \in 0..MaxClock /\ clock <= clock' /\ clock \in Nat
    BY <1>6, LimiterAssumption DEF Tick, TypeOK
  <2>2. wire' \in Seq(Command')
    BY <1>6, <2>1, CommandsStay DEF Tick
  <2>3. TypeOK'
    BY <1>6, <2>1, <2>2 DEF Tick, TypeOK, Command
  <2> QED
    BY <1>6, <2>3 DEF Tick, WireOK, BurstLater, OwnStamps, CheckedAt, StampOf
<1>7. CASE UNCHANGED vars
  BY <1>7 DEF vars, TypeOK, WireOK, BurstLater, OwnStamps, CheckedAt, StampOf
<1> QED
  BY <1>1, <1>2, <1>3, <1>4, <1>5, <1>6, <1>7 DEF Next

(* The variables keep their types for any tenants, keys, requests and limits. *)
THEOREM TypeCorrect == Spec => []TypeOK
BY StampInit, StampStep, PTL DEF Spec, StampInv

(* Every stamp is that of a check of that very tenant or key. *)
THEOREM OwnCorrect == Spec => []OwnStamps
BY StampInit, StampStep, PTL DEF Spec, StampInv

-----------------------------------------------------------------------------
(* The bound on the sorted sets.                                           *)

(* The script keeps a set within its limit: it adds a stamp only to what is   *)
(* left below the limit.                                                      *)
LEMMA RecordedBounded ==
  ASSUME NEW s \in Sets, NEW now, IsFiniteSet(stamps[s]), Cardinality(stamps[s]) <= Limit(s)
  PROVE  Cardinality(Recorded(s, now)) <= Limit(s)
<1>1. Kept(s, now) \subseteq stamps[s]
  BY DEF Kept
<1>2. IsFiniteSet(Kept(s, now)) /\ Cardinality(Kept(s, now)) <= Cardinality(stamps[s])
  BY <1>1, FS_Subset
<1>3. Cardinality(Kept(s, now)) \in Nat /\ Cardinality(stamps[s]) \in Nat /\ Limit(s) \in Nat
  BY <1>2, FS_CardinalityType, LimiterAssumption DEF Limit
<1>4. Cardinality(Kept(s, now) \cup {now}) <= Cardinality(Kept(s, now)) + 1
  <2> DEFINE K == Kept(s, now)
  <2>1. Cardinality(K \cup {now}) = IF now \in K THEN Cardinality(K) ELSE Cardinality(K) + 1
    <3>1. IsFiniteSet(K)
      BY <1>2
    <3> HIDE DEF K
    <3> QED
      BY <3>1, FS_AddElement
  <2> QED
    BY <1>3, <2>1
<1>5. Cardinality(Kept(s, now) \cup {now}) \in Nat
  BY <1>2, FS_AddElement, FS_CardinalityType
<1> QED
  BY <1>2, <1>3, <1>4, <1>5 DEF Recorded

LEMMA FiniteStamps ==
  ASSUME TypeOK, NEW s \in Sets
  PROVE  IsFiniteSet(stamps[s])
<1>1. IsFiniteSet(0..clock)
  BY FS_Interval DEF TypeOK
<1> QED
  BY <1>1, FS_Subset DEF TypeOK

LEMMA BoundStep == StampInv /\ SetBounded /\ [Next]_vars => SetBounded'
<1> SUFFICES ASSUME StampInv, SetBounded, [Next]_vars PROVE SetBounded'
  OBVIOUS
<1>1. CASE Evaluate
  <2> DEFINE c == wire[evaluated + 1]
  <2> wire \in Seq(Command) /\ evaluated \in 0..Len(wire) /\ evaluated < Len(wire)
    BY <1>1 DEF Evaluate, StampInv, TypeOK, Command
  <2>0. c \in Command
    OBVIOUS
  <2>1. c.set \in Sets
    BY <2>0 DEF Command
  <2>2. stamps' = [stamps EXCEPT ![c.set] = Recorded(c.set, c.now)]
    BY <1>1 DEF Evaluate
  <2>3. Cardinality(Recorded(c.set, c.now)) <= Limit(c.set)
    BY <2>1, RecordedBounded, FiniteStamps DEF StampInv, SetBounded
  <2>4. \A s \in Sets : stamps'[s] = IF s = c.set THEN Recorded(c.set, c.now) ELSE stamps[s]
    BY <2>1, <2>2 DEF StampInv, TypeOK
  <2> QED
    BY <2>3, <2>4 DEF SetBounded, Limit
<1>2. CASE stamps' = stamps
  BY <1>2 DEF SetBounded, Limit
<1> QED
  BY <1>1, <1>2 DEF Next, vars, Arrive, SendBurst, Reply, Disconnect, Tick

LEMMA BoundInit == Init => SetBounded
BY FS_EmptySet, LimiterAssumption DEF Init, SetBounded, Limit

(* No sorted set outgrows its limit, whatever is evaluated again. *)
THEOREM BoundCorrect == Spec => []SetBounded
BY StampInit, StampStep, BoundInit, BoundStep, PTL DEF Spec
-----------------------------------------------------------------------------
(* The order of the stamps.  Scripts are sent in the order of their stamps,  *)
(* and unless one was evaluated again, every stamp in any set is older than   *)
(* those of the scripts still to be evaluated.                                *)

WireSorted == \A i, j \in DOMAIN wire : i < j => wire[i].now <= wire[j].now

StampsBefore == ~resent => \A i \in DOMAIN wire : i > evaluated =>
                  \A s \in Sets : \A x \in stamps[s] : x <= wire[i].now

OrderInv == StampInv /\ WireSorted /\ StampsBefore /\ WithinWindow

(* A set evaluated in order is one window's stamps afterwards. *)
LEMMA RecordedWithin ==
  ASSUME TypeOK, NEW s \in Sets, NEW now \in Nat, \A x \in stamps[s] : x <= now
  PROVE  \A x, y \in Recorded(s, now) : y - x < Window(s)
<1>1. Window(s) \in Nat \ {0}
  BY LimiterAssumption DEF Window
<1>2. \A x \in Kept(s, now) : x \in Nat /\ x <= now /\ x > now - Window(s)
  BY DEF Kept, TypeOK
<1>3. \A x \in Recorded(s, now) : x \in Nat /\ x <= now /\ x > now - Window(s)
  BY <1>1, <1>2 DEF Recorded
<1> QED
  BY <1>1, <1>3

LEMMA OrderInit == Init => OrderInv
BY StampInit DEF Init, OrderInv, WireSorted, StampsBefore, WithinWindow

(* A script that is sent carries the latest stamp. *)
LEMMA SendsLast ==
  ASSUME OrderInv, NEW q \in Requests, NEW s \in Sets, Send(q, s, clock),
         UNCHANGED <<clock, stamps, evaluated, resent>>
  PROVE  WireSorted' /\ StampsBefore' /\ WithinWindow'
<1> DEFINE c == [request |-> q, set |-> s, now |-> clock]
<1>1. /\ wire \in Seq(Command) /\ c \in Command /\ wire' = Append(wire, c)
      /\ clock \in Nat /\ evaluated \in 0..Len(wire)
  BY DEF OrderInv, StampInv, TypeOK, Command, Send
<1>2. \A i \in DOMAIN wire' : \/ i = Len(wire) + 1 /\ wire'[i].now = clock
                              \/ /\ i \in DOMAIN wire /\ i < Len(wire) + 1
                                 /\ wire'[i] = wire[i] /\ wire[i].now \in 0..clock
  <2> TAKE i \in DOMAIN wire'
  <2>1. CASE i = Len(wire) + 1
    BY <1>1, <2>1
  <2>2. CASE i # Len(wire) + 1
    <3>1. i \in DOMAIN wire /\ i < Len(wire) + 1 /\ wire'[i] = wire[i] /\ wire[i] \in Command
      BY <1>1, <2>2
    <3> QED
      BY <3>1 DEF Command
  <2> QED
    BY <2>1, <2>2
<1>3. WireSorted'
  <2> SUFFICES ASSUME NEW i \in DOMAIN wire', NEW j \in DOMAIN wire', i < j
               PROVE  wire'[i].now <= wire'[j].now
    BY DEF WireSorted
  <2>1. i \in DOMAIN wire /\ wire'[i] = wire[i] /\ wire[i].now \in 0..clock
    BY <1>1, <1>2
  <2>2. CASE wire'[j].now = clock
    BY <1>1, <2>1, <2>2
  <2>3. CASE j \in DOMAIN wire /\ wire'[j] = wire[j]
    BY <2>1, <2>3 DEF OrderInv, WireSorted
  <2> QED
    BY <1>2, <2>2, <2>3
<1>4. \A t \in Sets : \A x \in stamps[t] : x <= clock
  BY DEF OrderInv, StampInv, TypeOK
<1>5. StampsBefore'
  <2> SUFFICES ASSUME ~resent, NEW i \in DOMAIN wire', i > evaluated, NEW t \in Sets,
                      NEW x \in stamps[t]
               PROVE  x <= wire'[i].now
    BY DEF StampsBefore
  <2> QED
    BY <1>2, <1>4 DEF OrderInv, StampsBefore
<1> QED
  BY <1>3, <1>5 DEF OrderInv, WithinWindow, Window

LEMMA OrderStep == OrderInv /\ [Next]_vars => OrderInv'
<1> SUFFICES ASSUME OrderInv, [Next]_vars PROVE OrderInv'
  OBVIOUS
<1>t. /\ StampInv /\ StampInv' /\ wire \in Seq(Command) /\ evaluated \in 0..Len(wire)
      /\ stamps \in [Sets -> SUBSET (0..clock)] /\ clock \in Nat
  BY StampStep DEF OrderInv, StampInv, TypeOK, Command
<1>1. ASSUME NEW q \in Requests, NEW k \in ApiKeys, Arrive(q, k) PROVE OrderInv'
  BY <1>1, <1>t, SetsOfKey, SendsLast DEF Arrive, OrderInv
<1>2. ASSUME NEW q \in Requests, SendBurst(q) PROVE OrderInv'
  <2>1. requests[q].key \in ApiKeys
    BY <1>2 DEF SendBurst, OrderInv, StampInv, TypeOK, NotMade, Made
  <2>2. Send(q, BurstSet(requests[q].key), clock)
    BY <1>2 DEF SendBurst, BurstStamp
  <2> QED
    BY <1>2, <1>t, <2>1, <2>2, SetsOfKey, SendsLast DEF SendBurst, OrderInv
<1>3. CASE Evaluate
  <2> DEFINE c == wire[evaluated + 1]
  <2>1. /\ evaluated + 1 \in DOMAIN wire /\ c \in Command /\ c.set \in Sets /\ c.now \in Nat
        /\ UNCHANGED <<clock, wire, resent>> /\ evaluated' = evaluated + 1
        /\ stamps' = [stamps EXCEPT ![c.set] = Recorded(c.set, c.now)]
    <3>1. evaluated < Len(wire) /\ evaluated + 1 \in DOMAIN wire
      BY <1>3, <1>t DEF Evaluate
    <3>2. c \in Command
      BY <1>t, <3>1
    <3> QED
      BY <1>3, <1>t, <3>1, <3>2 DEF Evaluate, Command
  <2>2. \A s \in Sets : \A x \in stamps'[s] : x \in stamps[s] \/ (s = c.set /\ x = c.now)
    BY <1>t, <2>1, RecordedStamps
  <2>3. StampsBefore'
    <3> SUFFICES ASSUME ~resent, NEW i \in DOMAIN wire, i > evaluated + 1, NEW s \in Sets,
                        NEW x \in stamps'[s]
                 PROVE  x <= wire[i].now
      BY <2>1 DEF StampsBefore
    <3>1. CASE x \in stamps[s]
      BY <1>t, <3>1 DEF OrderInv, StampsBefore
    <3>2. CASE x = c.now
      BY <1>t, <2>1, <3>2 DEF OrderInv, WireSorted
    <3> QED
      BY <2>2, <3>1, <3>2
  <2>4. WithinWindow'
    <3> SUFFICES ASSUME ~resent, NEW s \in Sets, NEW x \in stamps'[s], NEW y \in stamps'[s]
                 PROVE  y - x < Window(s)
      BY <2>1 DEF WithinWindow, Window
    <3>1. CASE s = c.set
      <4>1. \A z \in stamps[s] : z <= c.now
        BY <1>t, <2>1, <3>1 DEF OrderInv, StampsBefore
      <4>2. stamps'[s] = Recorded(s, c.now)
        BY <1>t, <2>1, <3>1
      <4> QED
        BY <1>t, <2>1, <4>1, <4>2, RecordedWithin DEF StampInv
    <3>2. CASE s # c.set
      BY <1>t, <2>1, <3>2 DEF OrderInv, WithinWindow
    <3> QED
      BY <3>1, <3>2
  <2> QED
    BY <1>t, <2>1, <2>3, <2>4 DEF OrderInv, WireSorted
<1>4. CASE Reply
  <2>1. /\ wire' = Tail(wire) /\ evaluated' = evaluated - 1 /\ evaluated > 0
        /\ UNCHANGED <<stamps, resent>>
    BY <1>4 DEF Reply
  <2>2. \A i \in DOMAIN wire' : /\ i \in Nat /\ i + 1 \in DOMAIN wire /\ wire'[i] = wire[i + 1]
    BY <1>t, <2>1
  <2>3. WireSorted'
    BY <2>2 DEF OrderInv, WireSorted
  <2>4. StampsBefore'
    <3> SUFFICES ASSUME ~resent, NEW i \in DOMAIN wire', i > evaluated - 1, NEW s \in Sets,
                        NEW x \in stamps[s]
                 PROVE  x <= wire'[i].now
      BY <2>1 DEF StampsBefore
    <3>1. i + 1 > evaluated
      BY <1>t, <2>2
    <3> QED
      BY <2>2, <3>1 DEF OrderInv, StampsBefore
  <2> QED
    BY <1>t, <2>1, <2>3, <2>4 DEF OrderInv, WithinWindow, Window
<1>5. CASE Disconnect
  BY <1>5, <1>t DEF Disconnect, Unanswered, OrderInv, WireSorted, StampsBefore, WithinWindow
<1>6. CASE Tick
  BY <1>6, <1>t DEF Tick, OrderInv, WireSorted, StampsBefore, WithinWindow, Window
<1>7. CASE UNCHANGED vars
  BY <1>7, <1>t DEF vars, OrderInv, WireSorted, StampsBefore, WithinWindow, Window
<1> QED
  BY <1>1, <1>2, <1>3, <1>4, <1>5, <1>6, <1>7 DEF Next

(* Unless an evaluated script was sent again, the stamps of a set lie within *)
(* one window.                                                               *)
THEOREM WindowCorrect == Spec => []WithinWindow
BY OrderInit, OrderStep, PTL DEF Spec, OrderInv

(* Unless an evaluated script was sent again, no script is evaluated with a  *)
(* stamp older than one its set holds.                                       *)
THEOREM OrderCorrect == Spec => []StampsInOrder
<1>1. OrderInv => StampsInOrder
  <2> SUFFICES ASSUME OrderInv, ~resent, NEW i \in DOMAIN wire, i > evaluated
               PROVE  \A x \in stamps[wire[i].set] : x <= wire[i].now
    BY DEF StampsInOrder
  <2>1. wire \in Seq(Command)
    BY DEF OrderInv, StampInv, TypeOK, Command
  <2>2. wire[i] \in Command
    BY <2>1
  <2>3. wire[i].set \in Sets
    BY <2>2 DEF Command
  <2> QED
    BY <2>3 DEF OrderInv, StampsBefore
<1> QED
  BY <1>1, OrderInit, OrderStep, PTL DEF Spec
=============================================================================
