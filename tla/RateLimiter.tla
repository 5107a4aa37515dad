---------------------------- MODULE RateLimiter -----------------------------
(***************************************************************************)
(* The rate limiter of the API: two sliding windows per request, one of    *)
(* its tenant ("global") and one of its API key ("burst"), each a Redis    *)
(* sorted set of time stamps that a Lua script checks and extends.         *)
(*                                                                         *)
(*   "idle" --Arrive--> "global" --Reply--> "checked"                      *)
(*          --SendBurst--> "burst" --Reply--> "passed"                     *)
(*                                                                         *)
(* The stamp of a check is taken by the process when it sends the script;  *)
(* Redis evaluates it later.  All scripts travel over one connection,      *)
(* which keeps their order, holds them back while Redis is away and sends  *)
(* those without a reply again when it returns.                            *)
(*                                                                         *)
(* The script names the JavaScript variable config, which Lua does not     *)
(* know.  On both of its branches it therefore ends with an error instead  *)
(* of a verdict, after the expired stamps were removed and the new one was *)
(* added, and before the expiry of the set was renewed; checkLimit answers *)
(* an error with "allowed".  The refusals of the middleware, and the count *)
(* of them, are never reached.                                             *)
(***************************************************************************)
EXTENDS Integers, Sequences, FiniteSets

CONSTANTS Tenants,       \* tenant ids
          ApiKeys,       \* API keys
          TenantOf,      \* the tenant of each API key
          Requests,      \* requests; bound: each of them is made once
          GlobalLimit,   \* 1000 in the code
          GlobalWindow,  \* 60000 ms in the code
          BurstLimit,    \* 50 in the code
          BurstWindow,   \* 5000 ms in the code
          MaxClock       \* bound on time

ASSUME LimiterAssumption ==
  /\ TenantOf \in [ApiKeys -> Tenants]
  /\ GlobalLimit \in Nat \ {0} /\ GlobalWindow \in Nat \ {0}
  /\ BurstLimit \in Nat \ {0} /\ BurstWindow \in Nat \ {0}
  /\ MaxClock \in Nat

VARIABLES clock,      \* the process's time
          stamps,     \* the members of each sorted set
          wire,       \* scripts without a reply, in the order they were sent
          evaluated,  \* how many of them Redis has evaluated
          resent,     \* history: an evaluated script was sent again
          requests    \* how far each request is

vars == <<clock, stamps, wire, evaluated, resent, requests>>

-----------------------------------------------------------------------------
(* Sorted sets and the script.                                             *)

GlobalSet(t) == [tier |-> "global", of |-> t]

BurstSet(k) == [tier |-> "burst", of |-> k]

Sets == {GlobalSet(t) : t \in Tenants} \cup {BurstSet(k) : k \in ApiKeys}

Limit(s)  == IF s.tier = "global" THEN GlobalLimit ELSE BurstLimit
Window(s) == IF s.tier = "global" THEN GlobalWindow ELSE BurstWindow

(* Bug: a stamp as old as the window is kept. *)
KeptTooLong(s, now) == {x \in stamps[s] : x >= now - Window(s)}

(* ZREMRANGEBYSCORE leaves the stamps inside the window. *)
Kept(s, now) == {x \in stamps[s] : x > now - Window(s)}

(* Bug: the limit itself still counts as below the limit. *)
RecordedOneMore(s, now) ==
  IF Cardinality(Kept(s, now)) <= Limit(s) THEN Kept(s, now) \cup {now} ELSE Kept(s, now)

(* Bug: a check is recorded at the time Redis gets to it. *)
RecordedLate(s, now) ==
  IF Cardinality(Kept(s, clock)) < Limit(s) THEN Kept(s, clock) \cup {clock} ELSE Kept(s, clock)

(* What the script leaves in the set.  The member is the stamp joined with a  *)
(* random number, and Redis seeds the generator anew for every script: two    *)
(* checks in one millisecond write one member.                                *)
Recorded(s, now) ==
  IF Cardinality(Kept(s, now)) < Limit(s) THEN Kept(s, now) \cup {now} ELSE Kept(s, now)

-----------------------------------------------------------------------------
(* Requests.                                                               *)

None == -1

NotMade == [step |-> "idle"]

Init == /\ clock = 0
        /\ stamps = [s \in Sets |-> {}]
        /\ wire = <<>>
        /\ evaluated = 0
        /\ resent = FALSE
        /\ requests = [q \in Requests |-> NotMade]

Send(q, s, now) == wire' = Append(wire, [request |-> q, set |-> s, now |-> now])

(* The tenant middleware has put the tenant and the key on the request. *)
Arrive(q, k) ==
  /\ requests[q] = NotMade
  /\ Send(q, GlobalSet(TenantOf[k]), clock)
  /\ requests' = [requests EXCEPT ![q] =
                    [step |-> "global", key |-> k, global |-> clock, burst |-> None]]
  /\ UNCHANGED <<clock, stamps, evaluated, resent>>

(* Bug: both windows are checked with the stamp the request arrived with. *)
ArrivalStamp(r) == r.global

(* The stamp a check is made with. *)
BurstStamp(r) == clock

SendBurst(q) ==
  /\ requests[q].step = "checked"
  /\ LET now == BurstStamp(requests[q])
     IN  /\ Send(q, BurstSet(requests[q].key), now)
         /\ requests' = [requests EXCEPT ![q].step = "burst", ![q].burst = now]
  /\ UNCHANGED <<clock, stamps, evaluated, resent>>

(* Bug: a request is held up when its check fails. *)
HeldUp(step) == "refused"

(* The step that follows the reply, whatever the reply. *)
Allowed(step) == IF step = "global" THEN "checked" ELSE "passed"

(* Redis evaluates the next script, however late: while the connection is     *)
(* down the client library holds the scripts back, without a time limit.      *)
Evaluate ==
  /\ evaluated < Len(wire)
  /\ LET c == wire[evaluated + 1]
     IN  stamps' = [stamps EXCEPT ![c.set] = Recorded(c.set, c.now)]
  /\ evaluated' = evaluated + 1
  /\ UNCHANGED <<clock, wire, resent, requests>>

(* The reply to the oldest script arrives and its request goes on. *)
Reply ==
  /\ evaluated > 0
  /\ requests' = [requests EXCEPT ![Head(wire).request].step = Allowed(@)]
  /\ wire' = Tail(wire)
  /\ evaluated' = evaluated - 1
  /\ UNCHANGED <<clock, stamps, resent>>

(* Bug: scripts without a reply are not sent again. *)
Dropped(w) == SubSeq(w, evaluated + 1, Len(w))

(* What is sent again after the connection broke: whatever has no reply. *)
Unanswered(w) == w

(* The connection breaks after scripts were evaluated and before their        *)
(* replies arrived.                                                           *)
Disconnect ==
  /\ evaluated > 0
  /\ wire' = Unanswered(wire)
  /\ evaluated' = 0
  /\ resent' = TRUE
  /\ UNCHANGED <<clock, stamps, requests>>

Tick == /\ clock < MaxClock
        /\ clock' = clock + 1
        /\ UNCHANGED <<stamps, wire, evaluated, resent, requests>>

Next == \/ \E q \in Requests : (\E k \in ApiKeys : Arrive(q, k)) \/ SendBurst(q)
        \/ Evaluate \/ Reply \/ Disconnect \/ Tick

Spec == Init /\ [][Next]_vars

(* The event loop runs continuations; the client library reconnects for ever, *)
(* so Redis gets to evaluate the next script; and of replies that are ready   *)
(* again and again one arrives.                                               *)
Fairness == /\ \A q \in Requests : WF_vars(SendBurst(q))
            /\ WF_vars(Evaluate)
            /\ SF_vars(Reply)

LiveSpec == Spec /\ Fairness

-----------------------------------------------------------------------------
(* Properties.                                                             *)

Made == [step : {"global", "checked", "burst", "passed"}, key : ApiKeys,
         global : Nat, burst : Nat \cup {None}]

(* Every variable holds values of its type. *)
TypeOK ==
  /\ clock \in 0..MaxClock
  /\ stamps \in [Sets -> SUBSET (0..clock)]
  /\ wire \in Seq([request : Requests, set : Sets, now : 0..clock])
  /\ evaluated \in 0..Len(wire)
  /\ resent \in BOOLEAN
  /\ requests \in [Requests -> {NotMade} \cup Made]

(* A sorted set never holds more members than its limit, however often a     *)
(* script is evaluated again: Redis's memory per set is bounded although the *)
(* set never expires.                                                        *)
SetBounded == \A s \in Sets : Cardinality(stamps[s]) <= Limit(s)

(* Unless an evaluated script had to be sent again, the stamps of a set lie   *)
(* within one window: nothing the limit no longer concerns counts against it. *)
WithinWindow ==
  ~resent => \A s \in Sets : \A x, y \in stamps[s] : y - x < Window(s)

(* Every stamp stems from a check of that very tenant or key: no tenant and  *)
(* no key uses up the window of another, and a script that is evaluated      *)
(* twice leaves no second mark.                                              *)
CheckedAt(q, s) ==
  /\ requests[q] # NotMade
  /\ \/ s = GlobalSet(TenantOf[requests[q].key])
     \/ s = BurstSet(requests[q].key) /\ requests[q].burst # None

StampOf(q, s) == IF s.tier = "global" THEN requests[q].global ELSE requests[q].burst

OwnStamps == \A s \in Sets : \A x \in stamps[s] :
               \E q \in Requests : CheckedAt(q, s) /\ StampOf(q, s) = x

(* Unless an evaluated script had to be sent again, none is evaluated with a  *)
(* stamp older than one its set already holds, although stamps are taken      *)
(* before the scripts are queued: what a check counts is exactly the window   *)
(* that ends at its stamp.                                                    *)
StampsInOrder ==
  ~resent => \A i \in DOMAIN wire : i > evaluated =>
               \A x \in stamps[wire[i].set] : x <= wire[i].now

(* Every request gets past the limiter once Redis returns. *)
RequestsPass == \A q \in Requests :
                  requests[q].step = "global" ~> requests[q].step = "passed"

(* What the documentation promises: no window lets more requests pass than   *)
(* the limit of its tier.  (Only requests with stamps of their own count.)   *)
PassedIn(s, from) ==
  {StampOf(q, s) : q \in {p \in Requests : requests[p].step = "passed" /\ CheckedAt(p, s)}}
    \cap (from .. from + Window(s) - 1)

LimitHolds == \A s \in Sets, from \in 0..MaxClock :
                Cardinality(PassedIn(s, from)) <= Limit(s)
=============================================================================
