---------------------------- MODULE Server_proof ----------------------------
(***************************************************************************)
(* Theorems about Server for any number of connections, signals and errors.*)
(***************************************************************************)
EXTENDS Server, TLAPS

-----------------------------------------------------------------------------
(* The inductive invariant.  It says which calls of gracefulShutdown can be  *)
(* where in each phase of the server; that a closed server has no connection *)
(* left; and that a pool is ended only by a handler whose signal also closed *)
(* the server.                                                               *)

(* r is the only call that has not been refused, and it is at one of steps. *)
Leads(r, steps) == /\ runs[r] \in steps
                   /\ \A s \in Runs \ {r} : runs[s] \in {"none", "refused"}

Phases ==
  /\ server \in {"none", "listening"} => \A r \in Runs : runs[r] = "none"
  /\ server = "closing" => \E r \in Runs : Leads(r, {"closing"})
  /\ server = "closed" /\ exit = "alive" =>
       \E r \in Runs : /\ runs[r] \in {"disconnecting", "quitting"}
                       /\ \A s \in Runs \ {r} : runs[s] = "none"
  /\ server \in {"none", "closed"} => \A c \in Connections : connections[c] = "closed"

DatabaseInv ==
  /\ \A t \in Triggers : handlers[t] # "none" => /\ kind[t] \in {"SIGTERM", "SIGINT"}
                                                 /\ server \in {"closing", "closed"}
  /\ pool = "ended" => \E t \in Triggers : handlers[t] # "none"
  /\ failed # {} => pool = "ended"

(* Every call of gracefulShutdown has a trigger of its own. *)
Fresh ==
  \A t \in Triggers : /\ kind[t] = "none" => /\ runs[<<t, "trigger">>] = "none"
                                             /\ handlers[t] = "none"
                      /\ handlers[t] # "done" => runs[<<t, "pool">>] = "none"

ExitInv ==
  /\ exit = "alive" => cut = {} /\ reason = "none"
  /\ CleanExit
  /\ CutExplained

ServerInv == TypeOK /\ Fresh /\ Phases /\ DatabaseInv /\ ExitInv

LEMMA ServerInit == Init => ServerInv
BY DEF Init, ServerInv, TypeOK, Fresh, Phases, Leads, DatabaseInv, ExitInv, CleanExit,
       CutExplained, Runs

-----------------------------------------------------------------------------
(* Types and freshness.                                                    *)

LEMMA ExitType ==
  ASSUME TypeOK, NEW code \in {"0", "1"}, NEW why \in {"startup", "connect", "socket", "graceful",
                                                      "refused", "failed", "timer"}, Exit(code, why)
  PROVE  /\ exit' \in {"alive", "0", "1"} /\ cut' \subseteq Connections
         /\ reason' \in {"none", "startup", "connect", "socket", "graceful", "refused", "failed",
                         "timer"}
         /\ entries' \in [Connections -> {"none", "writing", "stored", "lost"}]
BY DEF TypeOK, Exit, Busy

LEMMA ShutdownType ==
  ASSUME TypeOK, NEW r \in Runs, Shutdown(r)
  PROVE  /\ exit' \in {"alive", "0", "1"} /\ cut' \subseteq Connections
         /\ reason' \in {"none", "startup", "connect", "socket", "graceful", "refused", "failed",
                         "timer"}
         /\ entries' \in [Connections -> {"none", "writing", "stored", "lost"}]
         /\ server' \in {"none", "listening", "closing", "closed"}
         /\ connections' \in [Connections -> {"closed", "idle", "busy"}]
         /\ runs' \in [Runs -> {"none", "closing", "refused", "disconnecting", "quitting"}]
<1>1. runs' \in [Runs -> {"none", "closing", "refused", "disconnecting", "quitting"}]
  BY DEF Shutdown, TypeOK
<1>2. connections' \in [Connections -> {"closed", "idle", "busy"}]
  BY DEF Shutdown, TypeOK, CloseIdleConnections
<1>3. server' \in {"none", "listening", "closing", "closed"}
  BY DEF Shutdown, TypeOK
<1>4. CASE UNCHANGED <<exit, reason, cut, entries>>
  BY <1>1, <1>2, <1>3, <1>4 DEF TypeOK
<1>5. CASE Exit("1", "refused")
  BY <1>1, <1>2, <1>3, <1>5, ExitType
<1> QED
  BY <1>4, <1>5 DEF Shutdown

LEMMA TypeStep == TypeOK /\ [Next]_vars => TypeOK'
<1> SUFFICES ASSUME TypeOK, [Next]_vars PROVE TypeOK'
  OBVIOUS
<1>1. CASE Start \/ Connected \/ UNCHANGED vars
  BY <1>1 DEF Start, Connected, Alive, vars, work, TypeOK
<1>2. CASE StartFails \/ SocketFails
  BY <1>2, ExitType DEF StartFails, SocketFails, TypeOK
<1>3. CASE ConnectFails
  BY <1>3, ExitType DEF ConnectFails, TypeOK
<1>4. ASSUME NEW c \in Connections,
             Request(c) \/ Abandon(c) \/ Answer(c) \/ QueryFails(c) \/ CloseIdle(c) \/ EntryEnds(c)
      PROVE  TypeOK'
  BY <1>4
  DEF Request, Abandon, Answer, QueryFails, CloseIdle, EntryEnds, Ends, Alive, Background, TypeOK
<1>5. ASSUME NEW t \in Triggers, NEW k \in Kinds, Receive(t, k) PROVE TypeOK'
  <2>1. <<t, "trigger">> \in Runs
    BY DEF Runs
  <2>2. CASE Shutdown(<<t, "trigger">>)
    BY <1>5, <2>1, <2>2, ShutdownType DEF Receive, TypeOK
  <2>3. CASE UNCHANGED <<server, runs, connections, exit, reason, cut, entries>>
    BY <1>5, <2>3 DEF Receive, TypeOK
  <2> QED
    BY <1>5, <2>2, <2>3 DEF Receive
<1>6. ASSUME NEW t \in Triggers, EndPool(t) PROVE TypeOK'
  <2>1. <<t, "pool">> \in Runs
    BY DEF Runs
  <2>2. CASE Shutdown(<<t, "pool">>)
    BY <1>6, <2>1, <2>2, ShutdownType DEF EndPool, TypeOK
  <2>3. CASE UNCHANGED <<server, runs, connections, exit, reason, cut, entries>>
    BY <1>6, <2>3 DEF EndPool, TypeOK
  <2> QED
    BY <1>6, <2>2, <2>3 DEF EndPool
<1>7. CASE Closed
  BY <1>7, ExitType DEF Closed, TypeOK
<1>8. ASSUME NEW r \in Runs, Disconnected(r) PROVE TypeOK'
  BY <1>8 DEF Disconnected, Alive, TypeOK
<1>9. ASSUME NEW r \in Runs, RedisQuit(r) \/ ShutdownFails(r) \/ ForcedExit(r) PROVE TypeOK'
  BY <1>9, ExitType DEF RedisQuit, ShutdownFails, ForcedExit, TypeOK
<1> QED
  BY <1>1, <1>2, <1>3, <1>4, <1>5, <1>6, <1>7, <1>8, <1>9 DEF Next

(* Every variable holds values of its type. *)
THEOREM TypeCorrect == Spec => []TypeOK
<1>1. Init => TypeOK
  BY ServerInit DEF ServerInv
<1> QED
  BY <1>1, TypeStep, PTL DEF Spec

(* A trigger and the rejection it may cause call gracefulShutdown once each. *)
LEMMA FreshStep == TypeOK /\ Fresh /\ [Next]_vars => Fresh'
<1> SUFFICES ASSUME TypeOK, Fresh, [Next]_vars PROVE Fresh'
  OBVIOUS
<1>same. ASSUME UNCHANGED <<kind, handlers, runs>> PROVE Fresh'
  BY <1>same DEF Fresh
<1>1. CASE Start \/ StartFails \/ Connected \/ ConnectFails \/ SocketFails \/ UNCHANGED vars
  BY <1>1, <1>same DEF Start, StartFails, Connected, ConnectFails, SocketFails, vars
<1>2. ASSUME NEW c \in Connections,
             Request(c) \/ Abandon(c) \/ Answer(c) \/ QueryFails(c) \/ CloseIdle(c) \/ EntryEnds(c)
      PROVE  Fresh'
  BY <1>2, <1>same DEF Request, Abandon, Answer, QueryFails, CloseIdle, EntryEnds, Background
<1>3. ASSUME NEW t \in Triggers, NEW k \in Kinds, Receive(t, k) PROVE Fresh'
  <2>1. k # "none"
    BY DEF Kinds, ShutdownSignals, DisconnectSignals
  <2>2. \A r \in Runs : r # <<t, "trigger">> => runs'[r] = runs[r]
    BY <1>3 DEF Receive, Shutdown, TypeOK
  <2>3. \A u \in Triggers : /\ <<u, "pool">> \in Runs /\ <<u, "trigger">> \in Runs
                            /\ <<u, "pool">> # <<t, "trigger">>
                            /\ u # t => <<u, "trigger">> # <<t, "trigger">>
    BY DEF Runs
  <2>4. \A u \in Triggers : /\ runs'[<<u, "pool">>] = runs[<<u, "pool">>]
                            /\ u # t => runs'[<<u, "trigger">>] = runs[<<u, "trigger">>]
    BY <2>2, <2>3
  <2>5. /\ kind'[t] = k /\ handlers[t] = "none"
        /\ \A u \in Triggers : u # t => kind'[u] = kind[u] /\ handlers'[u] = handlers[u]
    <3>1. /\ kind' = [kind EXCEPT ![t] = k] /\ kind[t] = "none"
          /\ \E h : handlers' = [handlers EXCEPT ![t] = h]
      BY <1>3 DEF Receive
    <3>2. kind \in [Triggers -> Kinds \cup {"none"}]
          /\ handlers \in [Triggers -> {"none", "disconnecting", "done"}]
      BY DEF TypeOK
    <3>3. handlers[t] = "none"
      BY <3>1 DEF Fresh
    <3> QED
      BY <3>1, <3>2, <3>3
  <2> QED
    BY <2>1, <2>4, <2>5 DEF Fresh
<1>4. ASSUME NEW t \in Triggers, EndPool(t) PROVE Fresh'
  <2>1. \A r \in Runs : r # <<t, "pool">> => runs'[r] = runs[r]
    BY <1>4 DEF EndPool, Shutdown, TypeOK
  <2>2. \A u \in Triggers : /\ <<u, "pool">> \in Runs /\ <<u, "trigger">> \in Runs
                            /\ <<u, "trigger">> # <<t, "pool">>
                            /\ u # t => <<u, "pool">> # <<t, "pool">>
    BY DEF Runs
  <2>3. \A u \in Triggers : /\ runs'[<<u, "trigger">>] = runs[<<u, "trigger">>]
                            /\ u # t => runs'[<<u, "pool">>] = runs[<<u, "pool">>]
    BY <2>1, <2>2
  <2>4. /\ handlers[t] # "none" /\ handlers'[t] = "done" /\ kind' = kind
        /\ \A u \in Triggers : u # t => handlers'[u] = handlers[u]
    BY <1>4 DEF EndPool, TypeOK
  <2> QED
    BY <2>3, <2>4 DEF Fresh
<1>5. ASSUME Closed PROVE Fresh'
  <2>1. \A r \in Runs : runs[r] = "none" => runs'[r] = "none"
    BY <1>5 DEF Closed, TypeOK
  <2>2. \A u \in Triggers : <<u, "pool">> \in Runs /\ <<u, "trigger">> \in Runs
    BY DEF Runs
  <2> QED
    BY <1>5, <2>1, <2>2 DEF Closed, Fresh
<1>6. ASSUME NEW r \in Runs, Disconnected(r) PROVE Fresh'
  <2>1. \A s \in Runs : runs[s] = "none" => runs'[s] = "none"
    BY <1>6 DEF Disconnected, TypeOK
  <2>2. \A u \in Triggers : <<u, "pool">> \in Runs /\ <<u, "trigger">> \in Runs
    BY DEF Runs
  <2> QED
    BY <1>6, <2>1, <2>2 DEF Disconnected, Fresh
<1>7. ASSUME NEW r \in Runs, RedisQuit(r) \/ ShutdownFails(r) \/ ForcedExit(r) PROVE Fresh'
  BY <1>7, <1>same DEF RedisQuit, ShutdownFails, ForcedExit
<1> QED
  BY <1>1, <1>2, <1>3, <1>4, <1>5, <1>6, <1>7 DEF Next

-----------------------------------------------------------------------------
(* The phases of a shutdown.                                               *)

(* One more call of gracefulShutdown joins as the first or is refused. *)
LEMMA ShutdownPhases ==
  ASSUME TypeOK, Phases, exit = "alive", server # "none", NEW r \in Runs, runs[r] = "none",
         Shutdown(r)
  PROVE  Phases'
<1>1. CASE server = "listening"
  <2>1. server' = "closing" /\ runs' = [runs EXCEPT ![r] = "closing"]
    BY <1>1 DEF Shutdown
  <2>2. Leads(r, {"closing"})'
    BY <1>1, <2>1 DEF Phases, Leads, TypeOK
  <2> QED
    BY <2>1, <2>2 DEF Phases
<1>2. CASE server = "closing"
  <2>1. server' = "closing" /\ runs' = [runs EXCEPT ![r] = "refused"]
    BY <1>2 DEF Shutdown
  <2>2. PICK l \in Runs : Leads(l, {"closing"})
    BY <1>2 DEF Phases
  <2>3. Leads(l, {"closing"})'
    BY <2>1, <2>2 DEF Leads, TypeOK
  <2> QED
    BY <2>1, <2>3 DEF Phases
<1>3. CASE server = "closed"
  <2>1. server' = "closed" /\ exit' = "1" /\ connections' = connections
    BY <1>3 DEF Shutdown, Exit
  <2> QED
    BY <1>3, <2>1 DEF Phases
<1> QED
  BY <1>1, <1>2, <1>3 DEF TypeOK

LEMMA PhaseStep == TypeOK /\ Fresh /\ Phases /\ [Next]_vars => Phases'
<1> SUFFICES ASSUME TypeOK, Fresh, Phases, [Next]_vars PROVE Phases'
  OBVIOUS
<1>same. ASSUME UNCHANGED <<server, connections, runs>>, exit' = "alive" => exit = "alive"
         PROVE  Phases'
  BY <1>same DEF Phases, Leads
<1>exit. ASSUME NEW code \in {"0", "1"}, NEW why, Exit(code, why),
                UNCHANGED <<server, connections, runs>>
         PROVE  Phases'
  BY <1>exit, <1>same DEF Exit
<1>1. CASE Start
  BY <1>1 DEF Start, work, Phases
<1>2. CASE Connected \/ UNCHANGED vars
  BY <1>2, <1>same DEF Connected, Alive, vars, work
<1>3. CASE StartFails \/ ConnectFails \/ SocketFails
  BY <1>3, <1>same, <1>exit DEF StartFails, ConnectFails, SocketFails
<1>4. ASSUME NEW c \in Connections,
             Request(c) \/ Abandon(c) \/ Answer(c) \/ QueryFails(c) \/ CloseIdle(c) \/ EntryEnds(c)
      PROVE  Phases'
  <2>1. UNCHANGED <<server, runs>> /\ exit' = exit
    BY <1>4 DEF Request, Abandon, Answer, QueryFails, CloseIdle, EntryEnds, Alive, Background
  <2>2. CASE server \in {"none", "closed"}
    <3>1. \A d \in Connections : connections'[d] = "closed"
      BY <1>4, <2>2 DEF Request, Abandon, Answer, QueryFails, CloseIdle, EntryEnds, Ends, Phases
    <3> QED
      BY <2>1, <2>2, <3>1 DEF Phases
  <2>3. CASE server \in {"listening", "closing"}
    BY <2>1, <2>3 DEF Phases, Leads
  <2> QED
    BY <2>2, <2>3 DEF TypeOK
<1>5. ASSUME NEW t \in Triggers, NEW k \in Kinds, Receive(t, k) PROVE Phases'
  <2>1. <<t, "trigger">> \in Runs /\ runs[<<t, "trigger">>] = "none"
    BY <1>5 DEF Runs, Receive, Fresh
  <2> QED
    BY <1>5, <1>same, <2>1, ShutdownPhases DEF Receive
<1>6. ASSUME NEW t \in Triggers, EndPool(t) PROVE Phases'
  <2>1. <<t, "pool">> \in Runs
    BY DEF Runs
  <2>2. CASE UNCHANGED <<server, runs, connections, exit, reason, cut, entries>>
    BY <2>2, <1>same
  <2>3. CASE Shutdown(<<t, "pool">>)
    <3>1. runs[<<t, "pool">>] = "none"
      BY <1>6 DEF EndPool, Fresh
    <3>2. server # "none"
      BY <2>3 DEF Shutdown
    <3> QED
      BY <1>6, <2>1, <2>3, <3>1, <3>2, ShutdownPhases DEF EndPool
  <2> QED
    BY <1>6, <2>2, <2>3 DEF EndPool
<1>7. CASE Closed
  <2>1. /\ server = "closing" /\ server' = "closed" /\ connections' = connections
        /\ \A c \in Connections : connections[c] = "closed"
    BY <1>7 DEF Closed, Drained
  <2>2. CASE \E r \in Runs : runs[r] = "refused"
    BY <1>7, <2>1, <2>2 DEF Closed, Exit, Phases
  <2>3. CASE \A r \in Runs : runs[r] # "refused"
    <3>1. PICK l \in Runs : Leads(l, {"closing"})
      BY <2>1 DEF Phases
    <3>2. runs' = [r \in Runs |-> IF runs[r] = "closing" THEN "disconnecting" ELSE runs[r]]
      BY <1>7, <2>3 DEF Closed
    <3>3. runs'[l] = "disconnecting" /\ \A s \in Runs \ {l} : runs'[s] = "none"
      BY <2>3, <3>1, <3>2 DEF Leads
    <3> QED
      BY <2>1, <3>1, <3>3 DEF Phases
  <2> QED
    BY <2>2, <2>3
<1>8. ASSUME NEW r \in Runs, Disconnected(r) PROVE Phases'
  <2>1. /\ runs[r] = "disconnecting" /\ runs' = [runs EXCEPT ![r] = "quitting"]
        /\ UNCHANGED <<server, connections>> /\ exit = "alive" /\ exit' = "alive"
    BY <1>8 DEF Disconnected, Alive
  <2>2. server = "closed"
    BY <2>1 DEF Phases, Leads, TypeOK
  <2>3. \A s \in Runs \ {r} : runs[s] = "none"
    BY <2>1, <2>2 DEF Phases
  <2>4. runs'[r] = "quitting" /\ \A s \in Runs \ {r} : runs'[s] = "none"
    BY <2>1, <2>3 DEF TypeOK
  <2> QED
    BY <2>1, <2>2, <2>4 DEF Phases
<1>9. ASSUME NEW r \in Runs, RedisQuit(r) \/ ShutdownFails(r) \/ ForcedExit(r) PROVE Phases'
  BY <1>9, <1>exit DEF RedisQuit, ShutdownFails, ForcedExit
<1> QED
  BY <1>1, <1>2, <1>3, <1>4, <1>5, <1>6, <1>7, <1>8, <1>9 DEF Next

(* A run past the close is alone, and no connection is left. *)
LEMMA PastClose ==
  ASSUME TypeOK, Phases, exit = "alive", NEW r \in Runs, runs[r] \in {"disconnecting", "quitting"}
  PROVE  Busy = {} /\ \A s \in Runs \ {r} : runs[s] = "none"
<1>1. server = "closed"
  BY DEF Phases, Leads, TypeOK
<1> QED
  BY <1>1 DEF Phases, Busy

-----------------------------------------------------------------------------
(* The database during a shutdown.                                         *)

LEMMA DatabaseStep == TypeOK /\ Fresh /\ DatabaseInv /\ [Next]_vars => DatabaseInv'
<1> SUFFICES ASSUME TypeOK, Fresh, DatabaseInv, [Next]_vars PROVE DatabaseInv'
  OBVIOUS
<1>same. ASSUME UNCHANGED <<kind, handlers, pool, failed>>, server \in {"closing", "closed"} =>
                                                            server' \in {"closing", "closed"}
         PROVE  DatabaseInv'
  BY <1>same DEF DatabaseInv
<1>1. CASE \/ Start \/ StartFails \/ Connected \/ ConnectFails \/ SocketFails
         \/ Closed \/ UNCHANGED vars
  BY <1>1, <1>same
  DEF Start, StartFails, Connected, ConnectFails, SocketFails, Closed, vars, work
<1>2. ASSUME NEW c \in Connections,
             Request(c) \/ Abandon(c) \/ Answer(c) \/ CloseIdle(c) \/ EntryEnds(c)
      PROVE  DatabaseInv'
  BY <1>2, <1>same DEF Request, Abandon, Answer, CloseIdle, EntryEnds, Background
<1>3. ASSUME NEW c \in Connections, QueryFails(c) PROVE DatabaseInv'
  BY <1>3 DEF QueryFails, Background, DatabaseInv
<1>4. ASSUME NEW t \in Triggers, NEW k \in Kinds, Receive(t, k) PROVE DatabaseInv'
  <2>1. server' \in {"closing", "closed"}
    BY <1>4 DEF Receive, Shutdown, Kinds, ShutdownSignals, DisconnectSignals
  <2>2. handlers[t] = "none" /\ kind'[t] = k
    BY <1>4 DEF Receive, Fresh, TypeOK
  <2>3. handlers'[t] # "none" => k \in {"SIGTERM", "SIGINT"}
    BY <1>4, <2>2 DEF Receive, DisconnectSignals, TypeOK
  <2>4. \A u \in Triggers : u # t => kind'[u] = kind[u] /\ handlers'[u] = handlers[u]
    BY <1>4 DEF Receive, TypeOK
  <2>5. UNCHANGED <<pool, failed>>
    BY <1>4 DEF Receive
  <2> QED
    BY <2>1, <2>2, <2>3, <2>4, <2>5 DEF DatabaseInv
<1>5. ASSUME NEW t \in Triggers, EndPool(t) PROVE DatabaseInv'
  <2>1. server \in {"closing", "closed"} /\ kind[t] \in {"SIGTERM", "SIGINT"}
    BY <1>5 DEF EndPool, DatabaseInv
  <2>2. server' \in {"closing", "closed"}
    BY <1>5, <2>1 DEF EndPool, Shutdown
  <2>3. /\ kind' = kind /\ pool' = "ended" /\ failed' = failed /\ handlers'[t] = "done"
        /\ \A u \in Triggers : u # t => handlers'[u] = handlers[u]
    BY <1>5 DEF EndPool, TypeOK
  <2> QED
    BY <2>1, <2>2, <2>3 DEF DatabaseInv
<1>6. ASSUME NEW r \in Runs,
             Disconnected(r) \/ RedisQuit(r) \/ ShutdownFails(r) \/ ForcedExit(r)
      PROVE  DatabaseInv'
  BY <1>6, <1>same DEF Disconnected, RedisQuit, ShutdownFails, ForcedExit
<1> QED
  BY <1>1, <1>2, <1>3, <1>4, <1>5, <1>6 DEF Next

-----------------------------------------------------------------------------
(* Exit codes and what an exit cuts.                                       *)

(* An exit with an error may cut connected requests only when the timer, the *)
(* socket or production's missing database is its reason.                    *)
LEMMA FailedExit ==
  ASSUME NEW why, Exit("1", why), adrift' = adrift,
         Busy = {} \/ why \in {"timer", "socket", "connect"}
  PROVE  ExitInv'
BY DEF Exit, ExitInv, CleanExit, CutExplained

LEMMA ShutdownExit ==
  ASSUME TypeOK, Phases, ExitInv, exit = "alive", NEW r \in Runs, Shutdown(r), adrift' = adrift
  PROVE  ExitInv'
<1>1. CASE UNCHANGED <<exit, reason, cut, entries>>
  BY <1>1 DEF ExitInv, CleanExit, CutExplained
<1>2. CASE server = "closed" /\ Exit("1", "refused")
  BY <1>2, FailedExit DEF Phases, Busy
<1> QED
  BY <1>1, <1>2 DEF Shutdown

LEMMA ExitStep == TypeOK /\ Phases /\ ExitInv /\ [Next]_vars => ExitInv'
<1> SUFFICES ASSUME TypeOK, Phases, ExitInv, [Next]_vars PROVE ExitInv'
  OBVIOUS
<1>alive. ASSUME UNCHANGED <<exit, reason, cut>>, exit = "alive" PROVE ExitInv'
  BY <1>alive DEF ExitInv, CleanExit, CutExplained
<1>1. CASE UNCHANGED vars
  BY <1>1 DEF vars, work, ExitInv, CleanExit, CutExplained
<1>2. CASE Start \/ Connected
  BY <1>2, <1>alive DEF Start, Connected, Alive, work
<1>3. CASE StartFails \/ SocketFails
  BY <1>3, FailedExit DEF StartFails, SocketFails, Phases, Busy
<1>4. CASE ConnectFails
  BY <1>4, <1>alive, FailedExit DEF ConnectFails
<1>5. ASSUME NEW c \in Connections,
             Request(c) \/ Abandon(c) \/ Answer(c) \/ QueryFails(c) \/ CloseIdle(c) \/ EntryEnds(c)
      PROVE  ExitInv'
  BY <1>5, <1>alive DEF Request, Abandon, Answer, QueryFails, CloseIdle, EntryEnds, Alive
<1>6. ASSUME NEW t \in Triggers, NEW k \in Kinds, Receive(t, k) PROVE ExitInv'
  BY <1>6, <1>alive, ShutdownExit DEF Receive, Runs
<1>7. ASSUME NEW t \in Triggers, EndPool(t) PROVE ExitInv'
  BY <1>7, <1>alive, ShutdownExit DEF EndPool, Runs
<1>8. CASE Closed
  <2>1. Busy = {} /\ exit = "alive"
    BY <1>8 DEF Closed, Drained, Busy
  <2> QED
    BY <1>8, <1>alive, <2>1, FailedExit DEF Closed
<1>9. ASSUME NEW r \in Runs, Disconnected(r) PROVE ExitInv'
  BY <1>9, <1>alive DEF Disconnected, Alive
<1>10. ASSUME NEW r \in Runs, RedisQuit(r) PROVE ExitInv'
  <2>1. /\ Busy = {} /\ \A s \in Runs \ {r} : runs[s] = "none"
        /\ UNCHANGED <<runs, adrift>> /\ Exit("0", "graceful")
    BY <1>10, PastClose DEF RedisQuit
  <2> QED
    BY <2>1 DEF Exit, ExitInv, CleanExit, CutExplained
<1>11. ASSUME NEW r \in Runs, ShutdownFails(r) \/ ForcedExit(r) PROVE ExitInv'
  BY <1>11, PastClose, FailedExit DEF ShutdownFails, ForcedExit
<1> QED
  BY <1>1, <1>2, <1>3, <1>4, <1>5, <1>6, <1>7, <1>8, <1>9, <1>10, <1>11 DEF Next

LEMMA ServerStep == ServerInv /\ [Next]_vars => ServerInv'
BY TypeStep, FreshStep, PhaseStep, DatabaseStep, ExitStep DEF ServerInv

(* Exit code 0 is left to a process that was told to stop once and has *)
(* answered every request that still had a connection.                 *)
THEOREM CleanExitCorrect == Spec => []CleanExit
<1>1. ServerInv => CleanExit
  BY DEF ServerInv, ExitInv
<1> QED
  BY <1>1, ServerInit, ServerStep, PTL DEF Spec

(* However often the process is told to stop, connected requests are cut only *)
(* by the timer, an error of the socket, or for want of a database.           *)
THEOREM CutCorrect == Spec => []CutExplained
<1>1. ServerInv => CutExplained
  BY DEF ServerInv, ExitInv
<1> QED
  BY <1>1, ServerInit, ServerStep, PTL DEF Spec

(* The pool is ended only beside a closing server, by SIGTERM or SIGINT. *)
THEOREM DatabaseCorrect == Spec => []DatabaseLostOnSignal
<1>1. ServerInv => DatabaseLostOnSignal
  BY DEF ServerInv, DatabaseInv, DatabaseLostOnSignal
<1> QED
  BY <1>1, ServerInit, ServerStep, PTL DEF Spec

-----------------------------------------------------------------------------
(* Draining.  The phases of Draining are those of the server until the       *)
(* process exits.  Phases shows that no connection is open in a phase that   *)
(* lets none leave, and that code 0 is given by a process whose server has   *)
(* closed.                                                                   *)

LEMMA DrainingInit == Init => Drain!Init
BY DEF Init, Drain!Init, Phase, Open

(* While the process lives, a step that ends some connections. *)
LEMMA SomeLeave ==
  ASSUME TypeOK, Phases, exit = "alive", UNCHANGED <<server, exit>>, Open' \subseteq Open
  PROVE  Drain!Next \/ UNCHANGED <<Phase, Open>>
<1>1. Phase' = Phase
  BY DEF Phase
<1>2. CASE server \in {"none", "closed"}
  BY <1>1, <1>2 DEF Phases, Open
<1>3. CASE server \in {"listening", "closing"}
  <2>1. Phase \in {"serving", "draining"}
    BY <1>3 DEF Phase
  <2>2. Open \ Open' \in SUBSET Connections /\ Open' = Open \ (Open \ Open')
    BY DEF Open
  <2>3. Drain!Leave(Open \ Open')
    BY <1>1, <2>1, <2>2 DEF Drain!Leave
  <2> QED
    BY <2>2, <2>3 DEF Drain!Next
<1> QED
  BY <1>2, <1>3 DEF TypeOK

(* An exit with an error is a failure in whatever phase the process is. *)
LEMMA SomeFail ==
  ASSUME exit = "alive", exit' = "1", UNCHANGED connections, TypeOK
  PROVE  Drain!Next
<1>1. Phase \notin {"stopped", "failed"} /\ Phase' = "failed" /\ Open' = Open
  BY DEF Phase, Open, TypeOK
<1> QED
  BY <1>1 DEF Drain!Next, Drain!Fail

(* The first call of gracefulShutdown starts the draining; of any other, only *)
(* one that finds the server closed is a step: a failure.                     *)
LEMMA ShutdownDrains ==
  ASSUME TypeOK, Phases, exit = "alive", NEW r \in Runs, Shutdown(r)
  PROVE  Drain!Next \/ UNCHANGED <<Phase, Open>>
<1>1. CASE server = "listening"
  <2>1. server' = "closing" /\ exit' = exit /\ CloseIdleConnections
    BY <1>1 DEF Shutdown
  <2>2. Phase = "serving" /\ Phase' = "draining"
    BY <1>1, <2>1 DEF Phase
  <2>3. Open \ Open' \in SUBSET Connections /\ Open' = Open \ (Open \ Open')
    BY <2>1 DEF CloseIdleConnections, Open
  <2> QED
    BY <2>2, <2>3 DEF Drain!Next, Drain!Drain
<1>2. CASE server = "closing"
  <2>1. UNCHANGED <<server, exit>> /\ CloseIdleConnections
    BY <1>2 DEF Shutdown
  <2>2. Open' \subseteq Open
    BY <2>1 DEF CloseIdleConnections, Open
  <2> QED
    BY <2>1, <2>2, SomeLeave
<1>3. CASE server = "closed"
  BY <1>3, SomeFail DEF Shutdown, Exit
<1> QED
  BY <1>1, <1>2, <1>3 DEF Shutdown

LEMMA RequestAccepted ==
  ASSUME TypeOK, Phases, NEW c \in Connections, Request(c)
  PROVE  Drain!Next \/ UNCHANGED <<Phase, Open>>
<1>1. /\ UNCHANGED <<server, exit>> /\ exit = "alive"
      /\ connections' = [connections EXCEPT ![c] = "busy"]
  BY DEF Request, Alive, Background
<1>2. Open' = Open \cup {c} /\ Phase' = Phase
  BY <1>1 DEF Open, Phase, TypeOK
<1>3. CASE connections[c] = "idle"
  BY <1>2, <1>3 DEF Open
<1>4. CASE server = "listening"
  <2>1. Drain!Accept(c)
    BY <1>1, <1>2, <1>4 DEF Drain!Accept, Phase
  <2> QED
    BY <2>1 DEF Drain!Next
<1> QED
  BY <1>3, <1>4 DEF Request

LEMMA DrainingStep == ServerInv /\ [Next]_vars => [Drain!Next]_<<Phase, Open>>
<1> SUFFICES ASSUME TypeOK, Phases, [Next]_vars PROVE Drain!Next \/ UNCHANGED <<Phase, Open>>
  BY DEF ServerInv
<1>same. ASSUME UNCHANGED <<server, exit, connections>> PROVE UNCHANGED <<Phase, Open>>
  BY <1>same DEF Phase, Open
<1>1. CASE UNCHANGED vars
  BY <1>1, <1>same DEF vars, work
<1>2. CASE Start
  BY <1>2 DEF Start, work, Drain!Next, Drain!Serve, Phase, Open
<1>3. CASE StartFails \/ SocketFails
  BY <1>3, SomeFail DEF StartFails, SocketFails, Exit
<1>4. CASE Connected
  BY <1>4, <1>same DEF Connected, Alive
<1>5. CASE ConnectFails
  BY <1>5, <1>same, SomeFail DEF ConnectFails, Exit
<1>6. ASSUME NEW c \in Connections, Request(c) PROVE Drain!Next \/ UNCHANGED <<Phase, Open>>
  BY <1>6, RequestAccepted
<1>7. ASSUME NEW c \in Connections,
             Abandon(c) \/ Answer(c) \/ QueryFails(c) \/ CloseIdle(c) \/ EntryEnds(c)
      PROVE  Drain!Next \/ UNCHANGED <<Phase, Open>>
  <2>1. exit = "alive" /\ UNCHANGED <<server, exit>>
    BY <1>7 DEF Abandon, Answer, QueryFails, CloseIdle, EntryEnds, Alive, Background
  <2>2. Open' \subseteq Open
    BY <1>7 DEF Abandon, Answer, QueryFails, CloseIdle, EntryEnds, Ends, Open, TypeOK
  <2> QED
    BY <2>1, <2>2, SomeLeave
<1>8. ASSUME NEW t \in Triggers, NEW k \in Kinds, Receive(t, k)
      PROVE  Drain!Next \/ UNCHANGED <<Phase, Open>>
  BY <1>8, <1>same, ShutdownDrains DEF Receive, Runs
<1>9. ASSUME NEW t \in Triggers, EndPool(t) PROVE Drain!Next \/ UNCHANGED <<Phase, Open>>
  BY <1>9, <1>same, ShutdownDrains DEF EndPool, Runs
<1>10. CASE Closed
  <2>1. /\ exit = "alive" /\ server = "closing" /\ server' = "closed"
        /\ connections' = connections /\ Open = {}
    BY <1>10 DEF Closed, Drained, Open
  <2>2. exit' = exit \/ exit' = "1"
    BY <1>10 DEF Closed, Exit
  <2>3. CASE exit' = exit
    <3>1. Phase = "draining" /\ Phase' = "drained" /\ Open' = Open
      BY <2>1, <2>3 DEF Phase, Open
    <3> QED
      BY <2>1, <3>1 DEF Drain!Next, Drain!Drained
  <2>4. CASE exit' = "1"
    BY <2>1, <2>4, SomeFail
  <2> QED
    BY <2>2, <2>3, <2>4
<1>11. ASSUME NEW r \in Runs, Disconnected(r) PROVE UNCHANGED <<Phase, Open>>
  BY <1>11, <1>same DEF Disconnected, Alive
<1>12. ASSUME NEW r \in Runs, RedisQuit(r) PROVE Drain!Next
  <2>1. /\ exit = "alive" /\ exit' = "0" /\ UNCHANGED <<server, connections>>
        /\ runs[r] = "quitting"
    BY <1>12 DEF RedisQuit, Exit
  <2>2. server = "closed"
    BY <2>1 DEF Phases, Leads, TypeOK
  <2>3. Phase = "drained" /\ Phase' = "stopped" /\ Open' = Open
    BY <2>1, <2>2 DEF Phase, Open
  <2> QED
    BY <2>3 DEF Drain!Next, Drain!Stop
<1>13. ASSUME NEW r \in Runs, ShutdownFails(r) \/ ForcedExit(r) PROVE Drain!Next
  BY <1>13, SomeFail DEF ShutdownFails, ForcedExit, Exit
<1> QED
  BY <1>1, <1>2, <1>3, <1>4, <1>5, <1>6, <1>7, <1>8, <1>9, <1>10, <1>11, <1>12, <1>13 DEF Next

(* For any connections, signals and errors, the process drains before it   *)
(* stops in good order, and every other end of it is a failure.            *)
THEOREM DrainingCorrect == Spec => ImplementsDraining
BY ServerInit, ServerStep, DrainingInit, DrainingStep, PTL
DEF Spec, ImplementsDraining, Drain!Spec
=============================================================================
