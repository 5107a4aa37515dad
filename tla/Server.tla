------------------------------- MODULE Server -------------------------------
(***************************************************************************)
(* The life of the server process: start-up with its two checks of the     *)
(* environment, connections and their requests, and the shutdown that      *)
(* signals and stray errors start, any number of times.                    *)
(*                                                                         *)
(* Start-up runs to the call of listen without returning to the event      *)
(* loop, so the process is asked to stop only once it listens, and the     *)
(* shutdown's case of a missing server never comes up.  A shutdown is      *)
(*                                                                         *)
(*   Shutdown --> "closing" --Closed--> "disconnecting" --Disconnected-->  *)
(*   "quitting" --RedisQuit--> exit 0                                      *)
(*                                                                         *)
(* beside the handlers of config/database.ts, which disconnect at once.    *)
(* Node, Prisma and pg are modelled as the code depends on them: closing a *)
(* server again reports an error, at the server's close; ending a pool     *)
(* again rejects, at once; a closing server closes idle connections only,  *)
(* and waits for connections, not for the handlers of their requests: a    *)
(* request whose client goes away, or that takes longer than the server's  *)
(* 30 seconds, loses its connection and runs on.                           *)
(***************************************************************************)
EXTENDS Naturals, FiniteSets

CONSTANTS Connections,  \* client connections
          Triggers      \* bound: signals and errors that reach the process

VARIABLES config,       \* what matters of the environment
          server,       \* "none", "listening", "closing" or "closed"
          connections,  \* each connection: "closed", "idle" or "busy"
          adrift,       \* connections closed under their request, which runs on
          entries,      \* the audit entry the response hook writes
          database,     \* the connection attempt made at import
          pool,         \* the pg pool: "open" or "ended"
          kind,         \* what each trigger is
          handlers,     \* config/database.ts: the handler of each trigger
          runs,         \* the calls of gracefulShutdown
          exit,         \* "alive", or the exit code
          reason,       \* history: why the process exited
          cut,          \* history: those whose request the exit left unfinished
          failed        \* history: those whose request found no database

work == <<connections, adrift, entries, cut, failed>>
vars == <<config, server, work, database, pool, kind, handlers, runs, exit, reason>>

(* Whichever of JWT_SECRET and ENCRYPTION_KEY is shorter is the secret. *)
Configs == [url : {"missing", "known", "other"}, secret : {"missing", "short", "long"},
            internalKey : BOOLEAN, production : BOOLEAN]

(* The signals server.ts listens to, less one: a bug. *)
WithoutInterrupt == {"SIGTERM", "SIGQUIT"}

(* The signals server.ts listens to. *)
ShutdownSignals == {"SIGTERM", "SIGINT", "SIGQUIT"}

(* The signals config/database.ts listens to. *)
DisconnectSignals == {"SIGTERM", "SIGINT"}

Kinds == ShutdownSignals \cup DisconnectSignals \cup {"error"}

(* A trigger runs gracefulShutdown, and again when its handler's pool.end *)
(* rejects.                                                               *)
Runs == Triggers \X {"trigger", "pool"}

Init == /\ config      \in Configs
        /\ server      = "none"
        /\ connections = [c \in Connections |-> "closed"]
        /\ adrift      = {}
        /\ entries     = [c \in Connections |-> "none"]
        /\ database    = "connecting"
        /\ pool        = "open"
        /\ kind        = [t \in Triggers |-> "none"]
        /\ handlers    = [t \in Triggers |-> "none"]
        /\ runs        = [r \in Runs |-> "none"]
        /\ exit        = "alive"
        /\ reason      = "none"
        /\ cut         = {}
        /\ failed      = {}

Busy == {c \in Connections : connections[c] = "busy"}

(* process.exit: requests in progress are cut, entries being written lost. *)
Exit(code, why) ==
  /\ exit'    = code
  /\ reason'  = why
  /\ cut'     = Busy \cup adrift
  /\ entries' = [c \in Connections |-> IF entries[c] = "writing" THEN "lost" ELSE entries[c]]

Alive == exit = "alive" /\ UNCHANGED <<exit, reason, cut>>

-----------------------------------------------------------------------------
(* Start-up.                                                               *)

(* env.ts: the schema holds in every environment. *)
Parsed(c) == c.url # "missing" /\ c.secret = "long" /\ c.internalKey

(* validateEnvironment: a short secret is only warned of outside production. *)
Validated(c) == /\ c.url = "known"
                /\ c.secret # "missing"
                /\ c.internalKey
                /\ c.production => c.secret = "long"

Start == /\ exit = "alive"
         /\ server = "none"
         /\ Parsed(config)
         /\ Validated(config)
         /\ server' = "listening"
         /\ UNCHANGED <<config, work, database, pool, kind, handlers, runs, exit, reason>>

(* A check fails, or the app or its port cannot be had. *)
StartFails == /\ exit = "alive"
              /\ server = "none"
              /\ Exit("1", "startup")
              /\ UNCHANGED <<config, server, connections, adrift, failed, database, pool, kind,
                             handlers, runs>>

Connected == /\ Alive
             /\ server # "none"
             /\ database = "connecting"
             /\ database' = "connected"
             /\ UNCHANGED <<config, server, connections, adrift, entries, failed, pool, kind,
                            handlers, runs>>

(* The first connection to the database fails, which only production minds. *)
ConnectFails == /\ exit = "alive"
                /\ server # "none"
                /\ database = "connecting"
                /\ database' = "failed"
                /\ IF config.production THEN Exit("1", "connect")
                                        ELSE UNCHANGED <<exit, reason, cut, entries>>
                /\ UNCHANGED <<config, server, connections, adrift, failed, pool, kind, handlers,
                               runs>>

(* The listening socket reports an error: its handler outlives the start. *)
SocketFails == /\ exit = "alive"
               /\ server = "listening"
               /\ Exit("1", "socket")
               /\ UNCHANGED <<config, server, connections, adrift, failed, database, pool, kind,
                              handlers, runs>>

-----------------------------------------------------------------------------
(* Connections and requests.                                               *)

Background == <<config, server, database, pool, kind, handlers, runs>>

(* A listening server accepts connections; one that was kept alive may      *)
(* carry another request at any time.  A connection is not opened again     *)
(* while its last request is adrift: the bound on requests.                 *)
Request(c) ==
  /\ Alive
  /\ \/ connections[c] = "closed" /\ server = "listening" /\ c \notin adrift
     \/ connections[c] = "idle"
  /\ connections' = [connections EXCEPT ![c] = "busy"]
  /\ UNCHANGED <<adrift, entries, failed, Background>>

(* The client goes away in the middle of its request, or server.timeout passes. *)
Abandon(c) ==
  /\ Alive
  /\ connections[c] = "busy"
  /\ connections' = [connections EXCEPT ![c] = "closed"]
  /\ adrift' = adrift \cup {c}
  /\ UNCHANGED <<entries, failed, Background>>

(* The handler of a request ends, and so does the response, if there is still *)
(* a connection for it.                                                       *)
Ends(c) ==
  \/ /\ connections[c] = "busy"
     /\ \E next \in {"idle", "closed"} : connections' = [connections EXCEPT ![c] = next]
     /\ UNCHANGED adrift
  \/ /\ c \in adrift
     /\ adrift' = adrift \ {c}
     /\ UNCHANGED connections

(* The response of a write, even one that nobody receives, starts its audit *)
(* entry, which nobody awaits.  A connection makes one write: the bound on  *)
(* entries.                                                                 *)
Answer(c) ==
  /\ Alive
  /\ Ends(c)
  /\ \/ UNCHANGED entries
     \/ entries[c] = "none" /\ entries' = [entries EXCEPT ![c] = "writing"]
  /\ UNCHANGED <<failed, Background>>

(* A query of a request meets the ended pool: the request is answered with 500. *)
QueryFails(c) ==
  /\ Alive
  /\ pool = "ended"
  /\ Ends(c)
  /\ failed' = failed \cup {c}
  /\ \/ UNCHANGED entries
     \/ entries[c] = "none" /\ entries' = [entries EXCEPT ![c] = "writing"]
  /\ UNCHANGED Background

(* The client, or the server's keep-alive timeout, closes an idle connection. *)
CloseIdle(c) ==
  /\ Alive
  /\ connections[c] = "idle"
  /\ connections' = [connections EXCEPT ![c] = "closed"]
  /\ UNCHANGED <<adrift, entries, failed, Background>>

(* The entry is stored, or meets the ended pool. *)
EntryEnds(c) ==
  /\ Alive
  /\ entries[c] = "writing"
  /\ \/ entries' = [entries EXCEPT ![c] = "stored"]
     \/ pool = "ended" /\ entries' = [entries EXCEPT ![c] = "lost"]
  /\ UNCHANGED <<connections, adrift, failed, Background>>

-----------------------------------------------------------------------------
(* Shutdown.                                                               *)

CloseIdleConnections ==
  connections' = [c \in Connections |-> IF connections[c] = "idle" THEN "closed"
                                                                 ELSE connections[c]]

(* Bug: a second shutdown does not wait for the close to report its error. *)
RefusedAtOnce(r) ==
  \/ /\ server = "listening"
     /\ server' = "closing"
     /\ runs'   = [runs EXCEPT ![r] = "closing"]
     /\ CloseIdleConnections
     /\ UNCHANGED <<exit, reason, cut, entries>>
  \/ /\ server \in {"closing", "closed"}
     /\ Exit("1", "refused")
     /\ runs' = [runs EXCEPT ![r] = "refused"]
     /\ UNCHANGED <<server, connections>>

(* Bug: a second shutdown is ignored. *)
IgnoredWhileClosing(r) ==
  /\ IF server = "listening"
     THEN server' = "closing" /\ runs' = [runs EXCEPT ![r] = "closing"] /\ CloseIdleConnections
     ELSE UNCHANGED <<server, connections>> /\ runs' = [runs EXCEPT ![r] = "ignored"]
  /\ UNCHANGED <<exit, reason, cut, entries>>

(* gracefulShutdown up to its first await.  The first call closes the server. *)
(* While the server drains, a further call waits for the same close, and will *)
(* be refused then; when it has drained, the call is refused at once.         *)
Shutdown(r) ==
  \/ /\ server = "listening"
     /\ server' = "closing"
     /\ runs'   = [runs EXCEPT ![r] = "closing"]
     /\ CloseIdleConnections
     /\ UNCHANGED <<exit, reason, cut, entries>>
  \/ /\ server = "closing"
     /\ runs' = [runs EXCEPT ![r] = "refused"]
     /\ CloseIdleConnections
     /\ UNCHANGED <<server, exit, reason, cut, entries>>
  \/ /\ server = "closed"
     /\ runs' = [runs EXCEPT ![r] = "refused"]
     /\ Exit("1", "refused")
     /\ UNCHANGED <<server, connections>>

(* A signal, an uncaught exception or an unhandled rejection. *)
Receive(t, k) ==
  /\ exit = "alive"
  /\ server # "none"
  /\ kind[t] = "none"
  /\ kind'     = [kind EXCEPT ![t] = k]
  /\ handlers' = [handlers EXCEPT ![t] = IF k \in DisconnectSignals THEN "disconnecting" ELSE @]
  /\ IF k \in ShutdownSignals \cup {"error"}
     THEN Shutdown(<<t, "trigger">>)
     ELSE UNCHANGED <<server, runs, connections, exit, reason, cut, entries>>
  /\ UNCHANGED <<config, adrift, failed, database, pool>>

(* The database module's handler has disconnected and ends the pool.  Ending *)
(* it again is a rejection nobody handles.                                   *)
EndPool(t) ==
  /\ exit = "alive"
  /\ handlers[t] = "disconnecting"
  /\ handlers' = [handlers EXCEPT ![t] = "done"]
  /\ pool'     = "ended"
  /\ IF pool = "open" THEN UNCHANGED <<server, runs, connections, exit, reason, cut, entries>>
                      ELSE Shutdown(<<t, "pool">>)
  /\ UNCHANGED <<config, adrift, failed, database, kind>>

(* Bug: the server's close is not waited for. *)
Unawaited == server = "closing"

(* The server reports its close when no connection is left. *)
Drained == \A c \in Connections : connections[c] = "closed"

(* The last connection is closed.  The shutdown that closed the server goes  *)
(* on, unless another one waits: its error ends the process in the same turn. *)
Closed ==
  /\ exit = "alive"
  /\ server = "closing"
  /\ Drained
  /\ server' = "closed"
  /\ IF \E r \in Runs : runs[r] = "refused"
     THEN Exit("1", "refused") /\ UNCHANGED runs
     ELSE /\ runs' = [r \in Runs |-> IF runs[r] = "closing" THEN "disconnecting" ELSE runs[r]]
          /\ UNCHANGED <<exit, reason, cut, entries>>
  /\ UNCHANGED <<config, connections, adrift, failed, database, pool, kind, handlers>>

Disconnected(r) ==
  /\ Alive
  /\ runs[r] = "disconnecting"
  /\ runs' = [runs EXCEPT ![r] = "quitting"]
  /\ UNCHANGED <<config, server, connections, adrift, entries, failed, database, pool, kind,
                 handlers>>

RedisQuit(r) ==
  /\ exit = "alive"
  /\ runs[r] = "quitting"
  /\ Exit("0", "graceful")
  /\ UNCHANGED <<config, server, connections, adrift, failed, database, pool, kind, handlers, runs>>

(* Disconnecting or quitting rejects. *)
ShutdownFails(r) ==
  /\ exit = "alive"
  /\ runs[r] \in {"disconnecting", "quitting"}
  /\ Exit("1", "failed")
  /\ UNCHANGED <<config, server, connections, adrift, failed, database, pool, kind, handlers, runs>>

(* Bug: the timer is set once the server is closed. *)
TimerAfterClose(r) ==
  /\ exit = "alive"
  /\ runs[r] \in {"disconnecting", "quitting"}
  /\ Exit("1", "timer")
  /\ UNCHANGED <<config, server, connections, adrift, failed, database, pool, kind, handlers, runs>>

(* The ten seconds of a shutdown are over. *)
ForcedExit(r) ==
  /\ exit = "alive"
  /\ runs[r] # "none"
  /\ Exit("1", "timer")
  /\ UNCHANGED <<config, server, connections, adrift, failed, database, pool, kind, handlers, runs>>

Next == \/ Start \/ StartFails \/ Connected \/ ConnectFails \/ SocketFails
        \/ \E c \in Connections : \/ Request(c) \/ Abandon(c) \/ Answer(c) \/ QueryFails(c)
                                  \/ CloseIdle(c) \/ EntryEnds(c)
        \/ \E t \in Triggers, k \in Kinds : Receive(t, k)
        \/ \E t \in Triggers : EndPool(t)
        \/ Closed
        \/ \E r \in Runs : Disconnected(r) \/ RedisQuit(r) \/ ShutdownFails(r) \/ ForcedExit(r)

(* Only the timer is owed: a request may take for ever, a keep-alive       *)
(* connection stay open, a reply of the database or of Redis never come.   *)
Spec == Init /\ [][Next]_vars /\ \A r \in Runs : WF_vars(ForcedExit(r))

-----------------------------------------------------------------------------
(* Properties.                                                             *)

TypeOK ==
  /\ config \in Configs
  /\ server \in {"none", "listening", "closing", "closed"}
  /\ connections \in [Connections -> {"closed", "idle", "busy"}]
  /\ adrift \subseteq Connections
  /\ entries \in [Connections -> {"none", "writing", "stored", "lost"}]
  /\ database \in {"connecting", "connected", "failed"}
  /\ pool \in {"open", "ended"}
  /\ kind \in [Triggers -> Kinds \cup {"none"}]
  /\ handlers \in [Triggers -> {"none", "disconnecting", "done"}]
  /\ runs \in [Runs -> {"none", "closing", "refused", "disconnecting", "quitting"}]
  /\ exit \in {"alive", "0", "1"}
  /\ reason \in {"none", "startup", "connect", "socket", "graceful", "refused", "failed", "timer"}
  /\ cut \subseteq Connections
  /\ failed \subseteq Connections

(* Exit code 0 means that the process was told to stop once (a second signal, *)
(* or an error while the server drains, makes the orderly end a failed one)   *)
(* and that every request was answered, unless its connection was closed      *)
(* before: by its client, or by the server's 30 seconds.  Such a request may  *)
(* still be running when the process ends.                                    *)
CleanExit == exit = "0" => /\ cut \subseteq adrift
                           /\ \E r \in Runs : \A s \in Runs \ {r} : runs[s] = "none"

(* A second shutdown never cuts a request that the first one waits for: only *)
(* the ten-second timer does, an error of the listening socket, or           *)
(* production's first contact with a database that is not there.             *)
CutExplained == cut \subseteq adrift \/ reason \in {"timer", "socket", "connect"}

(* A request finds the database gone only after SIGTERM or SIGINT, and never *)
(* on a server that still takes new connections.                             *)
DatabaseLostOnSignal ==
  failed # {} => /\ server \in {"closing", "closed"}
                 /\ \E t \in Triggers : kind[t] \in {"SIGTERM", "SIGINT"}

(* A process told to stop exits, whatever its connections, its database and  *)
(* Redis do, and however often it is told.                                   *)
ShutdownEnds == \A t \in Triggers : kind[t] # "none" ~> exit # "alive"

(* Signals and errors in any number and order make a draining shutdown: once *)
(* told to stop, the server takes no new connection; code 0 follows only     *)
(* when the last one is gone; and an exit for any other reason, in any       *)
(* phase, is a failed one.                                                   *)
Phase == CASE exit = "0" -> "stopped"
           [] exit = "1" -> "failed"
           [] exit = "alive" -> CASE server = "none" -> "starting"
                                  [] server = "listening" -> "serving"
                                  [] server = "closing" -> "draining"
                                  [] server = "closed" -> "drained"

Open == {c \in Connections : connections[c] # "closed"}

Drain == INSTANCE Draining WITH Clients <- Connections, phase <- Phase, open <- Open

ImplementsDraining == Drain!Spec
=============================================================================
