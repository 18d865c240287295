---------------------------- MODULE CacheHealth -----------------------------
(***************************************************************************)
(* The two locks a request and the health check share in app/api/core/     *)
(* cache.py: TieredCacheManager._metrics_lock and L2RedisClient._init_lock.*)
(*                                                                         *)
(* A request takes the metrics lock for a moment at every counter, and the *)
(* init lock while the Redis client is built.  health() holds the metrics  *)
(* lock while it pings Redis, and the ping may have to build the client.   *)
(* A failed build counts an error, under the init lock.                    *)
(***************************************************************************)
EXTENDS Integers

CONSTANTS
    Threads,        \* request threads
    NoThread,
    Deployments     \* the deployments considered: whether ConnectionPool.from_url
                    \* accepts REDIS_URL, and the threads that serve health checks

ASSUME NoThreadAssumption == NoThread \notin Threads
ASSUME DeploymentAssumption ==
    Deployments \subseteq [parses : BOOLEAN, monitors : SUBSET Threads]

VARIABLES
    deployed,   \* the deployment at hand
    metrics,    \* the thread that holds _metrics_lock for a while (health)
    init,       \* the thread that holds _init_lock
    client,     \* whether self._client is set
    builds,     \* history: how many pools have been built
    doing

healthVars == <<deployed, metrics, init, client, builds, doing>>

PC == {"idle", "countL1", "attempt", "getClient", "initLock", "build", "reportBuild",
       "command", "reportCommand", "countL2", "health"}

\* Types of the two locks, of the client and of the threads.
HealthTypeOK ==
    /\ deployed \in Deployments
    /\ metrics \in Threads \cup {NoThread}
    /\ init \in Threads \cup {NoThread}
    /\ client \in BOOLEAN
    /\ builds \in Nat
    /\ doing \in [Threads -> PC]
    /\ \A t \in Threads : init = t <=> doing[t] \in {"build", "reportBuild"}

HealthInit ==
    /\ deployed \in Deployments
    /\ metrics = NoThread
    /\ init = NoThread
    /\ client = FALSE
    /\ builds = 0
    /\ doing = [t \in Threads |-> "idle"]

HealthGoto(t, to) == doing' = [doing EXCEPT ![t] = to]

\* with self._metrics_lock: one counter or one latency.
Count(t, to) ==
    /\ metrics = NoThread
    /\ HealthGoto(t, to)
    /\ UNCHANGED <<metrics, client, builds>>

(***************************************************************************)
(* A request: _read_l1, then L2RedisClient.get behind the breaker          *)
(***************************************************************************)
Request(t) ==
    /\ doing[t] = "idle"
    /\ HealthGoto(t, "countL1")
    /\ UNCHANGED <<metrics, init, client, builds>>

CountL1(t) == doing[t] = "countL1" /\ Count(t, "attempt") /\ UNCHANGED init

\* A hit in L1, the breaker's refusal or its permission.
Attempt(t) ==
    /\ doing[t] = "attempt"
    /\ \E to \in {"idle", "countL2", "getClient"} : HealthGoto(t, to)
    /\ UNCHANGED <<metrics, init, client, builds>>

CountL2(t) == doing[t] = "countL2" /\ Count(t, "idle") /\ UNCHANGED init

(***************************************************************************)
(* health(), and ping() within it: not behind the breaker                  *)
(***************************************************************************)
AskHealth(t) ==
    /\ t \in deployed.monitors
    /\ doing[t] = "idle"
    /\ HealthGoto(t, "health")
    /\ UNCHANGED <<metrics, init, client, builds>>

CheckHealth(t) ==
    /\ doing[t] = "health"
    /\ metrics = NoThread
    /\ metrics' = t
    /\ HealthGoto(t, "getClient")
    /\ UNCHANGED <<init, client, builds>>

\* After the Redis command, or without one: health lets go of the metrics lock,
\* a request goes on to count its latency.
AfterCommand(t) ==
    IF metrics = t
      THEN metrics' = NoThread /\ HealthGoto(t, "idle")
      ELSE UNCHANGED metrics /\ HealthGoto(t, "countL2")

(***************************************************************************)
(* _get_client: double-checked creation under _init_lock                   *)
(***************************************************************************)
GetClient(t) ==
    /\ doing[t] = "getClient"
    /\ HealthGoto(t, IF client THEN "command" ELSE "initLock")
    /\ UNCHANGED <<metrics, init, client, builds>>

InitLock(t) ==
    /\ doing[t] = "initLock"
    /\ init = NoThread
    /\ init' = t
    /\ HealthGoto(t, "build")
    /\ UNCHANGED <<metrics, client, builds>>

\* Mutant of Build: no second look at _client under the lock.
BuildUnchecked(t) ==
    /\ doing[t] = "build"
    /\ IF deployed.parses
         THEN /\ client' = TRUE
              /\ builds' = builds + 1
              /\ init' = NoThread
              /\ HealthGoto(t, "command")
         ELSE HealthGoto(t, "reportBuild") /\ UNCHANGED <<init, client, builds>>
    /\ UNCHANGED metrics

Build(t) ==
    /\ doing[t] = "build"
    /\ IF client \/ deployed.parses
         THEN /\ client' = TRUE
              /\ builds' = builds + (IF client THEN 0 ELSE 1)
              /\ init' = NoThread
              /\ HealthGoto(t, "command")
         ELSE HealthGoto(t, "reportBuild") /\ UNCHANGED <<init, client, builds>>
    /\ UNCHANGED metrics

\* on_error("cache_l2_error") from the except clause, still under _init_lock.
\* A thread in health waits here for the lock it holds.
ReportBuild(t) == doing[t] = "reportBuild" /\ Count(t, "countL2") /\ init' = NoThread

(***************************************************************************)
(* The Redis command                                                       *)
(***************************************************************************)

\* Mutant of Command: a failed command is tried again without limit.
CommandRetries(t) ==
    /\ doing[t] = "command"
    /\ \/ AfterCommand(t)
       \/ UNCHANGED metrics /\ HealthGoto(t, "getClient")
    /\ UNCHANGED <<init, client, builds>>

\* get counts an error or a timeout; ping does not.
Command(t) ==
    /\ doing[t] = "command"
    /\ \/ AfterCommand(t)
       \/ metrics # t /\ UNCHANGED metrics /\ HealthGoto(t, "reportCommand")
    /\ UNCHANGED <<init, client, builds>>

ReportCommand(t) == doing[t] = "reportCommand" /\ Count(t, "countL2") /\ UNCHANGED init

Advance(t) ==
    \/ Attempt(t) \/ GetClient(t) \/ Build(t) \/ Command(t)

Counting(t) ==
    \/ CountL1(t) \/ CountL2(t) \/ ReportBuild(t) \/ ReportCommand(t)

HealthNext ==
    \E t \in Threads :
        /\ Request(t) \/ AskHealth(t) \/ CheckHealth(t) \/ InitLock(t) \/ Advance(t) \/ Counting(t)
        /\ UNCHANGED deployed

HealthSpec == HealthInit /\ [][HealthNext]_healthVars

\* Threads run and Redis commands end (socket timeouts); a thread that finds a
\* lock free again and again gets it.
HealthFairness ==
    \A t \in Threads : /\ WF_healthVars(Advance(t) /\ UNCHANGED deployed)
                       /\ SF_healthVars(InitLock(t) /\ UNCHANGED deployed)
                       /\ SF_healthVars(Counting(t) /\ UNCHANGED deployed)
                       /\ SF_healthVars(CheckHealth(t) /\ UNCHANGED deployed)

HealthFairSpec == HealthSpec /\ HealthFairness

(***************************************************************************)
(* Properties                                                              *)
(***************************************************************************)

(* One pool for the process: threads that race to build the client build   *)
(* it once, so REDIS_MAX_CONNECTIONS bounds the connections in fact.       *)
OnePool == builds <= 1

(* The client's lazy construction is sound: locks, threads and metrics     *)
(* keep their types, and the racing first users of a process build one     *)
(* pool between them.                                                      *)
HealthSound == HealthTypeOK /\ OnePool

(* No thread waits for ever for a lock: every request and every health     *)
(* check ends, with Redis up, failing or unreachable.                      *)
(* "If Redis is down, misconfigured, or unreachable, requests succeed      *)
(* seamlessly via L1 and the producer" (docs/ARCHITECTURE.md:44).          *)
EveryoneAnswered == \A t \in Threads : doing[t] # "idle" ~> doing[t] = "idle"
=============================================================================
