------------------------------ MODULE Endpoint ------------------------------
(***************************************************************************)
(* One running endpoint (src/daemon/mod.rs, spawn_endpoint and             *)
(* inner_run_endpoint) with its connection tasks (module Connection) and   *)
(* its health verdict (module HealthMaster).                               *)
(*                                                                         *)
(* The supervisor task loops: it waits until the endpoint is healthy,      *)
(* starts a generation, waits until it is unhealthy or told to stop, and   *)
(* signals the generation.  A generation is one accept loop with two fresh *)
(* semaphores; it spawns connection tasks, which outlive it.               *)
(***************************************************************************)
EXTENDS Connection, Sequences

CONSTANTS
    MaxConns,      \* EndpointArgs.maxconns
    ArgIdleConns,  \* EndpointArgs.idleconns as configured
    MAX_IDLE,      \* the cap spawn_endpoint puts on it
    ConsiderHealthyThreshold,
    ConsiderUnhealthyThreshold,
    DnsMayBeEmpty  \* may the resolver answer with no address at all?

ASSUME EndpointAssumption ==
    /\ MaxConns \in Nat
    /\ ArgIdleConns \in Nat
    /\ MAX_IDLE \in Nat
    /\ ConsiderHealthyThreshold \in Nat
    /\ ConsiderUnhealthyThreshold \in Nat
    /\ DnsMayBeEmpty \in BOOLEAN

VARIABLES
    sup,      \* the supervisor task
    stop,     \* the master signal, sent by EndpointMeta::stop
    gen,      \* number of generations started; gen is the current one
    loop,     \* loop[g]: the accept loop of generation g
    checked,  \* a health check is configured; never changes
    healthy, recent   \* the state of HealthMaster

HM == INSTANCE HealthMaster

svars == <<sup, stop, gen, loop, checked, healthy, recent>>
vars == <<cvars, svars>>

Sup == {"await_healthy", "starting", "await_unhealthy", "killing", "done"}

\* "max" and "idle": acquiring that permit; "args": in create_args
Loop == {"none", "max", "idle", "args", "stopped", "panicked"}

IdleConns == IF ArgIdleConns > MAX_IDLE THEN MAX_IDLE ELSE ArgIdleConns

-----------------------------------------------------------------------------

Init ==
    /\ phase = [c \in Conns |-> "free"]
    /\ cgen = [c \in Conns |-> NoGen]
    /\ idle = 0 /\ active = 0
    /\ idlesem = [g \in Gens |-> 0]
    /\ maxsem = [g \in Gens |-> 0]
    /\ signalled = [g \in Gens |-> FALSE]
    /\ piped = {}
    /\ sup = "await_healthy"
    /\ stop = FALSE
    /\ gen = 0
    /\ loop = [g \in Gens |-> "none"]
    /\ checked \in BOOLEAN
    /\ HM!Init

\* EndpointMeta::stop, called by the runner at any time
Stop ==
    /\ ~stop
    /\ stop' = TRUE
    /\ UNCHANGED <<cvars, sup, gen, loop, checked, healthy, recent>>

\* Without a health check await_healthy is ready at once: it is polled
\* before the stop receiver and always wins.
NoHealthCheck ==
    /\ ~checked
    /\ sup = "await_healthy"
    /\ sup' = "starting"
    /\ UNCHANGED <<cvars, stop, gen, loop, checked, healthy, recent>>

\* A check of await_healthy completes with result r.  The guard on gen only
\* bounds how often the endpoint comes back.
AwaitHealthy(r) ==
    /\ checked
    /\ sup = "await_healthy"
    /\ HM!Report(r)
    /\ healthy' => gen < MaxGen
    /\ sup' = IF healthy' THEN "starting" ELSE sup
    /\ UNCHANGED <<cvars, stop, gen, loop, checked>>

\* A new generation inherits what the last one left in its semaphores.
Bug_StartGenerationShared ==
    /\ sup = "starting"
    /\ gen < MaxGen
    /\ gen' = gen + 1
    /\ idlesem' = [idlesem EXCEPT ![gen'] = IF gen = 0 THEN ArgIdleConns ELSE idlesem[gen]]
    /\ maxsem' = [maxsem EXCEPT ![gen'] = IF gen = 0 THEN MaxConns ELSE maxsem[gen]]
    /\ signalled' = [signalled EXCEPT ![gen'] = FALSE]
    /\ loop' = [loop EXCEPT ![gen'] = "max"]
    /\ sup' = "await_unhealthy"
    /\ UNCHANGED <<phase, cgen, idle, active, piped, stop, checked, healthy, recent>>

\* A fresh signal, two fresh semaphores, and the accept loop is spawned.
StartGeneration ==
    /\ sup = "starting"
    /\ gen < MaxGen
    /\ gen' = gen + 1
    /\ idlesem' = [idlesem EXCEPT ![gen'] = IdleConns]
    /\ maxsem' = [maxsem EXCEPT ![gen'] = MaxConns]
    /\ signalled' = [signalled EXCEPT ![gen'] = FALSE]
    /\ loop' = [loop EXCEPT ![gen'] = "max"]
    /\ sup' = "await_unhealthy"
    /\ UNCHANGED <<phase, cgen, idle, active, piped, stop, checked, healthy, recent>>

\* The supervisor goes on only while checks pass, not while the verdict holds.
Bug_AwaitUnhealthyOneFailure(r) ==
    /\ checked
    /\ sup = "await_unhealthy"
    /\ HM!Report(r)
    /\ sup' = IF ~r THEN "killing" ELSE sup
    /\ UNCHANGED <<cvars, stop, gen, loop, checked>>

\* A check of await_unhealthy completes with result r.
AwaitUnhealthy(r) ==
    /\ checked
    /\ sup = "await_unhealthy"
    /\ HM!Report(r)
    /\ sup' = IF healthy' THEN sup ELSE "killing"
    /\ UNCHANGED <<cvars, stop, gen, loop, checked>>

\* send_signal is missing after the endpoint became unhealthy.
Bug_KillWithoutSignal ==
    /\ sup = "killing"
    /\ sup' = "await_healthy"
    /\ UNCHANGED <<cvars, stop, gen, loop, checked, healthy, recent>>

\* healthy_connection_sender.send_signal()
KillGeneration ==
    /\ sup = "killing"
    /\ signalled' = [signalled EXCEPT ![gen] = TRUE]
    /\ sup' = "await_healthy"
    /\ UNCHANGED <<phase, cgen, idle, active, idlesem, maxsem, piped,
                   stop, gen, loop, checked, healthy, recent>>

\* The master receiver fires while no generation is open.
StopWhileUnhealthy ==
    /\ checked
    /\ sup = "await_healthy" /\ stop
    /\ sup' = "done"
    /\ UNCHANGED <<cvars, stop, gen, loop, checked, healthy, recent>>

\* The break leaves the sender of the generation alive.
Bug_BreakKeepsSender ==
    /\ sup = "await_unhealthy" /\ stop
    /\ sup' = "done"
    /\ UNCHANGED <<cvars, stop, gen, loop, checked, healthy, recent>>

\* The master receiver fires while a generation is open: the break drops
\* healthy_connection_sender, and a dropped sender ends wait().
StopWhileHealthy ==
    /\ sup = "await_unhealthy" /\ stop
    /\ signalled' = [signalled EXCEPT ![gen] = TRUE]
    /\ sup' = "done"
    /\ UNCHANGED <<phase, cgen, idle, active, idlesem, maxsem, piped,
                   stop, gen, loop, checked, healthy, recent>>

-----------------------------------------------------------------------------
(* The accept loop of generation g.                                        *)

\* maxsemc.acquire_owned()
AcquireMax(g) ==
    /\ loop[g] = "max" /\ maxsem[g] > 0
    /\ maxsem' = [maxsem EXCEPT ![g] = @ - 1]
    /\ loop' = [loop EXCEPT ![g] = "idle"]
    /\ UNCHANGED <<phase, cgen, idle, active, idlesem, signalled, piped,
                   sup, stop, gen, checked, healthy, recent>>

\* The loop does not wait for an idle permit.
Bug_IdleNotAwaited(g) ==
    /\ loop[g] = "idle"
    /\ idlesem' = [idlesem EXCEPT ![g] = @ - 1]
    /\ loop' = [loop EXCEPT ![g] = "args"]
    /\ UNCHANGED <<phase, cgen, idle, active, maxsem, signalled, piped,
                   sup, stop, gen, checked, healthy, recent>>

\* idlesemc.acquire_owned()
AcquireIdle(g) ==
    /\ loop[g] = "idle" /\ idlesem[g] > 0
    /\ idlesem' = [idlesem EXCEPT ![g] = @ - 1]
    /\ loop' = [loop EXCEPT ![g] = "args"]
    /\ UNCHANGED <<phase, cgen, idle, active, maxsem, signalled, piped,
                   sup, stop, gen, checked, healthy, recent>>

\* create_args resolved an address: the task is spawned with both permits
Spawn(g, c) ==
    /\ loop[g] = "args" /\ phase[c] = "free"
    /\ phase' = [phase EXCEPT ![c] = "spawned"]
    /\ cgen' = [cgen EXCEPT ![c] = g]
    /\ loop' = [loop EXCEPT ![g] = "max"]
    /\ UNCHANGED <<idle, active, idlesem, maxsem, signalled, piped,
                   sup, stop, gen, checked, healthy, recent>>

\* The future of the accept loop is dropped, with the permits it holds.
LeaveLoop(g, as) ==
    /\ loop[g] \in {"max", "idle", "args"}
    /\ loop' = [loop EXCEPT ![g] = as]
    /\ maxsem' = IF loop[g] \in {"idle", "args"}
                 THEN [maxsem EXCEPT ![g] = @ + 1] ELSE maxsem
    /\ idlesem' = IF loop[g] = "args"
                  THEN [idlesem EXCEPT ![g] = @ + 1] ELSE idlesem
    /\ UNCHANGED <<phase, cgen, idle, active, signalled, piped,
                   sup, stop, gen, checked, healthy, recent>>

\* ebbflow_addr: the resolver answered with an empty list, unwrap panics
\* and the task of the accept loop unwinds.
DnsPanic(g) == DnsMayBeEmpty /\ loop[g] = "args" /\ LeaveLoop(g, "panicked")

\* The receiver of the accept loop fires at one of its awaits.
LoopStop(g) == signalled[g] /\ LeaveLoop(g, "stopped")

-----------------------------------------------------------------------------

SupNext ==
    \/ NoHealthCheck \/ StartGeneration \/ KillGeneration
    \/ StopWhileUnhealthy \/ StopWhileHealthy
    \/ \E r \in BOOLEAN : AwaitHealthy(r) \/ AwaitUnhealthy(r)

LoopNext(g) ==
    \/ AcquireMax(g) \/ AcquireIdle(g) \/ DnsPanic(g) \/ LoopStop(g)
    \/ \E c \in Conns : Spawn(g, c)

Next ==
    \/ Stop
    \/ SupNext
    \/ \E g \in Gens : LoopNext(g)
    \/ \E c \in Conns : ConnNext(c) /\ UNCHANGED svars

Spec == Init /\ [][Next]_vars

(* Fairness: tokio runs every ready task, all waits of a connection task   *)
(* but the proxying itself end by a timer, and a select polls the stop     *)
(* receiver at every wake-up, so a sent signal is acted on even if other   *)
(* steps keep happening in between.                                        *)
Fairness ==
    /\ WF_vars(NoHealthCheck \/ StartGeneration \/ KillGeneration)
    /\ SF_vars(StopWhileUnhealthy \/ StopWhileHealthy)
    /\ \A g \in Gens :
         /\ WF_vars(AcquireMax(g) \/ AcquireIdle(g)
                    \/ \E c \in Conns : Spawn(g, c))
         /\ WF_vars(LoopStop(g))
    /\ \A c \in Conns :
         /\ WF_vars(Timed(c) /\ UNCHANGED svars)
         /\ WF_vars(phase[c] # "draining" /\ PipeCloses(c) /\ UNCHANGED svars)

FairSpec == Spec /\ Fairness
-----------------------------------------------------------------------------
(* Properties.                                                             *)

\* Type invariant.
TypeOK ==
    /\ phase \in [Conns -> Phases]
    /\ cgen \in [Conns -> Gens \cup {NoGen}]
    /\ idle \in Int /\ active \in Int
    /\ idlesem \in [Gens -> Nat]
    /\ maxsem \in [Gens -> Nat]
    /\ signalled \in [Gens -> BOOLEAN]
    /\ piped \subseteq Conns
    /\ sup \in Sup
    /\ stop \in BOOLEAN
    /\ gen \in 0..MaxGen
    /\ loop \in [Gens -> Loop]
    /\ checked \in BOOLEAN
    /\ HM!TypeOK

MaxHolders(g) == {c \in Conns : cgen[c] = g /\ phase[c] # "aborted"}
IdleHolders(g) == {c \in Conns : cgen[c] = g /\ phase[c] \in IdlePermitPhases}
IdleTasks == {c \in Conns : phase[c] \in IdlePhases}
ActiveTasks == {c \in Conns : phase[c] \in ActivePhases}
LoopHoldsMax(g) == IF loop[g] \in {"idle", "args"} THEN 1 ELSE 0
LoopHoldsIdle(g) == IF loop[g] = "args" THEN 1 ELSE 0

\* No permit is lost or released twice on any path of run_connection, of the
\* accept loop or of its cancellation: the permits of a generation are in
\* its semaphores, with its tasks or with its accept loop.
PermitsConserved ==
    \A g \in 1..gen :
        /\ maxsem[g] + Cardinality(MaxHolders(g)) + LoopHoldsMax(g) = MaxConns
        /\ idlesem[g] + Cardinality(IdleHolders(g)) + LoopHoldsIdle(g) = IdleConns

\* The counters shown by `ebbflow status` (EndpointMeta.idle and .active) are
\* exact whenever no task is inside a step, across all generations, so
\* fetch_sub never wraps.
CountersExact ==
    /\ idle = Cardinality(IdleTasks)
    /\ active = Cardinality(ActiveTasks)

TaskOwned(c) ==
    /\ phase[c] = "free" <=> cgen[c] = NoGen
    /\ cgen[c] <= gen
    /\ phase[c] \in {"proxying", "aborted"} => c \in piped
    /\ c \in piped => phase[c] \in {"proxying", "draining", "finished", "aborted"}
    /\ (phase[c] = "draining" \/ (c \in piped /\ phase[c] # "proxying"))
         => signalled[cgen[c]]

\* A task belongs to a started generation until it is gone.  A proxy is
\* detached from its task, and may be open without a max permit, only after
\* its generation was signalled: while a generation is open, every stream is
\* accounted for by a permit.
TasksOwned ==
    /\ \A c \in Conns : TaskOwned(c)
    /\ sup \in {"await_unhealthy", "killing"} => gen > 0
    /\ \A g \in Gens : loop[g] # "none" => g <= gen

\* The tasks of g that carry traffic or may still come to carry it: those
\* past their last look at the stop signal, and those with open streams.
Committed(g) ==
    {c \in Conns : cgen[c] = g /\ (phase[c] \in CommitPhases \/ c \in piped)}

\* A generation never has more than maxconns connections that carry traffic
\* or may come to carry it, even while stop races with traffic, while
\* detached proxies outlive the permit of their task (connection.rs 260-265,
\* mod.rs 454-458) and while the accept loop has not seen the signal yet.
StreamsBounded == \A g \in Gens : Cardinality(Committed(g)) <= MaxConns

Closed == {g \in 1..gen : signalled[g]}
Serving == [g \in Gens |-> Committed(g)]

CP == INSTANCE Pool WITH Members <- Conns, Generations <- Gens, Limit <- MaxConns,
                         opened <- gen, closed <- Closed, serving <- Serving

\* An endpoint is a pool of connections in generations: none is admitted
\* after the stop signal of its generation, or above maxconns, or before the
\* generation before it was told to stop, and none changes its generation.
\* What is admitted is the task past its last look at the receiver.
ImplementsPool == CP!Spec

\* At most one generation is open.  Every older one has been signalled, and
\* outside of the wait for unhealthy no generation is left unsignalled:
\* neither the kill nor the break of spawn_endpoint forgets its generation.
OneOpenGeneration ==
    \A g \in 1..gen :
        ~signalled[g] => g = gen /\ sup \in {"await_unhealthy", "killing"}

\* The endpoint is open exactly while its health verdict says healthy: the
\* supervisor and HealthMaster agree at every point of the loop, the report
\* that ends one wait being the first of the next.
HealthGate ==
    checked =>
        /\ sup \in {"starting", "await_unhealthy"} => healthy
        /\ sup \in {"await_healthy", "killing"} => ~healthy

\* mod.rs 278 calls the end of inner_run_endpoint before the signal
\* unreachable: the accept loop of an open generation keeps running.
AcceptLoopRuns ==
    \A g \in 1..gen : ~signalled[g] => loop[g] \in {"max", "idle", "args"}

\* "To stop it, SEND THE SIGNAL": after stop the supervisor ends and every
\* task, proxied stream and accept loop of the endpoint goes away.
StopDrains ==
    stop ~> /\ sup = "done"
            /\ \A c \in Conns : phase[c] = "free"
            /\ \A g \in Gens : loop[g] \in {"none", "stopped", "panicked"}

\* A connection attempt is resolved in bounded time: it comes to carry
\* traffic or gives both permits back, whatever Ebbflow and the local server
\* do (the TLS handshake has no timeout of its own).
AttemptResolves ==
    \A c \in Conns :
        phase[c] \in IdlePermitPhases \cup {"local", "local_delay"}
            ~> phase[c] \in {"proxying", "free"}

\* Generation g has a task that is being connected to Ebbflow or waits for
\* traffic there.
Offering(g) == \E c \in Conns : cgen[c] = g /\ phase[c] \in IdlePhases

\* All connections of g are taken by traffic that has started.
Full(g) ==
    Cardinality({c \in Conns : cgen[c] = g /\ phase[c] \notin IdlePermitPhases \cup {"aborted"}})
        = MaxConns

\* An open generation always comes back to offering connections to Ebbflow
\* until maxconns of them carry traffic: neither a failed attempt, nor one
\* that timed out, nor a proxied connection that never ends keeps a permit
\* the next attempt needs, and the tasks of older generations take none.
KeepsOffering ==
    \A g \in Gens :
        (g = gen /\ ~signalled[g]) ~> (Offering(g) \/ Full(g) \/ signalled[g])
=============================================================================
