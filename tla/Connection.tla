----------------------------- MODULE Connection -----------------------------
(***************************************************************************)
(* The connection tasks of one endpoint (src/daemon/connection.rs).        *)
(*                                                                         *)
(* A task is spawned by the accept loop of a generation (module Endpoint)  *)
(* and runs run_connection: it connects to Ebbflow, says hello, waits for  *)
(* traffic, connects to the local server and proxies bytes.  Every step is *)
(* one stretch of code between two points where another task can           *)
(* interfere: an await, an update of a shared counter, the release of a    *)
(* semaphore permit.  What Ebbflow, the local server and the clock do is   *)
(* nondeterministic.                                                       *)
(***************************************************************************)
EXTENDS Integers, FiniteSets

CONSTANTS
    Conns,    \* identities of connection tasks
    MaxGen    \* bound on the generations of accept loops explored

ASSUME ConnsAssumption == IsFiniteSet(Conns)
ASSUME MaxGenAssumption == MaxGen \in Nat

Gens == 1..MaxGen
NoGen == 0

VARIABLES
    phase,     \* phase[c]: where task c is, "free" if there is no task c
    cgen,      \* cgen[c]: the generation that spawned c, NoGen if free
    idle,      \* EndpointMeta.idle, shared by all generations
    active,    \* EndpointMeta.active, shared by all generations
    idlesem,   \* idlesem[g]: permits left in the idle semaphore of g
    maxsem,    \* maxsem[g]: permits left in the max semaphore of g
    signalled, \* signalled[g]: wait() on a receiver of g returns
    piped      \* tasks whose proxied pair of streams is open

cvars == <<phase, cgen, idle, active, idlesem, maxsem, signalled, piped>>

-----------------------------------------------------------------------------
(* Phases.  The names in the last column are program points.               *)

\* counted by add_idle: inside the timeout(MAX_IDLE_CONNETION_TIME, ..) call
IdlePhases == {"connecting",   \* connect_ebbflow
               "hello",        \* hello sent, awaiting its response
               "select",       \* about to poll the stop receiver
               "traffic"}      \* receiver polled unsignalled, polling traffic

\* the idle permit of the task has not been dropped
IdlePermitPhases == IdlePhases \cup
    {"spawned",                \* spawned, run_connection has not started
     "established",            \* traffic started, idle permit still held
     "bad_delay", "min_delay", \* the sleeps after an error
     "returned"}               \* run_connection is returning

\* counted by add_active: inside proxy_data
ActivePhases == {"proxying", "draining"}

Phases == IdlePermitPhases \cup ActivePhases \cup
    {"free", "local", "local_delay",
     "finished",               \* run_connection returned, max permit held
     "aborted"}                \* task gone, its aborted proxy still to be dropped

\* A task that has passed the last look at the stop signal before traffic.
CommitPhases == {"traffic", "established", "local", "proxying", "draining"}

Move(c, from, to) == phase[c] = from /\ phase' = [phase EXCEPT ![c] = to]

-----------------------------------------------------------------------------
(* Establishing a connection and waiting for traffic.                      *)

\* add_idle
Begin(c) ==
    /\ Move(c, "spawned", "connecting")
    /\ idle' = idle + 1
    /\ UNCHANGED <<cgen, active, idlesem, maxsem, signalled, piped>>

\* connect_ebbflow succeeds and the hello is written
Connected(c) ==
    /\ Move(c, "connecting", "hello")
    /\ UNCHANGED <<cgen, idle, active, idlesem, maxsem, signalled, piped>>

\* the hello response has no issue
HelloAccepted(c) ==
    /\ Move(c, "hello", "select")
    /\ UNCHANGED <<cgen, idle, active, idlesem, maxsem, signalled, piped>>

\* establish_.. returned: remove_idle, then the arm of the match on to
Unidle(c, from, to) ==
    /\ Move(c, from, to)
    /\ idle' = idle - 1
    /\ UNCHANGED <<cgen, active, idlesem, maxsem, signalled, piped>>

\* Forbidden, NotFound or BadRequest
HelloRejected(c) == Unidle(c, "hello", "bad_delay")

\* every other error: I/O, a timeout, a malformed or unexpected message
EstablishFails(c) ==
    \E from \in {"connecting", "hello", "traffic"} : Unidle(c, from, "min_delay")

\* The wait for Ebbflow has no time limit.
Bug_NoIdleTimeout(c) == FALSE /\ UNCHANGED cvars

\* MAX_IDLE_CONNETION_TIME elapsed: no delay before returning
IdleTimeout(c) ==
    \E from \in {"connecting", "hello", "traffic"} : Unidle(c, from, "returned")

\* The stop receiver is not looked at before traffic is awaited.
Bug_ReceiverNotPolled(c) ==
    /\ Move(c, "select", "traffic")
    /\ UNCHANGED <<cgen, idle, active, idlesem, maxsem, signalled, piped>>

\* select polls the receiver first: Shutdown if signalled.  Polls after
\* which both sides are still pending change nothing and are not steps, so
\* "traffic" is entered by the poll that also finds the other side ready or
\* the timeout elapsed.
PollReceiver(c) ==
    \/ Unidle(c, "select", "min_delay") /\ signalled[cgen[c]]
    \/ /\ Move(c, "select", "traffic")
       /\ ~signalled[cgen[c]]
       /\ UNCHANGED <<cgen, idle, active, idlesem, maxsem, signalled, piped>>

\* StartTrafficV0 arrives
TrafficStart(c) == Unidle(c, "traffic", "established")

-----------------------------------------------------------------------------
(* Error delays and the end of run_connection.                             *)

BadDelay(c) ==
    /\ Move(c, "bad_delay", "min_delay")
    /\ UNCHANGED <<cgen, idle, active, idlesem, maxsem, signalled, piped>>

MinDelay(c) ==
    /\ Move(c, "min_delay", "returned")
    /\ UNCHANGED <<cgen, idle, active, idlesem, maxsem, signalled, piped>>

\* idle_permit goes out of scope at an early return
Return(c) ==
    /\ Move(c, "returned", "finished")
    /\ idlesem' = [idlesem EXCEPT ![cgen[c]] = @ + 1]
    /\ UNCHANGED <<cgen, idle, active, maxsem, signalled, piped>>

\* The idle permit stays with a connection that carries traffic.
Bug_IdlePermitKept(c) ==
    /\ Move(c, "established", "local")
    /\ UNCHANGED <<cgen, idle, active, idlesem, maxsem, signalled, piped>>

\* drop(idle_permit) once traffic has started
DropIdlePermit(c) ==
    /\ Move(c, "established", "local")
    /\ idlesem' = [idlesem EXCEPT ![cgen[c]] = @ + 1]
    /\ UNCHANGED <<cgen, idle, active, maxsem, signalled, piped>>

\* drop(maxpermit), the last act of the task.  The task is gone; its
\* identity is free again unless its aborted proxy is still alive.
DropMax(c) ==
    /\ phase[c] = "finished"
    /\ maxsem' = [maxsem EXCEPT ![cgen[c]] = @ + 1]
    /\ IF c \in piped
       THEN phase' = [phase EXCEPT ![c] = "aborted"] /\ UNCHANGED cgen
       ELSE /\ phase' = [phase EXCEPT ![c] = "free"]
            /\ cgen' = [cgen EXCEPT ![c] = NoGen]
    /\ UNCHANGED <<idle, active, idlesem, signalled, piped>>

-----------------------------------------------------------------------------
(* The local connection and the proxy.                                     *)

\* connected locally, Ebbflow told so, add_active, proxy_data begins
LocalConnected(c) ==
    /\ Move(c, "local", "proxying")
    /\ active' = active + 1
    /\ piped' = piped \cup {c}
    /\ UNCHANGED <<cgen, idle, idlesem, maxsem, signalled>>

\* no local address answered in time, or the response could not be written
LocalFails(c) ==
    /\ Move(c, "local", "local_delay")
    /\ UNCHANGED <<cgen, idle, active, idlesem, maxsem, signalled, piped>>

\* the delay after a local failure; the idle permit is already gone
LocalDelay(c) ==
    /\ Move(c, "local_delay", "finished")
    /\ UNCHANGED <<cgen, idle, active, idlesem, maxsem, signalled, piped>>

\* The other direction of the proxy runs on when one is done.
Bug_HalfStaysOpen(c) ==
    /\ Move(c, "proxying", "finished")
    /\ active' = active - 1
    /\ UNCHANGED <<cgen, idle, idlesem, maxsem, signalled, piped>>

\* one direction of the proxy is done, which ends both: remove_active
ProxyEnds(c) ==
    /\ Move(c, "proxying", "finished")
    /\ active' = active - 1
    /\ piped' = piped \ {c}
    /\ UNCHANGED <<cgen, idle, idlesem, maxsem, signalled>>

\* the receiver fires: the proxy runs on as a task of its own while
\* proxy_data sleeps for KILL_ACTIVE_DELAY
Drain(c) ==
    /\ Move(c, "proxying", "draining")
    /\ signalled[cgen[c]]
    /\ UNCHANGED <<cgen, idle, active, idlesem, maxsem, signalled, piped>>

\* A draining connection is given up without remove_active.
Bug_KillKeepsActive(c) ==
    /\ Move(c, "draining", "finished")
    /\ UNCHANGED <<cgen, idle, active, idlesem, maxsem, signalled, piped>>

\* The sleep before the abort never ends.
Bug_NeverKilled(c) == FALSE /\ UNCHANGED cvars

\* the delay is over: handle.abort(), remove_active
KillActive(c) ==
    /\ Move(c, "draining", "finished")
    /\ active' = active - 1
    /\ UNCHANGED <<cgen, idle, idlesem, maxsem, signalled, piped>>

\* the detached proxy ends by itself, or is dropped because it was aborted
PipeCloses(c) ==
    /\ c \in piped
    /\ phase[c] \in {"draining", "finished", "aborted"}
    /\ piped' = piped \ {c}
    /\ IF phase[c] = "aborted"
       THEN /\ phase' = [phase EXCEPT ![c] = "free"]
            /\ cgen' = [cgen EXCEPT ![c] = NoGen]
       ELSE UNCHANGED <<phase, cgen>>
    /\ UNCHANGED <<idle, active, idlesem, maxsem, signalled>>

-----------------------------------------------------------------------------

\* Steps that a timer forces or that only need the task to be scheduled.
Timed(c) ==
    \/ Begin(c) \/ IdleTimeout(c) \/ PollReceiver(c)
    \/ BadDelay(c) \/ MinDelay(c) \/ Return(c) \/ DropIdlePermit(c) \/ DropMax(c)
    \/ LocalFails(c) \/ LocalDelay(c) \/ Drain(c) \/ KillActive(c)

\* Steps that Ebbflow, the local server or the client decide on.
Peers(c) ==
    \/ Connected(c) \/ HelloAccepted(c) \/ HelloRejected(c) \/ EstablishFails(c)
    \/ TrafficStart(c) \/ LocalConnected(c) \/ ProxyEnds(c) \/ PipeCloses(c)

\* Everything a connection task or its detached proxy may do.
ConnNext(c) == Timed(c) \/ Peers(c)
=============================================================================
