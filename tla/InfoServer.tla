----------------------------- MODULE InfoServer -----------------------------
(***************************************************************************)
(* How `ebbflow status` finds the daemon: run_info_server                  *)
(* (src/infoserver.rs), the address file (src/config.rs) and status of     *)
(* src/ebbflow.rs.                                                         *)
(*                                                                         *)
(* The daemon lets the system choose a port and writes its address to      *)
(* .daemonaddr.  The file outlives the daemon, and the port may be given   *)
(* to another program once the daemon has let go of it.                    *)
(***************************************************************************)
EXTENDS Integers, FiniteSets

CONSTANTS
    Ports,       \* ports of the loopback interface
    Clients,     \* `ebbflow status` processes
    MaxFaults,   \* bound on failing calls, server errors and crashes
    None,        \* no port
    Missing, Empty, Garbled   \* contents of .daemonaddr without an address

ASSUME InfoServerAssumption ==
    /\ MaxFaults \in Nat /\ IsFiniteSet(Ports) /\ Cardinality(Ports) > 1
    /\ {None, Missing, Empty, Garbled} \cap Ports = {}
    /\ None \notin {"no address", "parsing", "not running", "unexpected"}

VARIABLES
    pc,          \* of run_info_server: down, bind, write, writing, serve, sleep
    port,        \* the port it listens on
    others,      \* ports other programs listen on
    addrfile,    \* content of .daemonaddr
    faults,      \* faults so far
    at,          \* of every client: idle, read, connect
    addr,        \* the address it read
    answer,      \* how its last request ended
    gap          \* history: clients during whose command the server was not up

server == <<pc, port>>
client == <<at, addr, answer>>
vars == <<server, others, addrfile, faults, client, gap>>

Init ==
    /\ pc = "down" /\ port = None /\ others = {}
    /\ addrfile \in Ports \cup {Missing, Empty, Garbled}
    /\ faults = 0
    /\ at = [c \in Clients |-> "idle"] /\ addr = [c \in Clients |-> None]
    /\ answer = [c \in Clients |-> None]
    /\ gap = {}

Busy == {c \in Clients : at[c] # "idle"}

\* Every step of the server notes the clients it is not up for.
Note == gap' = IF pc' = "serve" THEN gap ELSE gap \cup Busy

Fault == faults < MaxFaults /\ faults' = faults + 1

-----------------------------------------------------------------------------
(* The server.                                                             *)

StartDaemon ==
    /\ pc = "down"
    /\ pc' = "bind"
    /\ Note
    /\ UNCHANGED <<port, others, addrfile, faults, client>>

\* A fixed port, shared if need be.
Bug_FixedPort ==
    /\ pc = "bind"
    /\ port' = CHOOSE p \in Ports : TRUE
    /\ pc' = "write"
    /\ Note
    /\ UNCHANGED <<others, addrfile, faults, client>>

\* Server::try_bind: port 0, the system chooses a free one
Bind ==
    /\ pc = "bind"
    /\ port' \in Ports \ others
    /\ pc' = "write"
    /\ Note
    /\ UNCHANGED <<others, addrfile, faults, client>>

BindFails ==
    /\ pc = "bind"
    /\ Fault
    /\ pc' = "sleep"
    /\ Note
    /\ UNCHANGED <<port, others, addrfile, client>>

\* The address is not written again by a later turn of the loop.
Bug_KeepOldAddress ==
    /\ pc = "write"
    /\ IF addrfile \in Ports THEN pc' = "serve" /\ UNCHANGED addrfile
                             ELSE pc' = "writing" /\ addrfile' = Empty
    /\ Note
    /\ UNCHANGED <<port, others, faults, client>>

\* write_addr, fs::write: truncate ...
BeginWriteAddr ==
    /\ pc = "write"
    /\ pc' = "writing"
    /\ addrfile' = Empty
    /\ Note
    /\ UNCHANGED <<port, others, faults, client>>

\* ... and write.  Then server.await.
WriteAddr ==
    /\ pc = "writing"
    /\ addrfile' = port
    /\ pc' = "serve"
    /\ Note
    /\ UNCHANGED <<port, others, faults, client>>

\* What a write that does not complete leaves: nothing, or a part of the
\* address, which may well read as that of another port.
Torn == IF pc = "writing" THEN Ports \cup {Empty, Garbled} ELSE {addrfile}

\* The file cannot be opened or written: the server is dropped, and with it
\* its port, after a delay.
WriteAddrFails ==
    /\ pc \in {"write", "writing"}
    /\ Fault
    /\ pc' = "sleep"
    /\ addrfile' \in Torn
    /\ Note
    /\ UNCHANGED <<port, others, client>>

\* The loop goes on only if it had a server to drop.
Bug_SleepForever ==
    /\ pc = "sleep" /\ port # None
    /\ pc' = "bind" /\ port' = None
    /\ Note
    /\ UNCHANGED <<others, addrfile, faults, client>>

\* delay_for ends; `continue` drops the server, if there is one
Retry ==
    /\ pc = "sleep"
    /\ pc' = "bind" /\ port' = None
    /\ Note
    /\ UNCHANGED <<others, addrfile, faults, client>>

\* server.await returns: at once to the next turn of the loop
ServerError ==
    /\ pc = "serve"
    /\ Fault
    /\ pc' = "bind" /\ port' = None
    /\ Note
    /\ UNCHANGED <<others, addrfile, client>>

Crash ==
    /\ pc # "down"
    /\ Fault
    /\ pc' = "down" /\ port' = None
    /\ addrfile' \in Torn
    /\ Note
    /\ UNCHANGED <<others, client>>

\* Another program takes a free port, or lets go of its own.
OtherProgram ==
    /\ \/ \E p \in Ports \ {port} : others' = others \cup {p} /\ others # others'
       \/ \E p \in others : others' = others \ {p}
    /\ Cardinality(others') < Cardinality(Ports) - (IF port = None THEN 0 ELSE 1)
    /\ UNCHANGED <<server, addrfile, faults, client, gap>>

-----------------------------------------------------------------------------
(* The status command.                                                     *)

Ask(c) ==
    /\ at[c] = "idle"
    /\ at' = [at EXCEPT ![c] = "read"]
    /\ answer' = [answer EXCEPT ![c] = None]
    /\ gap' = IF pc = "serve" THEN gap \ {c} ELSE gap \cup {c}
    /\ UNCHANGED <<server, others, addrfile, faults, addr>>

Answer(c, a) ==
    /\ at' = [at EXCEPT ![c] = "idle"]
    /\ addr' = [addr EXCEPT ![c] = None]
    /\ answer' = [answer EXCEPT ![c] = a]

\* read_addr.  The file may also be unreadable, for want of permission say.
ReadAddr(c) ==
    /\ at[c] = "read"
    /\ \/ /\ addrfile \in Ports
          /\ addr' = [addr EXCEPT ![c] = addrfile]
          /\ at' = [at EXCEPT ![c] = "connect"]
          /\ UNCHANGED answer
       \/ addrfile \in {Missing, Empty} /\ Answer(c, "no address")
       \/ addrfile = Garbled /\ Answer(c, "parsing")
       \/ Answer(c, "io error")
    /\ UNCHANGED <<server, others, addrfile, faults, gap>>

\* handle: the server answers the request with the status of the runner, or
\* that it could not serialize it
Handle(c) ==
    /\ addr[c] = port /\ pc = "serve"
    /\ \E a \in {"status", "error 500"} : Answer(c, a)

\* The request reaches the daemon, which accepts from try_bind on and serves
\* it once the server runs; another program, which has no such status; or no
\* one.
Connect(c) ==
    /\ at[c] = "connect"
    /\ \/ Handle(c)
       \/ addr[c] \in others /\ Answer(c, "unexpected")
       \/ addr[c] \notin others \cup {port} /\ Answer(c, "not running")
    /\ UNCHANGED <<server, others, addrfile, faults, gap>>

-----------------------------------------------------------------------------

ServerNext ==
    StartDaemon \/ Bind \/ BeginWriteAddr \/ WriteAddr \/ Retry

Faults == BindFails \/ WriteAddrFails \/ ServerError \/ Crash

Next ==
    \/ ServerNext \/ Faults \/ OtherProgram
    \/ \E c \in Clients : Ask(c) \/ ReadAddr(c) \/ Connect(c)

Spec == Init /\ [][Next]_vars

(* Fairness: the service manager starts the daemon, its task is scheduled  *)
(* and delays end.                                                         *)
FairSpec == Spec /\ WF_vars(ServerNext)

-----------------------------------------------------------------------------
(* Properties.                                                             *)

\* Every variable has its type; a port has one owner.
TypeOK ==
    /\ pc \in {"down", "bind", "write", "writing", "serve", "sleep"}
    /\ port \in Ports \cup {None} /\ others \subseteq Ports \ {port}
    /\ addrfile \in Ports \cup {Missing, Empty, Garbled}
    /\ faults \in 0 .. MaxFaults
    /\ \A c \in Clients :
          /\ at[c] \in {"idle", "read", "connect"}
          /\ at[c] = "connect" <=> addr[c] \in Ports
          /\ answer[c] \in {None, "status", "error 500", "io error", "no address", "parsing",
                          "not running", "unexpected"}
    /\ gap \subseteq Clients

\* A status command that finds no daemon tells the truth: the daemon was not
\* up, or not up all the time, while it ran.  A stale or half-written address
\* file never makes a serving daemon look dead, even after it moved to another
\* port.  (A file without read permission and a failing serialization are
\* errors of a daemon that may be up.)
FailureHonest ==
    \A c \in Clients :
        answer[c] \in {"no address", "parsing", "not running", "unexpected"} => c \in gap

\* The daemon can be reached in the end, whatever failed before.
EventuallyServes == []<>(pc = "serve" /\ addrfile = port)
=============================================================================
