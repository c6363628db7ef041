------------------------------- MODULE Runner -------------------------------
(***************************************************************************)
(* The daemon's configuration loop: run_daemon and DaemonRunner            *)
(* (src/lib.rs), config_reload and the file watcher (src/ebbflowd.rs), the *)
(* files (src/config.rs) and the tokio Notify and Mutex between them.      *)
(*                                                                         *)
(* A command of the `ebbflow` CLI rewrites the configuration or the key    *)
(* file, which first truncates it.  Every change of a file under the       *)
(* configuration directory becomes an event; the watcher turns events into *)
(* the single permit of the Notify; the loop reloads both files and        *)
(* applies them under the runner's mutex, which it keeps while it waits    *)
(* for the addresses of localhost.  An endpoint instance is one call of    *)
(* spawn_endpoint; what it does is the subject of module Endpoint.         *)
(***************************************************************************)
EXTENDS Integers, Sequences

CONSTANTS
    Dns,          \* endpoint names
    Configs,      \* configurations the user may write
    Keys,         \* host keys
    Ids,          \* identities of endpoint instances
    MaxWrites,    \* bound on the file writes explored
    MaxRestarts,  \* bound on the restarts of the daemon explored
    ReadsMayFail, \* may reading a file fail for reasons of its own?
    WatcherMayFail, \* may the watcher report an error?
    None,         \* no value
    Missing,      \* content of a file that does not exist
    Truncated     \* content of a file opened for writing and not yet written

\* An entry of the configuration.  `settings` stands for port, maxconns,
\* maxidle and health check, which are only ever compared.
EndpointConfig == [dns : Dns, settings : Nat, enabled : BOOLEAN]
SshConfig == [settings : Nat, enabled : BOOLEAN]

Names(c) == {c.endpoints[n].dns : n \in DOMAIN c.endpoints}

\* A name may be listed twice, by hand: `ebbflow config add-endpoint` refuses
\* it (UniqueNames of module Cli), the daemon does not.
ASSUME RunnerAssumption ==
    /\ \A c \in Configs :
        /\ c.endpoints \in Seq(EndpointConfig)
        /\ c.ssh = None \/ c.ssh \in SshConfig
    /\ MaxWrites \in Nat /\ MaxRestarts \in Nat
    /\ ReadsMayFail \in BOOLEAN /\ WatcherMayFail \in BOOLEAN
    /\ \A v \in {None, Missing, Truncated} : v \notin Configs /\ v \notin Keys
    /\ None \notin Ids /\ None \notin SshConfig /\ Missing # Truncated
    /\ None \notin [cfg : EndpointConfig \cup SshConfig, inst : Ids \cup {None}]

VARIABLES
    cfgfile, keyfile,   \* content of config.yaml and host.key
    writing,            \* <<file, content>> of a write in progress, or None
    writes,             \* number of writes begun
    events,             \* file events not yet handled by the watcher thread
    watching,           \* the watch on the directory is set
    permit,             \* the permit of the Notify
    pc,                 \* the task spawned by run_daemon
    newconfig, newkey,  \* what config_reload returned
    todo,               \* entries of newconfig still to be handled
    unread,             \* history: the last reload could not read a file that
                        \* held a configuration or a key
    key,                \* SharedInfo.key
    statusmeta,         \* InnerDaemonRunner.statusmeta
    endpoints,          \* InnerDaemonRunner.endpoints, None where no entry
    ssh,                \* InnerDaemonRunner.ssh
    running,            \* instances spawned and not told to stop
    asked,              \* a status request of the info server is waiting
    restarts,           \* number of restarts so far
    applied             \* history: the configuration applied last

files == <<cfgfile, keyfile, writing, writes>>
notify == <<events, watching, permit>>
loaded == <<newconfig, newkey, todo, unread>>
runner == <<key, statusmeta, endpoints, ssh, running>>
vars == <<files, notify, loaded, runner, pc, asked, restarts, applied>>

\* The guard of the mutex lives on while the loop waits.
Bug_GuardHeldAcrossWait ==
    pc \in {"update", "endpoints", "spawning", "ssh", "ssh_spawning", "wait"}

\* The runner's mutex is held by the loop in these states.
Locked == pc \in {"update", "endpoints", "spawning", "ssh", "ssh_spawning"}

Disabled(cfg) == [cfg |-> cfg, inst |-> None]
Enabled(cfg, i) == [cfg |-> cfg, inst |-> i]

\* The instances told to stop when e is stopped (EnabledDisabled::stop).
Stopped(e) == IF e = None \/ e.inst = None THEN {} ELSE {e.inst}

\* Only the settings are compared.
Bug_EnabledNotCompared(e, cfg) ==
    IF e = None THEN FALSE ELSE e.cfg.settings = cfg.settings

\* The map or the SSH slot already holds this configuration.
Same(e, cfg) == IF e = None THEN FALSE ELSE e.cfg = cfg

Fresh == CHOOSE i \in Ids : i \notin running

-----------------------------------------------------------------------------

Init ==
    /\ cfgfile \in Configs \cup {Missing} /\ keyfile \in Keys \cup {Missing}
    /\ writing = None /\ writes = 0
    /\ events = 0 /\ watching = FALSE /\ permit = FALSE
    /\ pc = "boot" /\ newconfig = None /\ newkey = None /\ todo = <<>>
    /\ unread = FALSE /\ key = None /\ statusmeta = "Uninitialized"
    /\ endpoints = [d \in Dns |-> None] /\ ssh = None
    /\ running = {}
    /\ asked = FALSE /\ restarts = 0 /\ applied = None

-----------------------------------------------------------------------------
(* The CLI and the files.                                                  *)

\* A change in the directory is an event if the watch is set.
Changed == events' = IF watching THEN events + 1 ELSE events

\* fs::write: open with truncation ...
BeginWrite(file, content) ==
    /\ writing = None /\ writes < MaxWrites
    /\ writing' = <<file, content>>
    /\ writes' = writes + 1
    /\ IF file = "config" THEN cfgfile' = Truncated /\ UNCHANGED keyfile
                          ELSE keyfile' = Truncated /\ UNCHANGED cfgfile
    /\ Changed
    /\ UNCHANGED <<watching, permit, loaded, runner, pc, asked, restarts, applied>>

\* ... then write the bytes.
FinishWrite ==
    /\ writing # None
    /\ IF writing[1] = "config" THEN cfgfile' = writing[2] /\ UNCHANGED keyfile
                                ELSE keyfile' = writing[2] /\ UNCHANGED cfgfile
    /\ writing' = None
    /\ Changed
    /\ UNCHANGED <<writes, watching, permit, loaded, runner, pc, asked, restarts, applied>>

\* The CLI is killed between the two.
WriterDies ==
    /\ writing # None
    /\ writing' = None
    /\ UNCHANGED <<cfgfile, keyfile, writes, notify, loaded, runner, pc, asked,
                   restarts, applied>>

-----------------------------------------------------------------------------
(* Start and the watcher.                                                  *)

\* realmain: the watch is set before run_daemon starts the loop.  The info
\* server then writes .daemonaddr under the same directory: one event more.
Boot ==
    /\ pc = "boot"
    /\ watching' = TRUE
    /\ events' = events + 1
    /\ pc' = "load_config"
    /\ UNCHANGED <<files, permit, loaded, runner, asked, restarts, applied>>

\* Only a task that already waits is notified; no permit is kept for later.
Bug_NotifyWaitersOnly ==
    /\ events > 0
    /\ events' = events - 1
    /\ permit' = (permit \/ pc = "wait")
    /\ UNCHANGED <<files, watching, loaded, runner, pc, asked, restarts, applied>>

\* The callback of the watcher: notify() stores at most one permit.
WatcherNotifies ==
    /\ events > 0
    /\ events' = events - 1
    /\ permit' = TRUE
    /\ UNCHANGED <<files, watching, loaded, runner, pc, asked, restarts, applied>>

\* An error makes the callback panic: its thread is gone, and with it every
\* event not yet handled and every later one.  The daemon runs on.
WatcherPanics ==
    /\ WatcherMayFail /\ watching
    /\ watching' = FALSE /\ events' = 0
    /\ UNCHANGED <<files, permit, loaded, runner, pc, asked, restarts, applied>>

\* The daemon dies and its service manager starts it again.
Restart ==
    /\ restarts < MaxRestarts /\ pc # "boot"
    /\ restarts' = restarts + 1
    /\ pc' = "boot" /\ newconfig' = None /\ newkey' = None /\ todo' = <<>>
    /\ unread' = FALSE /\ events' = 0 /\ watching' = FALSE /\ permit' = FALSE
    /\ key' = None /\ statusmeta' = "Uninitialized"
    /\ endpoints' = [d \in Dns |-> None] /\ ssh' = None
    /\ running' = {}
    /\ asked' = FALSE /\ applied' = None
    /\ UNCHANGED files

-----------------------------------------------------------------------------
(* The loop of run_daemon.                                                 *)

\* config_reload reads config.yaml.  A file just truncated is reported as
\* empty or as a parse error; an empty one is no configuration, every other
\* error ends the reload before the key is read.
LoadConfig ==
    /\ pc = "load_config"
    /\ \/ /\ cfgfile \in Configs
          /\ newconfig' = cfgfile /\ pc' = "load_key"
       \/ /\ cfgfile = Truncated
          /\ newconfig' = None /\ pc' = "load_key"
       \/ /\ cfgfile \in {Truncated, Missing} \/ ReadsMayFail
          /\ newconfig' = None /\ pc' = "error"
    /\ unread' = (pc' = "error" /\ cfgfile \in Configs)
    /\ UNCHANGED <<files, notify, newkey, todo, runner, asked, restarts, applied>>

\* An empty key file is taken for a key.
Bug_EmptyKeyAccepted ==
    /\ pc = "load_key"
    /\ newkey' = IF keyfile = Missing THEN None ELSE keyfile
    /\ pc' = "lock"
    /\ UNCHANGED <<files, notify, newconfig, todo, unread, runner, asked, restarts, applied>>

\* ... and then host.key; a missing or empty key file is no key, any other
\* error ends the reload although the configuration was read.
LoadKey ==
    /\ pc = "load_key"
    /\ \/ /\ newkey' = IF keyfile \in Keys THEN keyfile ELSE None
          /\ pc' = "lock"
       \/ /\ ReadsMayFail
          /\ newkey' = None /\ pc' = "error"
    /\ unread' = (pc' = "error" /\ keyfile \in Keys)
    /\ UNCHANGED <<files, notify, newconfig, todo, runner, asked, restarts, applied>>

\* submit_error_message: the mutex is taken for a moment
ReportError ==
    /\ pc = "error"
    /\ pc' = "wait"
    /\ UNCHANGED <<files, notify, loaded, runner, asked, restarts, applied>>

\* DaemonRunner::update_config takes the mutex
Lock ==
    /\ pc = "lock"
    /\ pc' = "update"
    /\ UNCHANGED <<files, notify, loaded, runner, asked, restarts, applied>>

\* A key that could not be read this time is forgotten.
Bug_KeyForgotten ==
    /\ pc = "update"
    /\ key' = newkey
    /\ IF key' = None
       THEN /\ statusmeta' = "Uninitialized" /\ pc' = "wait"
            /\ UNCHANGED <<todo, endpoints, running>>
       ELSE /\ statusmeta' = "Good" /\ pc' = "wait"
            /\ UNCHANGED <<todo, endpoints, running>>
    /\ newkey' = None
    /\ UNCHANGED <<files, notify, newconfig, unread, ssh, asked, restarts,
                   applied>>

\* An unreadable configuration is taken for one without endpoints.
Bug_EmptyStopsAll ==
    /\ pc = "update"
    /\ key' = IF newkey # None THEN newkey ELSE key
    /\ IF key' = None
       THEN /\ statusmeta' = "Uninitialized" /\ pc' = "wait"
            /\ UNCHANGED <<todo, endpoints, running>>
       ELSE /\ statusmeta' = "Good"
            /\ LET entries == IF newconfig = None THEN <<>> ELSE newconfig.endpoints
                   kept == {entries[n].dns : n \in DOMAIN entries}
               IN /\ endpoints' = [d \in Dns |-> IF d \in kept THEN endpoints[d] ELSE None]
                  /\ running' = running \ UNION {Stopped(endpoints[d]) : d \in Dns \ kept}
                  /\ todo' = entries
            /\ pc' = IF newconfig = None THEN "wait" ELSE "endpoints"
    /\ newkey' = None
    /\ UNCHANGED <<files, notify, newconfig, unread, ssh, asked, restarts,
                   applied>>

\* update_config up to the loop over the endpoints: the key, the early
\* returns (which release the mutex), and retain, which stops and removes
\* every entry the new configuration does not name.  The key read is moved.
UpdateConfig ==
    /\ pc = "update"
    /\ key' = IF newkey # None THEN newkey ELSE key
    /\ IF key' = None \/ newconfig = None
       THEN /\ statusmeta' = IF key' = None THEN "Uninitialized" ELSE "Good"
            /\ pc' = "wait"
            /\ UNCHANGED <<todo, endpoints, running>>
       ELSE /\ statusmeta' = "Good"
            /\ LET kept == Names(newconfig)
               IN /\ endpoints' = [d \in Dns |-> IF d \in kept THEN endpoints[d] ELSE None]
                  /\ running' = running \ UNION {Stopped(endpoints[d]) : d \in Dns \ kept}
            /\ todo' = newconfig.endpoints
            /\ pc' = "endpoints"
    /\ newkey' = None
    /\ UNCHANGED <<files, notify, newconfig, unread, ssh, asked, restarts,
                   applied>>

\* The old instance is not stopped when its entry is replaced.
Bug_ReplaceDoesNotStop ==
    /\ pc = "endpoints" /\ todo # <<>>
    /\ LET e == Head(todo) IN
       \/ /\ Same(endpoints[e.dns], e)
          /\ todo' = Tail(todo)
          /\ UNCHANGED <<endpoints, running, pc>>
       \/ /\ ~Same(endpoints[e.dns], e)
          /\ IF e.enabled
             THEN pc' = "spawning" /\ UNCHANGED <<endpoints, todo>>
             ELSE /\ endpoints' = [endpoints EXCEPT ![e.dns] = Disabled(e)]
                  /\ todo' = Tail(todo)
                  /\ UNCHANGED pc
          /\ UNCHANGED running
    /\ UNCHANGED <<files, notify, newconfig, newkey, unread, key, statusmeta, ssh,
                   asked, restarts, applied>>

\* One entry of the new configuration: nothing if it is the same, otherwise
\* the running instance is stopped and the entry replaced, at once by a
\* disabled one or, if it is enabled, after spawn_endpoint.
HandleEndpoint ==
    /\ pc = "endpoints" /\ todo # <<>>
    /\ LET e == Head(todo)
           old == endpoints[e.dns] IN
       \/ /\ Same(old, e)
          /\ todo' = Tail(todo)
          /\ UNCHANGED <<endpoints, running, pc>>
       \/ /\ ~Same(old, e)
          /\ running' = running \ Stopped(old)
          /\ IF e.enabled
             THEN /\ endpoints' = IF old = None THEN endpoints
                                  ELSE [endpoints EXCEPT ![e.dns] = Disabled(old.cfg)]
                  /\ pc' = "spawning"
                  /\ UNCHANGED todo
             ELSE /\ endpoints' = [endpoints EXCEPT ![e.dns] = Disabled(e)]
                  /\ todo' = Tail(todo)
                  /\ UNCHANGED pc
    /\ UNCHANGED <<files, notify, newconfig, newkey, unread, key, statusmeta, ssh,
                   asked, restarts, applied>>

\* get_addrs found the addresses of localhost: the instance runs and the
\* entry is inserted.  Until then get_addrs retries and nothing changes.
SpawnEndpoint ==
    /\ pc = "spawning"
    /\ Ids \ running # {}
    /\ running' = running \cup {Fresh}
    /\ endpoints' = [endpoints EXCEPT ![Head(todo).dns] = Enabled(Head(todo), Fresh)]
    /\ todo' = Tail(todo)
    /\ pc' = "endpoints"
    /\ UNCHANGED <<files, notify, newconfig, newkey, unread, key, statusmeta, ssh,
                   asked, restarts, applied>>

EndpointsDone ==
    /\ pc = "endpoints" /\ todo = <<>>
    /\ pc' = "ssh"
    /\ UNCHANGED <<files, notify, loaded, runner, asked, restarts, applied>>

\* The SSH entry: removed, unchanged, disabled, or spawned anew.  A step
\* that returns also releases the mutex.
HandleSsh ==
    /\ pc = "ssh"
    /\ LET new == newconfig.ssh IN
       \/ /\ new = None
          /\ running' = running \ Stopped(ssh)
          /\ ssh' = None
          /\ pc' = "wait" /\ applied' = newconfig
       \/ /\ new # None /\ Same(ssh, new)
          /\ pc' = "wait" /\ applied' = newconfig
          /\ UNCHANGED <<running, ssh>>
       \/ /\ new # None /\ ~Same(ssh, new)
          /\ running' = running \ Stopped(ssh)
          /\ IF new.enabled
             THEN /\ ssh' = IF ssh = None THEN None ELSE Disabled(ssh.cfg)
                  /\ pc' = "ssh_spawning"
                  /\ UNCHANGED applied
             ELSE /\ ssh' = Disabled(new)
                  /\ pc' = "wait" /\ applied' = newconfig
    /\ UNCHANGED <<files, notify, loaded, key, statusmeta, endpoints, asked, restarts>>

SpawnSsh ==
    /\ pc = "ssh_spawning"
    /\ Ids \ running # {}
    /\ running' = running \cup {Fresh}
    /\ ssh' = Enabled(newconfig.ssh, Fresh)
    /\ pc' = "wait" /\ applied' = newconfig
    /\ UNCHANGED <<files, notify, loaded, key, statusmeta, endpoints, asked, restarts>>

\* cfg_notifier.notified() consumes the permit
Notified ==
    /\ pc = "wait" /\ permit
    /\ permit' = FALSE
    /\ pc' = "load_config"
    /\ UNCHANGED <<files, events, watching, loaded, runner, asked, restarts, applied>>

-----------------------------------------------------------------------------
(* Status requests.                                                        *)

AskStatus ==
    /\ ~asked /\ pc # "boot"
    /\ asked' = TRUE
    /\ UNCHANGED <<files, notify, loaded, runner, pc, restarts, applied>>

\* DaemonRunner::status needs the mutex
Status ==
    /\ asked /\ ~Locked
    /\ asked' = FALSE
    /\ UNCHANGED <<files, notify, loaded, runner, pc, restarts, applied>>

-----------------------------------------------------------------------------

Write == \/ \E c \in Configs : BeginWrite("config", c)
         \/ \E k \in Keys : BeginWrite("key", k)

LoopNext ==
    \/ Boot \/ LoadConfig \/ LoadKey \/ ReportError \/ Lock \/ UpdateConfig
    \/ HandleEndpoint \/ SpawnEndpoint \/ EndpointsDone \/ HandleSsh \/ SpawnSsh
    \/ Notified

Next ==
    \/ Write \/ FinishWrite \/ WriterDies
    \/ WatcherNotifies \/ WatcherPanics \/ Restart
    \/ LoopNext
    \/ AskStatus \/ Status

Spec == Init /\ [][Next]_vars

(* Fairness: tokio runs the loop whenever it can go on, localhost resolves *)
(* in the end, the watcher thread handles its events, and the FIFO mutex   *)
(* serves a waiting status request even if the loop keeps coming back.     *)
FairSpec == Spec /\ WF_vars(LoopNext) /\ WF_vars(WatcherNotifies) /\ SF_vars(Status)
-----------------------------------------------------------------------------
(* Properties.                                                             *)

Entry(C) == [cfg : C, inst : Ids \cup {None}]

\* Type invariant.
TypeOK ==
    /\ cfgfile \in Configs \cup {Missing, Truncated}
    /\ keyfile \in Keys \cup {Missing, Truncated}
    /\ writing = None \/ writing[1] \in {"config", "key"}
    /\ writes \in 0..MaxWrites /\ restarts \in 0..MaxRestarts
    /\ events \in Nat /\ watching \in BOOLEAN /\ permit \in BOOLEAN
    /\ pc \in {"boot", "load_config", "load_key", "error", "lock", "update",
               "endpoints", "spawning", "ssh", "ssh_spawning", "wait"}
    /\ newconfig \in Configs \cup {None} /\ newkey \in Keys \cup {None}
    /\ todo \in Seq(EndpointConfig) /\ unread \in BOOLEAN
    /\ key \in Keys \cup {None}
    /\ statusmeta \in {"Uninitialized", "Good"}
    /\ \A d \in Dns : endpoints[d] = None \/ endpoints[d] \in Entry(EndpointConfig)
    /\ ssh = None \/ ssh \in Entry(SshConfig)
    /\ running \subseteq Ids
    /\ asked \in BOOLEAN
    /\ applied \in Configs \cup {None}

\* An instance that is not in the map can never be stopped again: nothing
\* but its entry leads to its sender, and its supervisor keeps the sender
\* alive.  At every step of update_config, also while it waits for an
\* address, the running instances are exactly those the entries hold, each
\* held by one entry.
NoOrphans ==
    /\ running = Stopped(ssh) \cup UNION {Stopped(endpoints[d]) : d \in Dns}
    /\ \A d \in Dns :
        /\ Stopped(endpoints[d]) \cap Stopped(ssh) = {}
        /\ \A e \in Dns \ {d} : Stopped(endpoints[d]) \cap Stopped(endpoints[e]) = {}

InForce(entry, cfg) ==
    IF cfg.enabled THEN entry # None /\ entry.cfg = cfg /\ entry.inst # None
                   ELSE entry = Disabled(cfg)

\* The entry that counts if a name is listed twice: the last one.
IsLast(c, n) ==
    \A m \in DOMAIN c.endpoints : m > n => c.endpoints[m].dns # c.endpoints[n].dns

\* Whoever holds the mutex, status requests in particular, finds exactly the
\* configuration applied last and no mixture of two, whatever was read,
\* truncated or rewritten since then.
AppliedExactly ==
    (~Locked /\ applied # None) =>
        /\ \A n \in DOMAIN applied.endpoints :
              IsLast(applied, n) =>
                InForce(endpoints[applied.endpoints[n].dns], applied.endpoints[n])
        /\ \A d \in Dns \ Names(applied) : endpoints[d] = None
        /\ IF applied.ssh = None THEN ssh = None ELSE InForce(ssh, applied.ssh)

\* The instance of a name is stopped only by a configuration, read completely,
\* that does not list its name or lists it otherwise: a truncated, unreadable
\* or missing file stops nothing, and an unchanged entry goes on running
\* unless its name is listed a second time.
StopsOnlyByConfig ==
    [][\A d \in Dns :
        (Stopped(endpoints[d]) \ running' # {} /\ restarts' = restarts) =>
            /\ newconfig \in Configs
            /\ d \in Names(newconfig) =>
                 \E n \in DOMAIN newconfig.endpoints :
                    /\ newconfig.endpoints[n].dns = d
                    /\ newconfig.endpoints[n] # endpoints[d].cfg]_vars

\* Once initialized the daemon stays so: a key file that is being rewritten,
\* is empty or missing at a reload does not take the key away.
StaysInitialized ==
    [][(statusmeta = "Good" /\ restarts' = restarts) =>
        statusmeta' = "Good" /\ key' # None]_vars

\* What the user wrote last takes effect, whatever the order of writes,
\* events and reloads and wherever the daemon was restarted: no event is
\* lost between the read of a file and the wait for the next notification.
\* It takes another event or a restart only if the last reload failed to read
\* a file that was complete (the code does not try again), and a restart
\* after a panic of the watcher.
EventuallyApplied ==
    (/\ <>[][FALSE]_files
     /\ <>[](cfgfile \in Configs /\ keyfile \in Keys /\ watching /\ ~unread))
    => <>[](applied = cfgfile /\ key = keyfile)

\* A status request is answered although update_config keeps the mutex
\* across its awaits.
StatusServed == asked ~> ~asked
=============================================================================
