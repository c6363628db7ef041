---------------------------- MODULE RunnerProofs ----------------------------
(***************************************************************************)
(* The configuration loop for any names, configurations, keys and number   *)
(* of writes and restarts: no endpoint instance is orphaned, a released    *)
(* mutex shows exactly one configuration, nothing but a configuration read *)
(* completely stops an instance, and a key is never forgotten.             *)
(***************************************************************************)
EXTENDS Runner, TLAPS

-----------------------------------------------------------------------------
(* The inductive invariant.                                                *)

\* TypeOK in parts, with what it leaves open: what is being written, and the
\* domain of the map.
FilesTyped ==
    /\ cfgfile \in Configs \cup {Missing, Truncated}
    /\ keyfile \in Keys \cup {Missing, Truncated}
    /\ writing = None \/ writing \in ({"config"} \X Configs) \cup ({"key"} \X Keys)

CountersTyped == writes \in 0 .. MaxWrites /\ restarts \in 0 .. MaxRestarts /\ events \in Nat

FlagsTyped == watching \in BOOLEAN /\ permit \in BOOLEAN /\ asked \in BOOLEAN

LoadedTyped ==
    /\ newconfig \in Configs \cup {None} /\ newkey \in Keys \cup {None}
    /\ todo \in Seq(EndpointConfig)

\* The history flag, which no other part of the invariant needs.
UnreadTyped == unread \in BOOLEAN

RunnerTyped ==
    /\ key \in Keys \cup {None}
    /\ statusmeta \in {"Uninitialized", "Good"}
    /\ endpoints \in [Dns -> Entry(EndpointConfig) \cup {None}]
    /\ ssh = None \/ ssh \in Entry(SshConfig)
    /\ running \subseteq Ids
    /\ applied \in Configs \cup {None}

PcTyped ==
    pc \in {"boot", "load_config", "load_key", "error", "lock", "update",
            "endpoints", "spawning", "ssh", "ssh_spawning", "wait"}

Typed == FilesTyped /\ CountersTyped /\ FlagsTyped /\ LoadedTyped /\ RunnerTyped /\ PcTyped

\* The loop is between the first change of the map and the release of the mutex.
Applying == pc \in {"endpoints", "spawning", "ssh", "ssh_spawning"}

\* The number of entries of the new configuration that are done.
Handled == Len(newconfig.endpoints) - Len(todo)

\* While it applies a configuration, `todo` is what is left of its list.
Suffix ==
    Applying =>
        /\ newconfig \in Configs
        /\ Len(todo) <= Len(newconfig.endpoints)
        /\ \A n \in 1 .. Len(todo) : todo[n] = newconfig.endpoints[Handled + n]
        /\ pc \in {"ssh", "ssh_spawning"} => todo = <<>>

\* The entry whose instance is being spawned.
Pending(d) == pc = "spawning" /\ d = Head(todo).dns

\* What is replaced by an instance to come has been stopped.
StoppedFirst ==
    /\ pc = "spawning" => /\ todo # <<>> /\ Head(todo).enabled
                          /\ Stopped(endpoints[Head(todo).dns]) = {}
    /\ pc = "ssh_spawning" => /\ newconfig.ssh # None /\ newconfig.ssh.enabled
                              /\ Stopped(ssh) = {}

\* An entry holds an instance exactly if its configuration is enabled.
Settled(e) == IF e = None THEN TRUE ELSE e.inst # None <=> e.cfg.enabled

AllSettled ==
    /\ \A d \in Dns : Pending(d) \/ Settled(endpoints[d])
    /\ pc = "ssh_spawning" \/ Settled(ssh)

\* Of the entries done, the last one of each name is in force; names that are
\* not listed have no entry.
Progress ==
    Applying =>
        /\ \A n \in 1 .. Handled :
              (\A m \in 1 .. Handled :
                  m > n => newconfig.endpoints[m].dns # newconfig.endpoints[n].dns)
              => \/ Pending(newconfig.endpoints[n].dns)
                 \/ InForce(endpoints[newconfig.endpoints[n].dns], newconfig.endpoints[n])
        /\ \A d \in Dns \ Names(newconfig) : endpoints[d] = None

\* The endpoints and the SSH slot are those of configuration c.
EndpointsMatch(c) ==
    /\ \A n \in DOMAIN c.endpoints :
          IsLast(c, n) => InForce(endpoints[c.endpoints[n].dns], c.endpoints[n])
    /\ \A d \in Dns \ Names(c) : endpoints[d] = None

SshMatches(c) == IF c.ssh = None THEN ssh = None ELSE InForce(ssh, c.ssh)

\* Until a reload begins to change the map, it is as the last one left it.
LastApplied ==
    (~Applying /\ applied # None) => EndpointsMatch(applied) /\ SshMatches(applied)

KeyKept == statusmeta = "Good" => key # None

Inv ==
    /\ Typed /\ NoOrphans
    /\ Suffix /\ StoppedFirst /\ AllSettled /\ Progress /\ LastApplied
    /\ KeyKept

-----------------------------------------------------------------------------
(* What the helpers guarantee.                                             *)

\* An entry with an instance is stopped by stopping that instance.
LEMMA StoppedFacts ==
    /\ Stopped(None) = {}
    /\ \A c : Stopped(Disabled(c)) = {}
    /\ \A c \in EndpointConfig \cup SshConfig : \A i \in Ids : Stopped(Enabled(c, i)) = {i}
<1>1. Stopped(None) = {}
  BY DEF Stopped
<1>2. \A c : Stopped(Disabled(c)) = {}
  BY DEF Stopped, Disabled
<1>3. ASSUME NEW c \in EndpointConfig \cup SshConfig, NEW i \in Ids
      PROVE  Stopped(Enabled(c, i)) = {i}
  <2>1. Enabled(c, i) \in [cfg : EndpointConfig \cup SshConfig, inst : Ids \cup {None}]
    BY DEF Enabled
  <2>2. Enabled(c, i) # None /\ i # None
    BY <2>1, RunnerAssumption
  <2> QED BY <2>2 DEF Stopped, Enabled
<1> QED BY <1>1, <1>2, <1>3

\* The identity of a new instance is one that no running instance has.
LEMMA FreshFacts ==
    ASSUME Ids \ running # {}
    PROVE  Fresh \in Ids /\ Fresh \notin running
<1>1. \E i \in Ids : i \notin running
  OBVIOUS
<1> QED BY <1>1 DEF Fresh

\* An unchanged and settled entry is in force.
LEMMA SameInForce ==
    ASSUME NEW C, NEW e \in Entry(C) \cup {None}, NEW cfg \in C,
           Same(e, cfg), Settled(e)
    PROVE  InForce(e, cfg)
<1>1. e # None /\ e \in Entry(C) /\ e.cfg = cfg
  BY DEF Same
<1>2. e = [cfg |-> e.cfg, inst |-> e.inst]
  BY <1>1 DEF Entry
<1>3. e.inst # None <=> cfg.enabled
  BY <1>1 DEF Settled
<1> QED BY <1>1, <1>2, <1>3 DEF InForce, Disabled

\* A new entry, with or without an instance, is in force and settled.
LEMMA NewInForce ==
    ASSUME NEW cfg \in EndpointConfig \cup SshConfig
    PROVE  /\ ~cfg.enabled => InForce(Disabled(cfg), cfg) /\ Settled(Disabled(cfg))
           /\ cfg.enabled => \A i \in Ids : InForce(Enabled(cfg, i), cfg) /\ Settled(Enabled(cfg, i))
<1>1. ~cfg.enabled => InForce(Disabled(cfg), cfg) /\ Settled(Disabled(cfg))
  BY DEF InForce, Settled, Disabled
<1>2. ASSUME NEW i \in Ids
      PROVE  cfg.enabled => InForce(Enabled(cfg, i), cfg) /\ Settled(Enabled(cfg, i))
  <2>1. Enabled(cfg, i) \in [cfg : EndpointConfig \cup SshConfig, inst : Ids \cup {None}]
    BY DEF Enabled
  <2>2. Enabled(cfg, i) # None /\ i # None
    BY <2>1, RunnerAssumption
  <2> QED BY <2>2 DEF InForce, Settled, Enabled
<1> QED BY <1>1, <1>2

\* The running instances, one by one.
LEMMA OrphansByElement ==
    \A R, s, f :
        R = Stopped(s) \cup UNION {Stopped(f[d]) : d \in Dns}
            <=> \A i : i \in R <=> (i \in Stopped(s) \/ \E d \in Dns : i \in Stopped(f[d]))
<1> SUFFICES ASSUME NEW R, NEW s, NEW f
             PROVE  R = Stopped(s) \cup UNION {Stopped(f[d]) : d \in Dns}
                      <=> \A i : i \in R <=> (i \in Stopped(s) \/ \E d \in Dns : i \in Stopped(f[d]))
  OBVIOUS
<1> DEFINE U == UNION {Stopped(f[d]) : d \in Dns}
<1>1. \A i : i \in U <=> \E d \in Dns : i \in Stopped(f[d])
  OBVIOUS
<1> HIDE DEF U
<1>2. R = Stopped(s) \cup U
        <=> \A i : i \in R <=> (i \in Stopped(s) \/ \E d \in Dns : i \in Stopped(f[d]))
  BY <1>1
<1> QED BY <1>2 DEF U

Owned(i) == i \in Stopped(ssh) \/ \E d \in Dns : i \in Stopped(endpoints[d])

\* One entry is replaced and its instance stopped; the new one holds none or
\* one that did not run.
LEMMA ReplaceEntry ==
    ASSUME NoOrphans, DOMAIN endpoints = Dns, NEW d \in Dns, NEW e,
           Stopped(e) \cap running = {},
           ssh' = ssh, endpoints' = [endpoints EXCEPT ![d] = e],
           running' = (running \ Stopped(endpoints[d])) \cup Stopped(e)
    PROVE  NoOrphans'
<1>1. \A i : i \in running <=> Owned(i)
  BY OrphansByElement DEF NoOrphans, Owned
<1>2. /\ Stopped(endpoints[d]) \cap Stopped(ssh) = {}
      /\ \A x \in Dns \ {d} : Stopped(endpoints[d]) \cap Stopped(endpoints[x]) = {}
  BY DEF NoOrphans
<1>3. /\ Stopped(endpoints'[d]) = Stopped(e)
      /\ \A x \in Dns \ {d} : Stopped(endpoints'[x]) = Stopped(endpoints[x])
      /\ Stopped(ssh') = Stopped(ssh)
  OBVIOUS
<1>4. \A i : i \in running' <=> Owned(i)'
  BY <1>1, <1>2, <1>3 DEF Owned
<1>5. /\ \A x \in Dns : Stopped(endpoints[x]) \subseteq running
      /\ Stopped(ssh) \subseteq running
  BY <1>1 DEF Owned
<1>6. \A x \in Dns : /\ Stopped(endpoints'[x]) \cap Stopped(ssh') = {}
                     /\ \A y \in Dns \ {x} : Stopped(endpoints'[x]) \cap Stopped(endpoints'[y]) = {}
  <2> SUFFICES ASSUME NEW x \in Dns
               PROVE  /\ Stopped(endpoints'[x]) \cap Stopped(ssh') = {}
                      /\ \A y \in Dns \ {x} : Stopped(endpoints'[x]) \cap Stopped(endpoints'[y]) = {}
    OBVIOUS
  <2>1. /\ Stopped(endpoints[x]) \cap Stopped(ssh) = {}
        /\ \A y \in Dns \ {x} : Stopped(endpoints[x]) \cap Stopped(endpoints[y]) = {}
    BY DEF NoOrphans
  <2> QED BY <1>3, <1>5, <2>1
<1>7. (running = Stopped(ssh) \cup UNION {Stopped(endpoints[x]) : x \in Dns})'
  BY <1>4, OrphansByElement DEF Owned
<1> QED BY <1>6, <1>7 DEF NoOrphans

\* The same of the SSH slot.
LEMMA ReplaceSsh ==
    ASSUME NoOrphans, Stopped(ssh') \cap running = {}, endpoints' = endpoints,
           running' = (running \ Stopped(ssh)) \cup Stopped(ssh')
    PROVE  NoOrphans'
<1>1. \A i : i \in running <=> Owned(i)
  BY OrphansByElement DEF NoOrphans, Owned
<1>2. \A x \in Dns : Stopped(endpoints[x]) \cap Stopped(ssh) = {}
  BY DEF NoOrphans
<1>3. \A i : i \in running' <=> Owned(i)'
  BY <1>1, <1>2 DEF Owned
<1>4. \A x \in Dns : Stopped(endpoints[x]) \cap Stopped(ssh') = {}
  BY <1>1 DEF Owned
<1>5. (running = Stopped(ssh) \cup UNION {Stopped(endpoints[x]) : x \in Dns})'
  BY <1>3, OrphansByElement DEF Owned
<1> QED BY <1>4, <1>5 DEF NoOrphans

\* Entries are removed and their instances stopped (retain).
LEMMA RemoveEntries ==
    ASSUME NoOrphans, NEW kept, ssh' = ssh,
           endpoints' = [d \in Dns |-> IF d \in kept THEN endpoints[d] ELSE None],
           running' = running \ UNION {Stopped(endpoints[d]) : d \in Dns \ kept}
    PROVE  NoOrphans'
<1>1. \A i : i \in running <=> Owned(i)
  BY OrphansByElement DEF NoOrphans, Owned
<1>2. \A x \in Dns : Stopped(endpoints'[x]) = IF x \in kept THEN Stopped(endpoints[x]) ELSE {}
  BY StoppedFacts
<1>3. \A i : i \in running' <=> i \in running /\ ~\E d \in Dns \ kept : i \in Stopped(endpoints[d])
  OBVIOUS
<1>4. \A x \in Dns : /\ Stopped(endpoints[x]) \cap Stopped(ssh) = {}
                     /\ \A y \in Dns \ {x} : Stopped(endpoints[x]) \cap Stopped(endpoints[y]) = {}
  BY DEF NoOrphans
<1>5. \A i : i \in running' <=> Owned(i)'
  <2>1. \A i : Owned(i)' <=> i \in Stopped(ssh) \/ \E d \in Dns \cap kept : i \in Stopped(endpoints[d])
    BY <1>2 DEF Owned
  <2>2. \A i : Owned(i) <=> i \in Stopped(ssh) \/ \E d \in Dns : i \in Stopped(endpoints[d])
    BY DEF Owned
  <2>3. ASSUME NEW i PROVE i \in running' <=> Owned(i)'
    <3>1. CASE i \in Stopped(ssh)
      BY <1>1, <1>3, <1>4, <2>1, <2>2, <3>1
    <3>2. CASE \E d \in Dns : i \in Stopped(endpoints[d])
      <4>1. PICK d \in Dns : i \in Stopped(endpoints[d])
        BY <3>2
      <4>2. \A x \in Dns \ {d} : i \notin Stopped(endpoints[x])
        BY <1>4, <4>1
      <4>3. i \notin Stopped(ssh) /\ i \in running
        BY <1>1, <1>4, <2>2, <4>1
      <4>4. i \in running' <=> d \in kept
        BY <1>3, <4>1, <4>2, <4>3
      <4>5. Owned(i)' <=> d \in kept
        BY <2>1, <4>1, <4>2, <4>3
      <4> QED BY <4>4, <4>5
    <3>3. CASE i \notin Stopped(ssh) /\ ~\E d \in Dns : i \in Stopped(endpoints[d])
      BY <1>1, <1>3, <2>1, <2>2, <3>3
    <3> QED BY <3>1, <3>2, <3>3
  <2> QED BY <2>3
<1>6. \A x \in Dns : /\ Stopped(endpoints'[x]) \cap Stopped(ssh') = {}
                     /\ \A y \in Dns \ {x} : Stopped(endpoints'[x]) \cap Stopped(endpoints'[y]) = {}
  BY <1>2, <1>4
<1>7. (running = Stopped(ssh) \cup UNION {Stopped(endpoints[x]) : x \in Dns})'
  <2>1. \A i : i \in running' <=> (i \in Stopped(ssh') \/ \E d \in Dns : i \in Stopped(endpoints'[d]))
    BY <1>5 DEF Owned
  <2> QED BY ONLY <2>1, OrphansByElement
<1> QED BY <1>6, <1>7 DEF NoOrphans

-----------------------------------------------------------------------------
(* Steps that leave the runner alone.                                      *)

\* A step of the files, the watcher or the info server.
LEMMA FrameKeeps ==
    ASSUME Inv, Typed', UNCHANGED <<loaded, runner, pc, applied>>
    PROVE  Inv'
<1>1. UNCHANGED <<newconfig, todo, key, statusmeta, endpoints, ssh, running, pc, applied>>
  BY DEF loaded, runner
<1>2. NoOrphans' /\ KeyKept'
  BY <1>1 DEF Inv, NoOrphans, KeyKept
<1>3. Suffix' /\ StoppedFirst'
  BY <1>1 DEF Inv, Suffix, StoppedFirst, Applying, Handled
<1>4. AllSettled' /\ Progress'
  BY <1>1 DEF Inv, AllSettled, Progress, Applying, Handled, Pending
<1>5. LastApplied'
  BY <1>1 DEF Inv, LastApplied, Applying, EndpointsMatch, SshMatches
<1> QED BY <1>2, <1>3, <1>4, <1>5 DEF Inv

\* A step of the loop before it changes the map.
LEMMA OutsideKeeps ==
    ASSUME Inv, Typed', ~Applying, ~Applying', UNCHANGED <<endpoints, ssh, running, applied>>,
           KeyKept'
    PROVE  Inv'
<1>1. pc # "spawning" /\ pc # "ssh_spawning" /\ pc' # "spawning" /\ pc' # "ssh_spawning"
  BY DEF Applying
<1>2. NoOrphans'
  BY DEF Inv, NoOrphans
<1>3. Suffix' /\ StoppedFirst' /\ Progress'
  BY <1>1 DEF Suffix, StoppedFirst, Progress
<1>4. AllSettled'
  BY <1>1 DEF Inv, AllSettled, Pending
<1>5. LastApplied'
  BY DEF Inv, LastApplied, EndpointsMatch, SshMatches
<1> QED BY <1>2, <1>3, <1>4, <1>5 DEF Inv

\* A daemon that starts has applied nothing.
LEMMA InvInit == Init => Inv
<1> SUFFICES ASSUME Init PROVE Inv
  OBVIOUS
<1>1. Typed
  <2>1. FlagsTyped
    BY DEF Init, FlagsTyped
  <2>2. FilesTyped /\ CountersTyped
    BY RunnerAssumption DEF Init, FilesTyped, CountersTyped
  <2>3. LoadedTyped /\ RunnerTyped /\ PcTyped
    BY DEF Init, LoadedTyped, RunnerTyped, PcTyped
  <2> QED BY <2>1, <2>2, <2>3 DEF Typed
<1>2. \A d \in Dns : Stopped(endpoints[d]) = {} /\ Settled(endpoints[d])
  BY StoppedFacts DEF Init, Settled
<1>3. NoOrphans
  <2>1. \A i : i \in running <=> (i \in Stopped(ssh) \/ \E d \in Dns : i \in Stopped(endpoints[d]))
    BY <1>2, StoppedFacts DEF Init
  <2>2. running = Stopped(ssh) \cup UNION {Stopped(endpoints[d]) : d \in Dns}
    BY ONLY <2>1, OrphansByElement
  <2> QED BY <1>2, <2>2 DEF NoOrphans
<1>4. Suffix /\ StoppedFirst /\ Progress /\ LastApplied
  BY DEF Init, Suffix, StoppedFirst, Progress, LastApplied, Applying
<1>5. AllSettled
  BY <1>2 DEF Init, AllSettled, Settled
<1>6. KeyKept
  BY DEF Init, KeyKept
<1> QED BY <1>1, <1>3, <1>4, <1>5, <1>6 DEF Inv

\* The command line and other writers change the files only.
LEMMA InvFiles == Inv /\ (Write \/ FinishWrite \/ WriterDies) => Inv'
<1> SUFFICES ASSUME Inv, Write \/ FinishWrite \/ WriterDies PROVE Inv'
  OBVIOUS
<1>1. Typed
  BY DEF Inv
<1>2. UNCHANGED <<watching, permit, loaded, runner, pc, asked, restarts, applied>>
  BY DEF Write, BeginWrite, FinishWrite, WriterDies, notify
<1>3. FlagsTyped' /\ LoadedTyped' /\ RunnerTyped' /\ PcTyped'
  BY <1>1, <1>2 DEF Typed, FlagsTyped, LoadedTyped, RunnerTyped, PcTyped, loaded, runner
<1>4. CountersTyped'
  BY <1>1, <1>2, RunnerAssumption
     DEF Typed, CountersTyped, Write, BeginWrite, FinishWrite, WriterDies, Changed, notify
<1>5. FilesTyped'
  BY <1>1 DEF Typed, FilesTyped, Write, BeginWrite, FinishWrite, WriterDies
<1>6. Typed'
  BY <1>3, <1>4, <1>5 DEF Typed
<1> QED BY <1>2, <1>6, FrameKeeps

\* The watcher and the status command around the runner.
LEMMA InvSurroundings ==
    Inv /\ (WatcherNotifies \/ WatcherPanics \/ AskStatus \/ Status \/ UNCHANGED vars) => Inv'
<1> SUFFICES ASSUME Inv, WatcherNotifies \/ WatcherPanics \/ AskStatus \/ Status \/ UNCHANGED vars
             PROVE  Inv'
  OBVIOUS
<1>1. Typed
  BY DEF Inv
<1>2. UNCHANGED <<files, restarts, loaded, runner, pc, applied>>
  BY DEF WatcherNotifies, WatcherPanics, AskStatus, Status, vars
<1>3. FilesTyped' /\ LoadedTyped' /\ RunnerTyped' /\ PcTyped'
  BY <1>1, <1>2 DEF Typed, FilesTyped, LoadedTyped, RunnerTyped, PcTyped, files, loaded, runner
<1>4. CountersTyped'
  BY <1>1, <1>2 DEF Typed, CountersTyped, WatcherNotifies, WatcherPanics, AskStatus, Status,
                    vars, files, notify
<1>5. FlagsTyped'
  BY <1>1, Zenon DEF Typed, FlagsTyped, WatcherNotifies, WatcherPanics, AskStatus, Status,
                     vars, notify
<1>6. Typed'
  BY <1>3, <1>4, <1>5 DEF Typed
<1> QED BY <1>2, <1>6, FrameKeeps

\* Starting, loading, waiting for the mutex and for the next notification.
LEMMA InvLoad ==
    Inv /\ (Boot \/ LoadConfig \/ LoadKey \/ ReportError \/ Lock \/ Notified) => Inv'
<1> SUFFICES ASSUME Inv, Boot \/ LoadConfig \/ LoadKey \/ ReportError \/ Lock \/ Notified
             PROVE  Inv'
  OBVIOUS
<1>1. UNCHANGED <<files, runner, asked, restarts, applied>>
  BY DEF Boot, LoadConfig, LoadKey, ReportError, Lock, Notified
<1>2. ~Applying /\ ~Applying' /\ PcTyped'
  BY DEF Applying, PcTyped, Boot, LoadConfig, LoadKey, ReportError, Lock, Notified
<1>3. KeyKept'
  BY <1>1 DEF Inv, KeyKept, runner
<1>4. Typed'
  <2>1. Typed
    BY DEF Inv
  <2>2. FilesTyped' /\ RunnerTyped'
    BY <1>1, <2>1 DEF Typed, FilesTyped, RunnerTyped, files, runner
  <2>3. CountersTyped'
    BY <1>1, <2>1 DEF Typed, CountersTyped, Boot, LoadConfig, LoadKey, ReportError, Lock, Notified,
                      files, notify
  <2>4. FlagsTyped'
    BY <1>1, <2>1, Zenon DEF Typed, FlagsTyped, Boot, LoadConfig, LoadKey, ReportError, Lock,
                             Notified, notify
  <2>5. LoadedTyped'
    BY <2>1 DEF Typed, LoadedTyped, Boot, LoadConfig, LoadKey, ReportError, Lock, Notified, loaded
  <2> QED BY <1>2, <2>2, <2>3, <2>4, <2>5 DEF Typed
<1> QED BY <1>1, <1>2, <1>3, <1>4, OutsideKeeps DEF runner

\* A restart loses what is in memory and keeps the files.
LEMMA InvRestart == Inv /\ Restart => Inv'
<1> SUFFICES ASSUME Inv, Restart PROVE Inv'
  OBVIOUS
<1>1. Typed'
  <2>1. FilesTyped' /\ CountersTyped'
    BY RunnerAssumption DEF Inv, Typed, Restart, FilesTyped, CountersTyped, files
  <2>2. FlagsTyped'
    BY DEF Restart, FlagsTyped
  <2>3. LoadedTyped' /\ RunnerTyped' /\ PcTyped'
    BY DEF Restart, LoadedTyped, RunnerTyped, PcTyped
  <2> QED BY <2>1, <2>2, <2>3 DEF Typed
<1>2. \A d \in Dns : Stopped(endpoints'[d]) = {} /\ Settled(endpoints'[d])
  BY StoppedFacts DEF Restart, Settled
<1>3. NoOrphans'
  <2>1. \A i : i \in running' <=> (i \in Stopped(ssh') \/ \E d \in Dns : i \in Stopped(endpoints'[d]))
    BY <1>2, StoppedFacts DEF Restart
  <2>2. running' = Stopped(ssh') \cup UNION {Stopped(endpoints'[d]) : d \in Dns}
    BY ONLY <2>1, OrphansByElement
  <2> QED BY <1>2, <2>2 DEF NoOrphans
<1>4. Suffix' /\ StoppedFirst' /\ Progress' /\ LastApplied'
  BY DEF Restart, Suffix, StoppedFirst, Progress, LastApplied, Applying
<1>5. AllSettled'
  BY <1>2 DEF Restart, AllSettled, Settled
<1>6. KeyKept'
  BY DEF Restart, KeyKept
<1> QED BY <1>1, <1>3, <1>4, <1>5, <1>6 DEF Inv

-----------------------------------------------------------------------------
(* Steps of update_config.                                                 *)

\* The early returns and retain.
LEMMA InvUpdateConfig == Inv /\ UpdateConfig => Inv'
<1> SUFFICES ASSUME Inv, UpdateConfig PROVE Inv'
  OBVIOUS
<1>1. pc = "update" /\ newkey' = None
      /\ UNCHANGED <<files, notify, newconfig, unread, ssh, asked, restarts, applied>>
  BY DEF UpdateConfig
<1>2. FilesTyped' /\ CountersTyped' /\ FlagsTyped'
  BY <1>1 DEF Inv, Typed, FilesTyped, CountersTyped, FlagsTyped, files, notify
<1>3. key' \in Keys \cup {None} /\ (key # None => key' # None)
  BY RunnerAssumption DEF UpdateConfig, Inv, Typed, LoadedTyped, RunnerTyped
<1>4. CASE key' = None \/ newconfig = None
  <2>1. pc' = "wait" /\ UNCHANGED <<todo, endpoints, running>>
    BY <1>4 DEF UpdateConfig
  <2>2. statusmeta' = (IF key' = None THEN "Uninitialized" ELSE "Good")
    BY <1>4 DEF UpdateConfig
  <2>3. ~Applying /\ ~Applying' /\ KeyKept' /\ PcTyped'
    BY <1>1, <2>1, <2>2 DEF Applying, KeyKept, PcTyped
  <2>4. LoadedTyped' /\ RunnerTyped'
    BY <1>1, <1>3, <2>1, <2>2 DEF Inv, Typed, LoadedTyped, RunnerTyped
  <2> QED BY <1>1, <1>2, <2>1, <2>3, <2>4, OutsideKeeps DEF Typed
<1>5. CASE key' # None /\ newconfig # None
  <2>1. /\ statusmeta' = "Good" /\ pc' = "endpoints" /\ todo' = newconfig.endpoints
        /\ endpoints' = [d \in Dns |-> IF d \in Names(newconfig) THEN endpoints[d] ELSE None]
        /\ running' = running \ UNION {Stopped(endpoints[d]) : d \in Dns \ Names(newconfig)}
    BY <1>5 DEF UpdateConfig
  <2>2. newconfig \in Configs /\ newconfig.endpoints \in Seq(EndpointConfig)
    BY <1>5, RunnerAssumption DEF Inv, Typed, LoadedTyped
  <2>3. Typed'
    <3>1. LoadedTyped' /\ PcTyped'
      BY <1>1, <2>1, <2>2 DEF Inv, Typed, LoadedTyped, PcTyped
    <3>2. running' \subseteq Ids
      BY <2>1 DEF Inv, Typed, RunnerTyped
    <3>3. RunnerTyped'
      BY <1>1, <1>3, <2>1, <3>2 DEF Inv, Typed, RunnerTyped
    <3> QED BY <1>2, <3>1, <3>3 DEF Typed
  <2>4. NoOrphans'
    BY <1>1, <2>1, RemoveEntries DEF Inv
  <2>5. Suffix' /\ StoppedFirst'
    BY <1>1, <2>1, <2>2 DEF Suffix, StoppedFirst, Handled
  <2>6. AllSettled'
    BY <1>1, <2>1 DEF Inv, AllSettled, Pending, Settled
  <2>7. Progress'
    <3>1. Handled' = 0
      BY <1>1, <2>1, <2>2 DEF Handled
    <3>2. \A d \in Dns \ Names(newconfig) : endpoints'[d] = None
      BY <2>1
    <3> QED BY <1>1, <3>1, <3>2 DEF Progress, Names
  <2>8. LastApplied' /\ KeyKept'
    BY <1>5, <2>1 DEF LastApplied, Applying, KeyKept
  <2> QED BY <2>3, <2>4, <2>5, <2>6, <2>7, <2>8 DEF Inv
<1> QED BY <1>4, <1>5

\* The entry at hand and the ones after it.
LEMMA HeadFacts ==
    ASSUME Inv, Applying, todo # <<>>
    PROVE  /\ newconfig \in Configs /\ newconfig.endpoints \in Seq(EndpointConfig)
           /\ Handled \in Nat /\ Handled + 1 \in 1 .. Len(newconfig.endpoints)
           /\ Head(todo) = newconfig.endpoints[Handled + 1]
           /\ Head(todo) \in EndpointConfig /\ Head(todo).dns \in Dns
           /\ Head(todo).dns \in Names(newconfig)
           /\ Tail(todo) \in Seq(EndpointConfig) /\ Len(Tail(todo)) = Len(todo) - 1
           /\ \A n \in 1 .. Len(Tail(todo)) :
                 Tail(todo)[n] = newconfig.endpoints[Handled + 1 + n]
<1>1. newconfig \in Configs /\ newconfig.endpoints \in Seq(EndpointConfig)
  BY RunnerAssumption DEF Inv, Suffix
<1>2. todo \in Seq(EndpointConfig) /\ Len(todo) \in Nat \ {0} /\ Len(newconfig.endpoints) \in Nat
  BY <1>1 DEF Inv, Typed, LoadedTyped
<1>3. /\ Len(todo) <= Len(newconfig.endpoints)
      /\ \A n \in 1 .. Len(todo) : todo[n] = newconfig.endpoints[Handled + n]
  BY DEF Inv, Suffix
<1>4. Handled \in Nat /\ Handled + 1 \in 1 .. Len(newconfig.endpoints)
  BY <1>2, <1>3 DEF Handled
<1>5. Head(todo) = todo[1] /\ 1 \in 1 .. Len(todo) /\ Head(todo) \in EndpointConfig
  BY <1>2
<1>6. Head(todo) = newconfig.endpoints[Handled + 1]
  BY <1>3, <1>5
<1>7. Head(todo).dns \in Dns /\ Head(todo).dns \in Names(newconfig)
  BY <1>1, <1>4, <1>5, <1>6 DEF EndpointConfig, Names
<1>8. /\ Tail(todo) \in Seq(EndpointConfig) /\ Len(Tail(todo)) = Len(todo) - 1
      /\ \A n \in 1 .. Len(todo) - 1 : Tail(todo)[n] = todo[n + 1]
  BY <1>2
<1>9. \A n \in 1 .. Len(todo) - 1 : todo[n + 1] = newconfig.endpoints[Handled + 1 + n]
  <2> TAKE n \in 1 .. Len(todo) - 1
  <2>1. n + 1 \in 1 .. Len(todo) /\ Handled + (n + 1) = Handled + 1 + n
    BY <1>2, <1>4
  <2> QED BY <1>3, <2>1
<1> QED BY <1>1, <1>4, <1>5, <1>6, <1>7, <1>8, <1>9

\* The entry at hand is done and in force.
LEMMA EntryDone ==
    ASSUME Inv, pc \in {"endpoints", "spawning"}, todo # <<>>,
           newconfig' = newconfig, ssh' = ssh, pc' = "endpoints", todo' = Tail(todo),
           \A d \in Dns \ {Head(todo).dns} : endpoints'[d] = endpoints[d],
           InForce(endpoints'[Head(todo).dns], Head(todo)),
           Settled(endpoints'[Head(todo).dns])
    PROVE  Suffix' /\ StoppedFirst' /\ AllSettled' /\ Progress' /\ LastApplied'
<1>1. Applying
  BY DEF Applying
<1> DEFINE es == newconfig.endpoints
           e == Head(todo)
<1>2. /\ newconfig \in Configs /\ es \in Seq(EndpointConfig)
      /\ Handled \in Nat /\ Handled + 1 \in 1 .. Len(es)
      /\ e = es[Handled + 1] /\ e.dns \in Dns /\ e.dns \in Names(newconfig)
      /\ Len(Tail(todo)) = Len(todo) - 1
      /\ \A n \in 1 .. Len(Tail(todo)) : Tail(todo)[n] = es[Handled + 1 + n]
  BY <1>1, HeadFacts
<1>3. Handled' = Handled + 1 /\ Len(Tail(todo)) <= Len(es) /\ Len(todo) \in Nat
  BY <1>1, <1>2 DEF Handled, Inv, Suffix, Typed, LoadedTyped
<1>4. Suffix'
  BY <1>2, <1>3 DEF Suffix
<1>5. StoppedFirst' /\ LastApplied'
  BY DEF StoppedFirst, LastApplied, Applying
<1>6. AllSettled'
  BY DEF Inv, AllSettled, Pending
<1>7. ASSUME NEW n \in 1 .. Handled + 1,
             \A m \in 1 .. Handled + 1 : m > n => es[m].dns # es[n].dns
      PROVE  InForce(endpoints'[es[n].dns], es[n])
  <2>1. CASE n = Handled + 1
    BY <1>2, <2>1
  <2>2. CASE n \in 1 .. Handled
    <3>1. es[n] \in EndpointConfig /\ es[n].dns \in Dns
      <4>1. n \in 1 .. Len(es)
        BY <1>2, <2>2
      <4>2. es[n] \in EndpointConfig
        BY <1>2, <4>1
      <4> QED BY <4>2 DEF EndpointConfig
    <3>2. es[n].dns # e.dns
      BY <1>2, <1>7, <2>2
    <3>3. \A m \in 1 .. Handled : m > n => es[m].dns # es[n].dns
      BY <1>2, <1>7
    <3>4. InForce(endpoints[es[n].dns], es[n])
      BY <1>1, <2>2, <3>2, <3>3 DEF Inv, Progress, Pending
    <3> QED BY <3>1, <3>2, <3>4
  <2> QED BY <1>2, <2>1, <2>2
<1>8. \A d \in Dns \ Names(newconfig) : endpoints'[d] = None
  BY <1>1, <1>2 DEF Inv, Progress
<1>9. Progress'
  BY <1>3, <1>7, <1>8 DEF Progress, Names
<1> QED BY <1>4, <1>5, <1>6, <1>9

\* One entry of the new configuration.
LEMMA InvHandleEndpoint == Inv /\ HandleEndpoint => Inv'
<1> SUFFICES ASSUME Inv, HandleEndpoint PROVE Inv'
  OBVIOUS
<1> DEFINE e == Head(todo)
           old == endpoints[e.dns]
<1>1. /\ pc = "endpoints" /\ todo # <<>> /\ Applying
      /\ UNCHANGED <<files, notify, newconfig, newkey, unread, key, statusmeta, ssh, asked,
                     restarts, applied>>
  BY DEF HandleEndpoint, Applying
<1>2. e \in EndpointConfig /\ e.dns \in Dns /\ Tail(todo) \in Seq(EndpointConfig)
  BY <1>1, HeadFacts
<1>3. FilesTyped' /\ CountersTyped' /\ FlagsTyped' /\ KeyKept'
  BY <1>1 DEF Inv, Typed, FilesTyped, CountersTyped, FlagsTyped, KeyKept, files, notify
<1>4. /\ endpoints \in [Dns -> Entry(EndpointConfig) \cup {None}] /\ running \subseteq Ids
      /\ old \in Entry(EndpointConfig) \cup {None}
  BY <1>2 DEF Inv, Typed, RunnerTyped
<1>5. ASSUME todo' = Tail(todo) \/ todo' = todo, PcTyped', running' \subseteq running,
             endpoints' \in [Dns -> Entry(EndpointConfig) \cup {None}]
      PROVE  Typed'
  <2>1. LoadedTyped'
    BY <1>1, <1>2, <1>5 DEF Inv, Typed, LoadedTyped
  <2>2. RunnerTyped'
    BY <1>1, <1>4, <1>5 DEF Inv, Typed, RunnerTyped
  <2> QED BY <1>3, <1>5, <2>1, <2>2 DEF Typed
<1>6. CASE Same(old, e) /\ todo' = Tail(todo) /\ UNCHANGED <<endpoints, running, pc>>
  <2>1. Settled(old)
    BY <1>1, <1>2 DEF Inv, AllSettled, Pending
  <2>2. InForce(old, e)
    BY <1>2, <1>4, <1>6, <2>1, SameInForce
  <2>3. Suffix' /\ StoppedFirst' /\ AllSettled' /\ Progress' /\ LastApplied'
    BY <1>1, <1>6, <2>1, <2>2, EntryDone
  <2>4. NoOrphans'
    BY <1>1, <1>6 DEF Inv, NoOrphans
  <2>5. Typed'
    BY <1>1, <1>4, <1>5, <1>6 DEF PcTyped
  <2> QED BY <1>3, <2>3, <2>4, <2>5 DEF Inv
<1>7. CASE /\ ~e.enabled /\ running' = running \ Stopped(old)
           /\ endpoints' = [endpoints EXCEPT ![e.dns] = Disabled(e)]
           /\ todo' = Tail(todo) /\ UNCHANGED pc
  <2>1. endpoints'[e.dns] = Disabled(e) /\ \A d \in Dns \ {e.dns} : endpoints'[d] = endpoints[d]
    BY <1>2, <1>4, <1>7
  <2>2. InForce(Disabled(e), e) /\ Settled(Disabled(e))
    BY <1>2, <1>7, NewInForce
  <2>3. Suffix' /\ StoppedFirst' /\ AllSettled' /\ Progress' /\ LastApplied'
    BY <1>1, <1>7, <2>1, <2>2, EntryDone
  <2>4. Disabled(e) \in Entry(EndpointConfig) /\ Stopped(Disabled(e)) = {}
    BY <1>2, StoppedFacts DEF Disabled, Entry
  <2>5. NoOrphans'
    BY <1>1, <1>2, <1>4, <1>7, <2>4, ReplaceEntry DEF Inv
  <2>6. Typed'
    BY <1>1, <1>2, <1>4, <1>5, <1>7, <2>4 DEF PcTyped
  <2> QED BY <1>3, <2>3, <2>5, <2>6 DEF Inv
<1>8. CASE /\ e.enabled /\ running' = running \ Stopped(old) /\ pc' = "spawning" /\ todo' = todo
           /\ endpoints' = IF old = None THEN endpoints
                           ELSE [endpoints EXCEPT ![e.dns] = Disabled(old.cfg)]
  <2> DEFINE x == IF old = None THEN None ELSE Disabled(old.cfg)
  <2>1. x \in Entry(EndpointConfig) \cup {None}
    BY <1>4 DEF Disabled, Entry
  <2>2. Stopped(x) = {}
    BY StoppedFacts
  <2>3. endpoints' = [endpoints EXCEPT ![e.dns] = x]
    BY <1>2, <1>4, <1>8
  <2>4. endpoints'[e.dns] = x /\ \A d \in Dns \ {e.dns} : endpoints'[d] = endpoints[d]
    BY <1>2, <1>4, <2>3
  <2> HIDE DEF x
  <2>5. NoOrphans'
    <3>1. running' = (running \ Stopped(endpoints[e.dns])) \cup Stopped(x)
      BY <1>8, <2>2
    <3>2. NoOrphans /\ DOMAIN endpoints = Dns /\ Stopped(x) \cap running = {} /\ ssh' = ssh
      BY <1>1, <1>4, <2>2 DEF Inv
    <3> QED BY <1>2, <2>3, <3>1, <3>2, ReplaceEntry
  <2>6. Typed'
    BY <1>1, <1>2, <1>4, <1>5, <1>8, <2>1, <2>3 DEF PcTyped
  <2>7. Suffix'
    BY <1>1, <1>8 DEF Inv, Suffix, Applying, Handled
  <2>8. StoppedFirst' /\ LastApplied'
    BY <1>1, <1>8, <2>2, <2>4 DEF StoppedFirst, LastApplied, Applying
  <2>9. AllSettled'
    BY <1>1, <1>8, <2>4 DEF Inv, AllSettled, Pending
  <2>10. Progress'
    <3> DEFINE es == newconfig.endpoints
    <3>1. \A d \in Dns \ Names(newconfig) : endpoints'[d] = None
      BY <1>1, <2>4, HeadFacts DEF Inv, Progress
    <3>2. ASSUME NEW n \in 1 .. Handled,
                 \A m \in 1 .. Handled : m > n => es[m].dns # es[n].dns
          PROVE  es[n].dns = e.dns \/ InForce(endpoints'[es[n].dns], es[n])
      <4>1. InForce(endpoints[es[n].dns], es[n])
        BY <1>1, <3>2 DEF Inv, Progress, Pending
      <4>2. n \in 1 .. Len(es) /\ es \in Seq(EndpointConfig)
        BY <1>1, HeadFacts
      <4>3. es[n] \in EndpointConfig
        BY <4>2
      <4>4. es[n].dns \in Dns
        BY <4>3 DEF EndpointConfig
      <4> QED BY <2>4, <4>1, <4>4
    <3>3. Handled' = Handled /\ \A d : Pending(d)' <=> d = e.dns
      BY <1>1, <1>8 DEF Handled, Pending
    <3> QED BY <1>1, <3>1, <3>2, <3>3 DEF Progress, Names
  <2> QED BY <1>3, <2>5, <2>6, <2>7, <2>8, <2>9, <2>10 DEF Inv
<1> QED BY <1>6, <1>7, <1>8 DEF HandleEndpoint

\* The instance awaited is there.
LEMMA InvSpawnEndpoint == Inv /\ SpawnEndpoint => Inv'
<1> SUFFICES ASSUME Inv, SpawnEndpoint PROVE Inv'
  OBVIOUS
<1> DEFINE e == Head(todo)
<1>1. /\ pc = "spawning" /\ Applying /\ pc' = "endpoints" /\ todo' = Tail(todo)
      /\ running' = running \cup {Fresh}
      /\ endpoints' = [endpoints EXCEPT ![e.dns] = Enabled(e, Fresh)]
      /\ UNCHANGED <<files, notify, newconfig, newkey, unread, key, statusmeta, ssh, asked,
                     restarts, applied>>
  BY DEF SpawnEndpoint, Applying
<1>2. todo # <<>> /\ e.enabled /\ Stopped(endpoints[e.dns]) = {}
  BY <1>1 DEF Inv, StoppedFirst
<1>3. e \in EndpointConfig /\ e.dns \in Dns /\ Tail(todo) \in Seq(EndpointConfig)
  BY <1>1, <1>2, HeadFacts
<1>4. Fresh \in Ids /\ Fresh \notin running
  BY FreshFacts DEF SpawnEndpoint
<1>5. /\ Enabled(e, Fresh) \in Entry(EndpointConfig) /\ Stopped(Enabled(e, Fresh)) = {Fresh}
      /\ InForce(Enabled(e, Fresh), e) /\ Settled(Enabled(e, Fresh))
  <2>1. Enabled(e, Fresh) \in Entry(EndpointConfig)
    BY <1>3, <1>4 DEF Enabled, Entry
  <2> QED BY <1>2, <1>3, <1>4, <2>1, StoppedFacts, NewInForce
<1>6. endpoints \in [Dns -> Entry(EndpointConfig) \cup {None}]
  BY DEF Inv, Typed, RunnerTyped
<1>7. endpoints'[e.dns] = Enabled(e, Fresh) /\ \A d \in Dns \ {e.dns} : endpoints'[d] = endpoints[d]
  BY <1>1, <1>3, <1>6
<1>8. NoOrphans'
  <2>1. running' = (running \ Stopped(endpoints[e.dns])) \cup Stopped(Enabled(e, Fresh))
    BY <1>1, <1>2, <1>5
  <2>2. /\ NoOrphans /\ DOMAIN endpoints = Dns /\ Stopped(Enabled(e, Fresh)) \cap running = {}
        /\ ssh' = ssh
    BY <1>1, <1>4, <1>5, <1>6 DEF Inv
  <2> QED BY <1>1, <1>3, <2>1, <2>2, ReplaceEntry
<1>9. Suffix' /\ StoppedFirst' /\ AllSettled' /\ Progress' /\ LastApplied'
  BY <1>1, <1>2, <1>5, <1>7, EntryDone
<1>10. Typed'
  <2>1. FilesTyped' /\ CountersTyped' /\ FlagsTyped'
    BY <1>1 DEF Inv, Typed, FilesTyped, CountersTyped, FlagsTyped, files, notify
  <2>2. LoadedTyped' /\ PcTyped'
    BY <1>1, <1>3 DEF Inv, Typed, LoadedTyped, PcTyped
  <2>3. RunnerTyped'
    BY <1>1, <1>3, <1>4, <1>5 DEF Inv, Typed, RunnerTyped
  <2> QED BY <2>1, <2>2, <2>3 DEF Typed
<1>11. KeyKept'
  BY <1>1 DEF Inv, KeyKept
<1> QED BY <1>8, <1>9, <1>10, <1>11 DEF Inv

\* All entries are done.
LEMMA InvEndpointsDone == Inv /\ EndpointsDone => Inv'
<1> SUFFICES ASSUME Inv, EndpointsDone PROVE Inv'
  OBVIOUS
<1>1. /\ pc = "endpoints" /\ todo = <<>> /\ pc' = "ssh"
      /\ UNCHANGED <<files, notify, newconfig, newkey, todo, unread, key, statusmeta, endpoints, ssh,
                     running, asked, restarts, applied>>
  BY DEF EndpointsDone, loaded, runner
<1>2. Typed'
  BY <1>1 DEF Inv, Typed, FilesTyped, CountersTyped, FlagsTyped, LoadedTyped, RunnerTyped, PcTyped,
              files, notify
<1>3. NoOrphans' /\ KeyKept'
  BY <1>1 DEF Inv, NoOrphans, KeyKept
<1>4. Suffix' /\ StoppedFirst' /\ LastApplied'
  BY <1>1 DEF Inv, Suffix, StoppedFirst, LastApplied, Applying, Handled
<1>5. AllSettled' /\ Progress'
  BY <1>1 DEF Inv, AllSettled, Progress, Pending, Applying, Handled
<1> QED BY <1>2, <1>3, <1>4, <1>5 DEF Inv

\* With all entries done, the map is that of the new configuration.
LEMMA AllDone ==
    ASSUME Inv, pc \in {"ssh", "ssh_spawning"}, UNCHANGED <<endpoints, newconfig>>
    PROVE  newconfig \in Configs /\ EndpointsMatch(newconfig)'
<1>1. Applying /\ newconfig \in Configs /\ todo = <<>>
  BY DEF Inv, Suffix, Applying
<1>2. Handled = Len(newconfig.endpoints) /\ DOMAIN newconfig.endpoints = 1 .. Handled
  BY <1>1, RunnerAssumption DEF Handled
<1>3. \A d : ~Pending(d)
  BY DEF Pending
<1> QED BY <1>1, <1>2, <1>3 DEF Inv, Progress, EndpointsMatch, IsLast, Names

\* The SSH slot is done: the configuration is applied and the mutex released.
LEMMA SshDone ==
    ASSUME Inv, pc \in {"ssh", "ssh_spawning"}, pc' = "wait", applied' = newconfig,
           UNCHANGED <<endpoints, newconfig>>, SshMatches(newconfig)', Settled(ssh')
    PROVE  Suffix' /\ StoppedFirst' /\ AllSettled' /\ Progress' /\ LastApplied'
<1>1. newconfig \in Configs /\ EndpointsMatch(newconfig)'
  BY AllDone
<1>2. Suffix' /\ StoppedFirst' /\ Progress'
  BY DEF Suffix, StoppedFirst, Progress, Applying
<1>3. AllSettled'
  BY DEF Inv, AllSettled, Pending
<1>4. LastApplied'
  BY <1>1 DEF LastApplied, EndpointsMatch, SshMatches, IsLast, Names
<1> QED BY <1>2, <1>3, <1>4

\* The SSH entry of the new configuration is compared.
LEMMA InvHandleSsh == Inv /\ HandleSsh => Inv'
<1> SUFFICES ASSUME Inv, HandleSsh PROVE Inv'
  OBVIOUS
<1> DEFINE new == newconfig.ssh
<1>1. /\ pc = "ssh"
      /\ UNCHANGED <<files, notify, newconfig, newkey, todo, unread, key, statusmeta, endpoints,
                     asked, restarts>>
  BY DEF HandleSsh, loaded
<1>2. newconfig \in Configs /\ (new = None \/ new \in SshConfig)
  BY <1>1, AllDone, RunnerAssumption
<1>3. (ssh = None \/ ssh \in Entry(SshConfig)) /\ Settled(ssh)
  BY <1>1 DEF Inv, Typed, RunnerTyped, AllSettled
<1>4. KeyKept'
  BY <1>1 DEF Inv, KeyKept
<1>5. ASSUME pc' \in {"wait", "ssh_spawning"}, applied' \in {newconfig, applied},
             ssh' = None \/ ssh' \in Entry(SshConfig), running' \subseteq running
      PROVE  Typed'
  <2>1. FilesTyped' /\ CountersTyped' /\ FlagsTyped' /\ LoadedTyped'
    BY <1>1 DEF Inv, Typed, FilesTyped, CountersTyped, FlagsTyped, LoadedTyped, files, notify
  <2>2. RunnerTyped' /\ PcTyped'
    BY <1>1, <1>2, <1>5 DEF Inv, Typed, RunnerTyped, PcTyped
  <2> QED BY <2>1, <2>2 DEF Typed
<1>6. ASSUME Stopped(ssh') = {}, running' = running \ Stopped(ssh)
      PROVE  NoOrphans'
  <2>1. running' = (running \ Stopped(ssh)) \cup Stopped(ssh')
    BY <1>6
  <2> QED BY <1>1, <1>6, <2>1, ReplaceSsh DEF Inv
<1>7. CASE /\ new = None /\ running' = running \ Stopped(ssh) /\ ssh' = None
           /\ pc' = "wait" /\ applied' = newconfig
  <2>1. SshMatches(newconfig)' /\ Settled(ssh') /\ Stopped(ssh') = {}
    BY <1>1, <1>7, StoppedFacts DEF SshMatches, Settled
  <2>2. Suffix' /\ StoppedFirst' /\ AllSettled' /\ Progress' /\ LastApplied'
    BY <1>1, <1>7, <2>1, SshDone
  <2> QED BY <1>4, <1>5, <1>6, <1>7, <2>1, <2>2 DEF Inv
<1>8. CASE /\ new # None /\ Same(ssh, new) /\ pc' = "wait" /\ applied' = newconfig
           /\ UNCHANGED <<running, ssh>>
  <2>1. InForce(ssh, new)
    BY <1>2, <1>3, <1>8, SameInForce
  <2>2. SshMatches(newconfig)' /\ Settled(ssh')
    BY <1>1, <1>3, <1>8, <2>1 DEF SshMatches
  <2>3. Suffix' /\ StoppedFirst' /\ AllSettled' /\ Progress' /\ LastApplied'
    BY <1>1, <1>8, <2>2, SshDone
  <2>4. NoOrphans'
    BY <1>1, <1>8 DEF Inv, NoOrphans
  <2> QED BY <1>3, <1>4, <1>5, <1>8, <2>3, <2>4 DEF Inv
<1>9. CASE /\ new # None /\ ~new.enabled /\ running' = running \ Stopped(ssh)
           /\ ssh' = Disabled(new) /\ pc' = "wait" /\ applied' = newconfig
  <2>1. /\ InForce(ssh', new) /\ Settled(ssh') /\ Stopped(ssh') = {}
        /\ ssh' \in Entry(SshConfig)
    <3>1. Disabled(new) \in Entry(SshConfig)
      BY <1>2, <1>9 DEF Disabled, Entry
    <3> QED BY <1>2, <1>9, <3>1, NewInForce, StoppedFacts
  <2>2. SshMatches(newconfig)'
    BY <1>1, <1>9, <2>1 DEF SshMatches
  <2>3. Suffix' /\ StoppedFirst' /\ AllSettled' /\ Progress' /\ LastApplied'
    BY <1>1, <1>9, <2>1, <2>2, SshDone
  <2> QED BY <1>4, <1>5, <1>6, <1>9, <2>1, <2>3 DEF Inv
<1>10. CASE /\ new # None /\ new.enabled /\ running' = running \ Stopped(ssh)
            /\ ssh' = (IF ssh = None THEN None ELSE Disabled(ssh.cfg))
            /\ pc' = "ssh_spawning" /\ UNCHANGED applied
  <2>1. Stopped(ssh') = {}
    BY <1>10, StoppedFacts
  <2>2. ssh' = None \/ ssh' \in Entry(SshConfig)
    BY <1>3, <1>10 DEF Disabled, Entry
  <2>3. Suffix'
    BY <1>1, <1>10 DEF Inv, Suffix, Applying, Handled
  <2>4. StoppedFirst' /\ LastApplied'
    BY <1>1, <1>10, <2>1 DEF StoppedFirst, LastApplied, Applying
  <2>5. AllSettled' /\ Progress'
    BY <1>1, <1>10 DEF Inv, AllSettled, Progress, Applying, Pending, Handled
  <2> QED BY <1>4, <1>5, <1>6, <1>10, <2>1, <2>2, <2>3, <2>4, <2>5 DEF Inv
<1> QED BY <1>7, <1>8, <1>9, <1>10 DEF HandleSsh

\* A new SSH instance is started and recorded.
LEMMA InvSpawnSsh == Inv /\ SpawnSsh => Inv'
<1> SUFFICES ASSUME Inv, SpawnSsh PROVE Inv'
  OBVIOUS
<1> DEFINE new == newconfig.ssh
<1>1. /\ pc = "ssh_spawning" /\ pc' = "wait" /\ applied' = newconfig
      /\ running' = running \cup {Fresh} /\ ssh' = Enabled(new, Fresh)
      /\ UNCHANGED <<files, notify, newconfig, newkey, todo, unread, key, statusmeta, endpoints,
                     asked, restarts>>
  BY DEF SpawnSsh, loaded
<1>2. Fresh \in Ids /\ Fresh \notin running
  BY FreshFacts DEF SpawnSsh
<1>3. new # None /\ new.enabled /\ Stopped(ssh) = {}
  BY <1>1 DEF Inv, StoppedFirst
<1>4. newconfig \in Configs /\ new \in SshConfig
  BY <1>1, <1>3, AllDone, RunnerAssumption
<1>5. /\ InForce(ssh', new) /\ Settled(ssh') /\ Stopped(ssh') = {Fresh}
      /\ ssh' \in Entry(SshConfig)
  <2>1. Enabled(new, Fresh) \in Entry(SshConfig)
    BY <1>2, <1>4 DEF Enabled, Entry
  <2> QED BY <1>1, <1>2, <1>3, <1>4, <2>1, NewInForce, StoppedFacts
<1>6. NoOrphans'
  <2>1. running' = (running \ Stopped(ssh)) \cup Stopped(ssh')
    BY <1>1, <1>3, <1>5
  <2>2. Stopped(ssh') \cap running = {}
    BY <1>2, <1>5
  <2> QED BY <1>1, <2>1, <2>2, ReplaceSsh DEF Inv
<1>7. SshMatches(newconfig)'
  BY <1>1, <1>3, <1>5 DEF SshMatches
<1>8. Suffix' /\ StoppedFirst' /\ AllSettled' /\ Progress' /\ LastApplied'
  BY <1>1, <1>5, <1>7, SshDone
<1>9. Typed'
  <2>1. FilesTyped' /\ CountersTyped' /\ FlagsTyped' /\ LoadedTyped'
    BY <1>1 DEF Inv, Typed, FilesTyped, CountersTyped, FlagsTyped, LoadedTyped, files, notify
  <2>2. RunnerTyped' /\ PcTyped'
    BY <1>1, <1>2, <1>4, <1>5 DEF Inv, Typed, RunnerTyped, PcTyped
  <2> QED BY <2>1, <2>2 DEF Typed
<1>10. KeyKept'
  BY <1>1 DEF Inv, KeyKept
<1> QED BY <1>6, <1>8, <1>9, <1>10 DEF Inv

\* Every step of the daemon and around it keeps the invariant.
LEMMA InvNext == Inv /\ [Next]_vars => Inv'
BY InvFiles, InvSurroundings, InvLoad, InvRestart, InvUpdateConfig, InvHandleEndpoint,
   InvSpawnEndpoint, InvEndpointsDone, InvHandleSsh, InvSpawnSsh DEF Next, LoopNext

-----------------------------------------------------------------------------
(* The theorems.                                                           *)

\* The invariant holds in every reachable state of the loop.
THEOREM Invariant == Spec => []Inv
BY InvInit, InvNext, PTL DEF Spec

\* Every variable of the loop keeps its type.
THEOREM TypeCorrect == Spec => []TypeOK
<1>1. Inv /\ UnreadTyped => TypeOK
  BY DEF UnreadTyped, Inv, Typed, FilesTyped, CountersTyped, FlagsTyped, LoadedTyped, RunnerTyped, PcTyped, TypeOK
<1>2. Init => UnreadTyped
  BY DEF Init, UnreadTyped
<1>3. UnreadTyped /\ [Next]_vars => UnreadTyped'
  BY Zenon DEF UnreadTyped, Next, Write, BeginWrite, FinishWrite, WriterDies, WatcherNotifies,
         WatcherPanics, Restart, LoopNext, Boot, LoadConfig, LoadKey, ReportError, Lock,
         UpdateConfig, HandleEndpoint, SpawnEndpoint, EndpointsDone, HandleSsh, SpawnSsh,
         Notified, AskStatus, Status, loaded, vars
<1> QED BY <1>1, <1>2, <1>3, Invariant, PTL DEF Spec

\* At every step of update_config, and while it waits for an address, every
\* running instance is held by exactly one entry, through which it can be
\* stopped.
THEOREM OrphansTheorem == Spec => []NoOrphans
<1>1. Inv => NoOrphans
  BY DEF Inv
<1> QED BY <1>1, Invariant, PTL

\* Whoever finds the mutex free finds exactly the configuration applied last:
\* the last entry of every name in force, nothing else, and its SSH slot.
THEOREM AppliedTheorem == Spec => []AppliedExactly
<1>1. Inv => AppliedExactly
  <2>1. ~Locked => ~Applying
    BY DEF Locked, Applying
  <2> QED BY <2>1 DEF Inv, LastApplied, AppliedExactly, EndpointsMatch, SshMatches
<1> QED BY <1>1, Invariant, PTL

\* No reload takes the key away: while the daemon lives, an initialized one
\* stays initialized whatever the key file holds.
THEOREM KeyTheorem == Spec => StaysInitialized
<1>1. Inv /\ [Next]_vars =>
        [(statusmeta = "Good" /\ restarts' = restarts) => statusmeta' = "Good" /\ key' # None]_vars
  <2> SUFFICES ASSUME Inv, Next, statusmeta = "Good", restarts' = restarts
               PROVE  statusmeta' = "Good" /\ key' # None
    OBVIOUS
  <2>1. key # None /\ restarts \in Nat
    BY RunnerAssumption DEF Inv, KeyKept, Typed, CountersTyped
  <2>2. CASE UpdateConfig
    BY <2>1, <2>2 DEF UpdateConfig
  <2>3. CASE ~UpdateConfig
    <3>1. UNCHANGED <<statusmeta, key>>
      BY <2>1, <2>3 DEF Next, Write, BeginWrite, FinishWrite, WriterDies, WatcherNotifies,
             WatcherPanics, Restart, LoopNext, Boot, LoadConfig, LoadKey, ReportError, Lock,
             HandleEndpoint, SpawnEndpoint, EndpointsDone, HandleSsh, SpawnSsh, Notified,
             AskStatus, Status, runner
    <3> QED BY <2>1, <3>1
  <2> QED BY <2>2, <2>3
<1> QED BY <1>1, Invariant, PTL DEF Spec, StaysInitialized

\* What the step may stop of the endpoint called d.
StopJustified(d) ==
    (Stopped(endpoints[d]) \ running' # {} /\ restarts' = restarts) =>
        /\ newconfig \in Configs
        /\ d \in Names(newconfig) =>
             \E n \in DOMAIN newconfig.endpoints :
                /\ newconfig.endpoints[n].dns = d
                /\ newconfig.endpoints[n] # endpoints[d].cfg

\* A running instance is stopped only by a configuration that was read
\* completely and does not list its name or lists it otherwise.
THEOREM StopsTheorem == Spec => StopsOnlyByConfig
<1>1. Inv /\ [Next]_vars => [\A d \in Dns : StopJustified(d)]_vars
  <2> SUFFICES ASSUME Inv, Next, NEW d \in Dns,
                      Stopped(endpoints[d]) \ running' # {}, restarts' = restarts
               PROVE  /\ newconfig \in Configs
                      /\ d \in Names(newconfig) =>
                           \E n \in DOMAIN newconfig.endpoints :
                              /\ newconfig.endpoints[n].dns = d
                              /\ newconfig.endpoints[n] # endpoints[d].cfg
    BY DEF StopJustified
  <2>1. /\ Stopped(endpoints[d]) \subseteq running
        /\ Stopped(endpoints[d]) \cap Stopped(ssh) = {}
        /\ \A x \in Dns \ {d} : Stopped(endpoints[d]) \cap Stopped(endpoints[x]) = {}
    BY DEF Inv, NoOrphans
  <2>2. PICK i : i \in Stopped(endpoints[d]) /\ i \in running /\ i \notin running'
    BY <2>1
  <2>3. restarts \in Nat
    BY RunnerAssumption DEF Inv, Typed, CountersTyped
  <2>4. CASE UpdateConfig
    <3>1. newconfig # None
      BY <2>2, <2>4 DEF UpdateConfig
    <3>2. i \in UNION {Stopped(endpoints[x]) : x \in Dns \ Names(newconfig)}
      BY <2>2, <2>4 DEF UpdateConfig
    <3>3. PICK x \in Dns \ Names(newconfig) : i \in Stopped(endpoints[x])
      BY <3>2
    <3>4. d \notin Names(newconfig)
      BY <2>1, <2>2, <3>3
    <3> QED BY <3>1, <3>4 DEF Inv, Typed, LoadedTyped
  <2>5. CASE HandleEndpoint
    <3>1. /\ ~Same(endpoints[Head(todo).dns], Head(todo)) /\ todo # <<>> /\ Applying
          /\ i \in Stopped(endpoints[Head(todo).dns])
      BY <2>2, <2>5 DEF HandleEndpoint, Applying
    <3>2. /\ newconfig \in Configs /\ Handled + 1 \in DOMAIN newconfig.endpoints
          /\ Head(todo) = newconfig.endpoints[Handled + 1] /\ Head(todo).dns \in Dns
      BY <3>1, HeadFacts
    <3>3. d = Head(todo).dns
      BY <2>1, <2>2, <3>1, <3>2
    <3>4. Head(todo) # endpoints[d].cfg
      BY <2>2, <3>1, <3>3 DEF Same, Stopped
    <3> QED BY <3>2, <3>3, <3>4
  <2>6. CASE ~UpdateConfig /\ ~HandleEndpoint
    <3>1. UNCHANGED running \/ HandleSsh \/ SpawnEndpoint \/ SpawnSsh
      BY <2>3, <2>6 DEF Next, Write, BeginWrite, FinishWrite, WriterDies, WatcherNotifies,
             WatcherPanics, Restart, LoopNext, Boot, LoadConfig, LoadKey, ReportError, Lock,
             EndpointsDone, Notified, AskStatus, Status, runner
    <3>2. i \in running' \/ i \in Stopped(ssh)
      BY <2>2, <3>1 DEF HandleSsh, SpawnEndpoint, SpawnSsh
    <3> QED BY <2>1, <2>2, <3>2
  <2> QED BY <2>4, <2>5, <2>6
<1>2. StopsOnlyByConfig <=> [][\A d \in Dns : StopJustified(d)]_vars
  BY DEF StopsOnlyByConfig, StopJustified
<1> QED BY <1>1, <1>2, Invariant, PTL DEF Spec
=============================================================================
