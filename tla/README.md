# TLA+ verification of the Ebbflow client

Ebbflow's client keeps a pool of TLS connections open to the Ebbflow service
and hands each incoming one to a server on the same host.  This directory holds
a model of its daemon and command line, the TLC runs that check it on small instances and TLAPS
proofs of its main invariants for every value of the parameters.  Paths below
are relative to the repository; `mod.rs` is `src/daemon/mod.rs`.

## 1. The system

| component | state | operations | talks to |
|---|---|---|---|
| health verdict (`health.rs`) | `healthy`, deque `recent` | report a check result, recompute the verdict | called by the supervisor; read by status |
| endpoint supervisor (`mod.rs`, `spawn_endpoint`) | position in its loop, one signal per generation | wait for healthy, start a generation, wait for unhealthy, signal it, stop | health verdict, accept loop, master signal |
| accept loop (`mod.rs`, `inner_run_endpoint`) | two semaphores, permits held | acquire both permits, resolve an address, spawn a connection task | connection tasks, DNS |
| connection task (`connection.rs`) | program point, permits, streams, bytes under way | connect, hello, await traffic, connect locally, proxy, drain, kill | Ebbflow, local server, shared counters of `EndpointMeta` |
| stop signal (`signal.rs`) | a watch channel of tokio | send, drop, clone a receiver, wait | everything above |
| daemon runner (`lib.rs`) | map of endpoints, SSH slot, key, status | `update_config`, `status`, loop of `run_daemon` | files, Notify, mutex, supervisors |
| daemon process (`ebbflowd.rs`) | file watcher, Notify | watch, reload config and key | files, runner |
| files (`config.rs`) | `config.yaml`, `host.key`, `.daemonaddr` | read, truncate and write | CLI, daemon |
| command line (`ebbflow.rs`) | none of its own | read-modify-write of the files, key creation, status | files, info server, Ebbflow API |
| wire messages (`messaging.rs`) | none | encode and decode a frame | used by the connection task |
| message queue (`messagequeue.rs`) | the last 25 messages | add, list | written by connection tasks, read by status |
| info server (`infoserver.rs`) | its port, the address file | bind, write the address, serve | `ebbflow status`, runner |
| DNS (`dns.rs`), certificates (`certs.rs`) | none | see section 7 | |

What is hard here: tasks of several generations overlap and share counters; a
stop signal races with traffic that starts; permits and counters are released
at different points on a dozen paths; a proxied stream outlives its task;
stopping relies on the drop of a sender; reloads race with writes, torn writes
and restarts; the runner's mutex is held across awaits; commands of several shells
change one file without a lock; two copy directions share one end; a frame may be
cut anywhere and is followed by bytes of somebody else.  PROJECT.json lists
these hazards at their lines, with the properties that cover them.

## 2. Modules

| module | models | kind |
|---|---|---|
| `HealthMaster` | `health.rs` | detailed |
| `HealthVerdict` | what the thresholds of `config.rs` promise, on the whole history | abstract |
| `HealthMasterHistory` | `HealthMaster` and a history variable; refinement of `HealthVerdict` | refinement |
| `Signal` | `signal.rs` over the watch channel (external) | detailed |
| `SignalLatch` | what users of a signal rely on | abstract |
| `Connection` | `connection.rs`, one identity per connection task | detailed |
| `Endpoint` | `mod.rs`; EXTENDS `Connection`, INSTANCE of `HealthMaster` | composition |
| `Runner` | `lib.rs`, `ebbflowd.rs`, the files of `config.rs` | detailed |
| `Pool` | what an endpoint promises about the connections it serves | abstract |
| `Proxy` | `proxy`, `copy_bytes_ez`, `proxy_data` of `connection.rs`: the bytes | detailed |
| `Wire` | `messaging.rs` and `await_message` with its callers | detailed |
| `Cli` | the commands of `ebbflow.rs` that use the files of `config.rs` | detailed |
| `InfoServer` | `infoserver.rs`, the address file, `ebbflow status` | composition |
| `MCHealthMaster`, `MCEndpoint`, `MCRunner`, `MCCli`, `MCWire` | bounds, symmetry and configurations for TLC | model checking |
| `HealthMasterProofs`, `SignalProofs`, `EndpointProofs`, `InfoServerProofs`, `RunnerProofs`, `ProxyProofs`, `CliProofs`, `WireProofs` | theorems about the module each is named after | proofs |

Operators named `Bug_...` are plausible mistakes in the definition after them.
No specification uses them; they are there to show that a property notices
such a mistake.

**HealthMaster.** `healthy` and `recent` are the fields of `HealthMasterInner`
(time stamps left out, they are only displayed).  `Report` is
`report_check_result` with the `status` it calls: push, cut, decide.

**Signal.** The owner of the `SignalSender` stores `true`, bumps the version and
wakes the registered wakers in three steps; `wait` registers its waker, compares
versions and reads the value in three steps, and loops on `false`.  Receivers
are made by `new_receiver` or cloned from one that has not waited, as everywhere
in the code.  A wait may be polled again or dropped by the `select` it is in.

**Connection.** `phase[c]` is the program point of task `c`.  A step is a stretch
of code between two points where another task can interfere.  `idle` and `active`
are the counters of `EndpointMeta`, `idlesem[g]` and `maxsem[g]` the permits left
in the semaphores of generation `g`, `piped` the tasks whose proxied streams are
open, with or without their task.  What Ebbflow, the local server and the clock
do is nondeterministic.  Of the hello, the messages and the proxied bytes this
module only has how each exchange may end; they are modules `Wire` and `Proxy`.  A select whose sides are both pending
is not a step; the poll of the receiver that finds it silent and the poll of the
other side that follows are two.

**Endpoint.** `sup` is the supervisor, `loop[g]` the accept loop of generation `g`,
`signalled[g]` the latch of its signal (set by `send_signal` or by the drop of the
sender at the break), `stop` the latch of the master signal.  `ImplementsPool` maps
it to `Pool`: the generations started, the ones that are closed, and the tasks of
each past their last look at the signal or with open streams.  maxconns
(`config.rs:199`, "the maximum amount of open connections") is a limit of each
generation, not of the endpoint: those that drain live on beside the open one, so
after flaps of the health check the total exceeds it by the connections of every
generation still draining.  No property bounds the total, because the code does not.
`checked` says whether a health
check is configured; it never changes.

**Runner.** A write is two steps, truncation and content, and the writer may die
in between.  Events under the watched directory are counted, the watcher turns
them into the one permit of the Notify.  `pc` is the task of `run_daemon`;
`update_config` is one step per await or loop turn: key and retain, each entry,
each spawn (which waits in `get_addrs`), SSH.  While it spawns, the stopped entry
it replaces is shown as an entry without instance.  A configuration is a sequence
of entries of which only name, equality and `enabled` matter; a name may be listed
twice.  An error of the watcher panics in its callback and ends its thread
(`WatcherPanics`): from then on nothing is noticed until a restart.  Reading a file may
fail although it is complete; `unread` remembers that the last reload failed so, since the
code then waits for the next event before it reads again.

**Cli.** A shell runs one command at a time; `pc` is where the command is, `mem` what
it is about to write.  A step is a file operation with the computation after it:
load and decide, truncate, write.  An interactive init checks the files, asks its
questions, requests a key, polls until the user approves it, stores the key and replaces
the configuration.  A question the user does not answer, or answers with something else or
with an end of file, is a step that never happens.  Any step may fail, and a command may be
killed anywhere.  When two writes overlap, or one is cut short, the file may hold a mixture
or a part (`Garbled`), which is taken to be unreadable.  `base` is the configuration
a command read, `fresh` the commands that read it between two writes with no write since,
and `stored` what the last write was to store.  A file of length zero is a new configuration or a parse error,
depending on the YAML library, and both are modelled.  `Promise` says what a command
does on a set of entries, after the documentation of its options, and is independent of
`Outcome`, the code's way over the list; where the two differ (section 4) the case is named
`EnablesMissing`.

**Proxy.** A byte is its position in its stream.  Reads take some of what has
arrived, a write takes some of the buffer, the TLS writer may hold bytes back until
flushed, and a destination has a window.  The first direction that ends, ends both.

**Wire.** Lengths and ids are digits to a base, in the run two digits to base 4, CBOR is
one byte per field.  `Word` is the number at the start of a stream.  `TrafficIntact` compares
the reader, which sees the stream in pieces and lets go of what it took, with one that has
the whole stream in front of it (`FrameOf`, `After`); it makes no assumption on the junk.  Ebbflow may send any sequence of frames and junk, and traffic
only after StartTraffic; the network delivers bytes in pieces of any size.  The response
to StartTraffic may fail to be written.

**InfoServer.** `pc` is the loop of `run_info_server`.  Ports given up may be taken by
other programs, the address file survives the daemon and may hold a part of an address,
even one that reads as another port.  The file may be unreadable, and the server may answer
that it could not serialize its status (500).  `gap` remembers which status
commands ran while the server was not up for some of the time.

## 3. Runs

| run | instance | what it shows |
|---|---|---|
| `health` | thresholds 3 and 2, up to 8 checks | the cut deque decides as the whole history (`ImplementsVerdict`); it is the newest part of it (`RecentIsNewest`) |
| `signal` | 3 receivers, 2 sends, drop | a wait never returns early (`ImplementsLatch`), no wake-up is lost (`NoLostWakeup`), every wait returns (`WaitReturns`) |
| `endpoint_flap` | with and without health check (thresholds 1 and 2), 2 generations, 3 tasks, maxconns 2, idle 2 capped at 1, empty DNS answers | permits conserved, counters exact, streams owned and bounded, no generation forgotten, `HealthGate`, `ImplementsPool` |
| `endpoint_live` | 2 generations, 2 tasks, maxconns 2, 1 idle permit | `StopDrains`, `AttemptResolves`; an open generation keeps offering connections until maxconns carry traffic (`KeepsOffering`) |
| `runner` | 3 configurations, 2 keys, 2 names, 2 writes, 1 restart, failing reads, failing watcher | `NoOrphans`, `AppliedExactly`, `StopsOnlyByConfig`, `StaysInitialized`, `EventuallyApplied`, `StatusServed` |
| `cli` | 2 shells, any two of 27 commands, 4 initial files, failures, kills | no name twice (`UniqueNames`); each command takes effect as a whole on what it had read, so a race loses whole commands only (`Serializable`), and exits truthfully (`ExitHonest`); it ends or waits for the user or the service (`CommandsEnd`) |
| `proxy` | 2 directions, 2 bytes each, buffer 2, window 1 | bytes in order and complete inside (`NoLossInside`), on a close handed over in full (`EofComplete`); `Delivers`, `Ends` |
| `wire` | 3 items, 5 kinds of junk, base 4 | the reader stays at frame boundaries (`Aligned`), the proxied bytes are untouched (`TrafficIntact`) |
| `info_server` | 3 ports, 2 clients, 3 faults | `FailureHonest`, `EventuallyServes` |
| `cli_idle` (violated) | limits around the cap and 2^16 | an idle limit of 65536 is stored as 0 |
| `cli_idempotent` (violated) | one command with `--idempotent` on 4 initial files | enabling what is not configured is refused |
| `endpoint_dns` (violated) | empty DNS answer | the accept loop can end while its generation is open |

Bounds.  Eight checks exceed the capacity of the deque more than twice.  Three
receivers are one that waited, one cloned late and one dropped.  Three tasks
with two permits per generation let the first be full, with one task too many
about to commit, while the second is in use; a third generation adds nothing, as
only the newest is ever open, and the proofs cover any number of both.  Two writes are what it takes to rewrite both files or one of them
twice while a reload is under way; between the three configurations an entry is added,
removed, disabled, changed and listed twice, and SSH added, removed, enabled and disabled.
With two connections and one idle permit, one of them can carry traffic for ever while the
other is still to be offered, again and again.  Connection tasks are interchangeable
(symmetry) in the safety runs; the temporal runs use no symmetry.  Two commands are
what it takes for a race, and the initial files give them something to change; that
races lose updates is what the code does; `Serializable` says what is lost.
Three items are the two frames of the handshake and one of traffic.  Deadlock
checking is off where the system may come to rest: an endpoint that was stopped,
a history at its bound, a signal all of whose receivers have returned.

Fairness.  `Endpoint`: weak fairness of the steps of a connection task that a timer
forces or that only need the scheduler (`Timed`): every wait of `run_connection`
ends by `MAX_IDLE_CONNETION_TIME`, a timeout of `connect_local` or a delay, the
write of the few bytes of the traffic response being assumed not to block.  What
the peers do is never assumed to happen, in particular a proxied connection may
last for ever until it is signalled.  Accept loops and the supervisor are
scheduled; a `select` polls the stop receiver at every wake-up, hence strong
fairness of acting on a stop that health checks keep interrupting.  `Signal`: a
call of `send_signal` completes, polls complete and woken tasks are polled.
`Runner`: the loop runs, localhost resolves eventually, the watcher thread handles
its events, and tokio's FIFO mutex serves a waiting status request.  An address of Ebbflow
is found in the end (`Endpoint`), since the lookup has a timeout and a fallback.  `Cli`: file
operations end, and nothing else: `get_yn` waits or loops for ever without a user, the
requests to the service have no timeout, and nobody need approve a key.  The second half of
`CommandsEnd` states the answers of the service as its own hypothesis
(`WF_vars(Remote(p))`).  `Proxy`: a direction that can
go on is polled and the delay before the abort ends; only destinations in `readers`
read.  `InfoServer`: the service manager starts the daemon and delays end.

## 4. What the violated runs show

`endpoint_dns`: the resolver turns "no records" into an empty list, which bypasses
the fallback addresses, and the choice from an empty list is unwrapped.  The accept
loop unwinds (its permits come back, `PermitsConserved` holds) and nothing restarts
it until the next health flap or reconfiguration; `mod.rs:278` takes the
end of the loop for unreachable.

`cli_idle`: `ebbflow.rs:214` says the idle limit "will be capped".  `ebbflow.rs:650` casts
the `usize` of the command line to `u16` first, so 65536 becomes 0 (and 65537 becomes
1) where the cap (`lib.rs:350`) was meant.

`cli_idempotent`: `ebbflow.rs:248` says of `--idempotent`, for enable and disable alike, "If
you want this to succeed in case it didn't exist already, pass this".
`handle_enable_disable_ret` (371-375) refuses to enable a target that is not configured
whatever the flag; only disable honours it.

## 5. Proofs

All are for arbitrary constants satisfying the named assumptions of the modules
(`ThresholdAssumption`, `MaxSendsAssumption`, `ConnsAssumption`, `MaxGenAssumption`,
`EndpointAssumption`, `InfoServerAssumption`, `RunnerAssumption`, `ProxyAssumption`,
`CliAssumption`, `WireAssumption`): naturals, booleans, a finite set of tasks, initial
files that list no name twice, lengths and ids that fit their bytes as they do in the code
(base 256, four bytes, a limit of 200 * 1024), and markers (`None`, `Missing`, `Empty` and so on) that are no ports, keys,
configurations or entries.  TLC evaluates them on every run.

* `HealthMasterProofs`.  `RecentCorrect` and `VerdictRefinement`.  The invariant is
  that the deque is the history cut at the larger threshold; the lemmas say that a
  leading run reaches a threshold exactly if that many newest results agree, and
  that the cut preserves this for both thresholds.
* `SignalProofs`.  `TypeCorrect`, `WakeupTheorem` and `LatchRefinement`.  `NoLostWakeup` is not
  inductive: one needs that the value is stored before its version is visible
  (`StoredFirst`), that whoever has not read `true` has seen only the first version
  (`SeenOld`), that a receiver past its registration is armed (`Armed`), and that one
  parked unwoken has seen everything (`UpToDate`).
* `EndpointProofs`.  `Invariant` proves the conjunction `Inv` of type
  correctness, `TasksOwned`, `PermitsConserved`, `CountersExact`, `StreamsBounded`,
  `OneOpenGeneration` and `HealthGate`; one theorem per conjunct follows.  They need each
  other: counters and permits are counted with the ownership of tasks, and
  `StreamsBounded` rests on two facts, that an unsignalled generation covers every
  stream with a max permit, and that after the signal no task can pass the last poll
  of the receiver, so the set of committed tasks only shrinks.  `OwnershipTheorem`
  states `TasksOwned` by itself, and `PoolRefinement` proves that every step maps to a
  step of `Pool` or a stutter: `StreamsBounded` gives the limit of an admission,
  `OneOpenGeneration` that the earlier generations are closed when one opens, and the
  poll of the receiver that no task is admitted to a closed one.
* `InfoServerProofs`.  `TypeCorrect` and `HonestTheorem`.  The invariant adds that a serving server has
  published its own port (`Published`), which no other program has, and that a client
  without a gap faces a serving server and holds its port (`NoGap`).

* `RunnerProofs`.  `Invariant` proves `Inv`; `OrphansTheorem`, `AppliedTheorem`,
  `KeyTheorem` and `StopsTheorem` follow.  `NoOrphans` and `AppliedExactly` speak of the
  moments a reader may see; between them the invariant has to know how far a reload is:
  `todo` is a suffix of the list of the new configuration (`Suffix`), of the entries
  before it the last one of each name is in force (`Progress`), an entry holds an
  instance exactly if it is enabled (`AllSettled`), and what is about to be replaced was
  stopped before the wait for an address (`StoppedFirst`).  `KeyKept` says that an
  initialized daemon has a key.  The two action properties are shown of every step from
  `Inv`.
* `ProxyProofs`.  `NoLossTheorem` and `EofTheorem`.  A sequence of bytes is known by the
  run of positions it holds, so the invariant says that what was handed over, what the
  writer keeps and what is buffered are adjacent runs, from the first byte to the last
  one read; the lemmas say what concatenating and cutting runs gives.
* `CliProofs`.  `NamesTheorem`, `SerializableTheorem` and `ExitTheorem`.  The core is
  `OutcomeLemma`: what every command computes on the list of endpoints (`Outcome`) is
  what it promises on the set of them (`Promise`), for every configuration without
  duplicate names.  For `remove` this is an induction over the list (`RetainFacts`).
  `Serializable` becomes inductive with four facts: a readable file shows what the last
  write was to store, and one that is empty while nobody writes was cut short or is new
  (`FileInTurn`); what a command is about to write is what it promises of what it read
  (`MemInTurn`); who read since the last write read just that (`FreshInTurn`); and the same
  for the key (`KeyInTurn`).  `SerializableTheorem` and
  `ExitTheorem` have the hypothesis `LimitsFit`, that no `add` asks for an idle limit
  beyond 16 bits: it excludes the input of the finding `cli_idle`, for which both are
  false.

* `WireProofs`.  `TypeCorrect`, `AlignedTheorem` and `TrafficTheorem`.  The invariant says
  that what was heard is what a reader of the whole stream would hear (`HeardOf`), and that
  what has arrived and what is coming, joined, is what such a reader would have left
  (`LeftOf`).  Bytes added at the end change neither (`FrameStable`), however little of a
  frame has arrived.  `AlignedTheorem` needs in addition that a number and a message are
  read back as they were written: `RoundTrip` (`from_be_bytes` undoes `to_be_bytes`, for any
  base and width), `Decoded` (`from_wire_without_the_length_prefix` undoes
  `to_wire_message`) and `FrameInFront`, from which `MessagesFirst` follows.

`Runner`, `Proxy`, `Cli` and `Wire` have an inductive invariant that is stated in the proof
module; TLC was used to see that it holds on the instance of the run before it was
proved.  Induction is done on sets: `Induction` of `CliProofs` and `WireProofs` follows from
the well-founded order of the naturals.  That a recursive function exists and obeys its
equation has to be shown before anything else about it (`KeptExists`, `RecursionExists`).

Only model-checked: the liveness properties (`WaitReturns`, `StopDrains`,
`AttemptResolves`, `KeepsOffering`, `EventuallyApplied`, `StatusServed`, `CommandsEnd`,
`Delivers`, `Ends`, `EventuallyServes`), since fairness and ENABLED are out of the prover's
reach.

## 6. Plan

Done: every module above, the refinements of `HealthVerdict`, `SignalLatch` and `Pool`, and
the proof of every safety property that a passing run checks.  Left to do: shorter proofs,
and what `Runner` assumes of an endpoint instance, that stopping it is final, as a
consequence of module `Endpoint`.

## 7. Not modelled

The message queue: one push and one cut under a lock, a list for the status page only.

TLS, CBOR, YAML, HTTP and DNS themselves (third-party).  `dns.rs` only wraps a
resolver; its one interesting answer, no addresses, is `DnsPanic` of `Endpoint`.
`certs.rs` loads constants.  Messages to the user, argument parsing and logging,
including the log level, whose only effect is on logging.  The Windows service is a
shell around `realmain`.  `run_blocking` of the command line takes the key from `EBB_KEY`
or else from the key file, applies a `--config_file` once through `update_config` or calls
`spawn_endpoint` for its arguments (`ebbflow.rs` 953-975), and sleeps: it is one pass of
`Runner` without reloads, or one `Endpoint`.  Whether the
StartTraffic response, which is written and not flushed, leaves at once is up to the
TLS library.
