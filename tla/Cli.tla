--------------------------------- MODULE Cli ---------------------------------
(***************************************************************************)
(* The commands of `ebbflow` that read and write config.yaml and host.key  *)
(* (src/ebbflow.rs over src/config.rs).                                    *)
(*                                                                         *)
(* A command is a process of its own.  It reads the configuration, changes *)
(* it in memory and writes it back; nothing locks the file, and a write    *)
(* first truncates it.  Commands of several shells or scripts interleave   *)
(* at the file operations, and may be killed between them.  An interactive *)
(* init asks questions and waits for the user to approve a new key in a    *)
(* browser in between.                                                     *)
(***************************************************************************)
EXTENDS Integers, Sequences

CONSTANTS
    Procs,        \* shells that run commands, one at a time each
    Commands,     \* the commands they may run, see Command
    Dns, Levels, Keys,
    Initial,      \* configurations the file may hold at first
    U16,          \* 2^16
    MaxMaxIdle,   \* cap of idle connections
    MaxCommands,  \* bound on the commands explored
    IoMayFail,    \* may opening or writing a file fail?
    None,         \* no value
    Missing,      \* content of a file that does not exist
    Blank,        \* content of the file that the packages install
    Empty,        \* content of a file of length zero
    Garbled       \* content left by two writes of different length, or a part
                  \* of one: taken to be unreadable

\* Entries of the configuration.  Of port, maxconns, maxidle and health check
\* only the idle limit is kept: the others are stored as given.
Endpoint == [dns : Dns, maxidle : 0 .. U16 - 1, enabled : BOOLEAN]
Ssh == [maxidle : 0 .. U16 - 1, enabled : BOOLEAN]
EbbflowDaemonConfig ==
    [endpoints : Seq(Endpoint), ssh : Ssh \cup {None}, loglevel : Levels \cup {None}]

\* The command line after parsing.  A limit that was not given is None.
Command ==
    [kind : {"add"}, dns : Dns, maxidle : Nat \cup {None}, disabled : BOOLEAN]
    \cup [kind : {"remove"}, dns : Dns, idempotent : BOOLEAN]
    \cup [kind : {"endpoint"}, dns : Dns, enable : BOOLEAN, idempotent : BOOLEAN]
    \cup [kind : {"all", "ssh"}, enable : BOOLEAN, idempotent : BOOLEAN]
    \cup [kind : {"setup_ssh"}, maxidle : (0 .. U16 - 1) \cup {None}, disabled : BOOLEAN]
    \cup [kind : {"remove_ssh", "print"}]
    \cup [kind : {"loglevel"}, level : Levels \cup {None}]
    \cup [kind : {"init"}, key : Keys]
    \cup [kind : {"interactive"}, key : Keys, ssh : BOOLEAN]

\* What a command comes to: a configuration, written or not, and an exit code.
Outcomes == [save : BOOLEAN, cfg : EbbflowDaemonConfig, code : {"ok", "refused"}]

Unique(es) == \A m, n \in DOMAIN es : es[m].dns = es[n].dns => m = n

ASSUME CliAssumption ==
    /\ U16 \in Nat \ {0} /\ MaxMaxIdle \in 40 .. U16 - 1 /\ MaxCommands \in Nat
    /\ IoMayFail \in BOOLEAN
    /\ \A c \in Commands : c \in Command
    /\ \A c \in Initial : c \in EbbflowDaemonConfig /\ Unique(c.endpoints)
    /\ \A m \in {Missing, Blank, Empty, Garbled} : m \notin EbbflowDaemonConfig
    /\ None \notin Commands /\ None \notin Outcomes
    /\ Garbled \notin {Missing, Blank, Empty}

VARIABLES
    cfgfile, keyfile,   \* content of config.yaml and host.key
    pc, cmd,            \* of every process: where it is, and its command
    mem,                \* the configuration it is about to write
    approved,           \* the user approved the key it asked for
    result,             \* how its last command ended
    started,            \* number of commands so far
    base,               \* history: what the configuration in mem started from
    fresh,              \* history: no other process wrote since it read
    stored, storedkey   \* history: what the last write was to store

files == <<cfgfile, keyfile>>
read == <<base, fresh>>
process == <<pc, cmd, mem, approved, result, read>>
history == <<stored, storedkey>>
vars == <<files, process, started, history>>

-----------------------------------------------------------------------------
(* What a command does to the configuration it read.                       *)

New == [endpoints |-> <<>>, ssh |-> None, loglevel |-> None]

Save(c, code) == [save |-> TRUE, cfg |-> c, code |-> code]
Exit(c, code) == [save |-> FALSE, cfg |-> c, code |-> code]

Listed(c, d) == \E n \in DOMAIN c.endpoints : c.endpoints[n].dns = d

Default(arg, default) == IF arg = None THEN default ELSE arg
Min2(x, y) == IF x < y THEN x ELSE y

NewEndpoint(args) ==
    [dns |-> args.dns, maxidle |-> Default(args.maxidle, 40) % U16, enabled |-> ~args.disabled]

\* The list is not searched for the name.
Bug_AddTwice(c, args) ==
    Save([c EXCEPT !.endpoints = Append(@, NewEndpoint(args))], "ok")

AddEndpoint(c, args) ==
    IF Listed(c, args.dns) THEN Exit(c, "refused")
    ELSE Save([c EXCEPT !.endpoints = Append(@, NewEndpoint(args))], "ok")

\* Vec::retain: the entries of another name, in their order
Keep(kept, e, d) == IF e.dns # d THEN Append(kept, e) ELSE kept
Retain(es, d) ==
    LET kept[n \in 0 .. Len(es)] == IF n = 0 THEN <<>> ELSE Keep(kept[n - 1], es[n], d)
    IN kept[Len(es)]

RemoveEndpoint(c, args) ==
    LET c2 == [c EXCEPT !.endpoints = Retain(@, args.dns)]
    IN IF Listed(c, args.dns) \/ args.idempotent THEN Save(c2, "ok") ELSE Exit(c, "refused")

\* What is not configured counts as disabled, and enabling it succeeds too.
Bug_EnableMissing(enable, idempotent, found, mutated) ==
    IF found /\ ~mutated /\ ~idempotent THEN "refused" ELSE "ok"

\* The exit code of enable and disable.
HandleEnableDisable(enable, idempotent, found, mutated) ==
    CASE found /\ mutated -> "ok"
      [] found /\ ~mutated -> IF idempotent THEN "ok" ELSE "refused"
      [] ~found -> IF ~enable /\ idempotent THEN "ok" ELSE "refused"

\* The entries set_endpoint_enabled goes over: one name or all of them.
Targets(c, args) ==
    {n \in DOMAIN c.endpoints : args.kind = "all" \/ c.endpoints[n].dns = args.dns}

\* With a name, `mutated` is decided by the last entry of that name; without
\* one, every entry counts as changed.
SetEndpointEnabled(c, args) ==
    LET targets == Targets(c, args)
        mutated == IF args.kind = "all" THEN targets # {}
                   ELSE \E n \in targets : /\ c.endpoints[n].enabled # args.enable
                                           /\ \A m \in targets : m <= n
        c2 == [c EXCEPT !.endpoints =
                 [n \in DOMAIN @ |-> IF n \in targets THEN [@[n] EXCEPT !.enabled = args.enable]
                                                      ELSE @[n]]]
    IN Save(c2, HandleEnableDisable(args.enable, args.idempotent, targets # {}, mutated))

SetSshEnabled(c, args) ==
    LET found == c.ssh # None
        mutated == IF found THEN c.ssh.enabled # args.enable ELSE FALSE
        c2 == IF mutated THEN [c EXCEPT !.ssh.enabled = args.enable] ELSE c
    IN Save(c2, HandleEnableDisable(args.enable, args.idempotent, found, mutated))

SetupSsh(c, args) ==
    IF c.ssh # None THEN Exit(c, "refused")
    ELSE Save([c EXCEPT !.ssh = [maxidle |-> Min2(Default(args.maxidle, 3), MaxMaxIdle),
                                 enabled |-> ~args.disabled]], "ok")

RemoveSsh(c) == Save([c EXCEPT !.ssh = None], "ok")

SetLogLevel(c, args) == Save([c EXCEPT !.loglevel = args.level], "ok")

PrintConfig(c) == Exit(c, "ok")

Outcome(args, c) ==
    CASE args.kind = "add" -> AddEndpoint(c, args)
      [] args.kind = "remove" -> RemoveEndpoint(c, args)
      [] args.kind \in {"endpoint", "all"} -> SetEndpointEnabled(c, args)
      [] args.kind = "ssh" -> SetSshEnabled(c, args)
      [] args.kind = "setup_ssh" -> SetupSsh(c, args)
      [] args.kind = "remove_ssh" -> RemoveSsh(c)
      [] args.kind = "loglevel" -> SetLogLevel(c, args)
      [] args.kind = "print" -> PrintConfig(c)

\* The configuration an interactive init writes, whatever there was before.
InitConfig(args) ==
    [New EXCEPT !.ssh = IF args.ssh THEN [maxidle |-> 5, enabled |-> TRUE] ELSE None]

-----------------------------------------------------------------------------
(* What a command promises, on a view of the configuration in which every  *)
(* name has at most one entry: it succeeds or is refused, and changes only *)
(* what it names.  With --idempotent it succeeds also if there is nothing  *)
(* to change, "in case it didn't exist already" (src/ebbflow.rs:248).      *)

Entry(d, idle, enabled) == [dns |-> d, maxidle |-> idle, enabled |-> enabled]

\* The daemon caps the idle limit of an entry when it starts it.
EffectiveIdle(e) == Min2(e.maxidle, MaxMaxIdle)

View(c) ==
    [entries |-> {Entry(e.dns, EffectiveIdle(e), e.enabled) :
                      e \in {c.endpoints[n] : n \in DOMAIN c.endpoints}},
     ssh |-> c.ssh, loglevel |-> c.loglevel]

Promise(args, v) ==
    LET Named(d) == {e \in v.entries : e.dns = d}
        SwitchAll(es) == (v.entries \ es) \cup {[e EXCEPT !.enabled = args.enable] : e \in es}
        Yes(w) == [ok |-> TRUE, view |-> w]
        If(ok, w) == IF ok THEN Yes(w) ELSE [ok |-> FALSE, view |-> v]
        IfSwitched(found, changed, w) == If((found /\ changed) \/ args.idempotent, w)
    IN CASE args.kind = "add" ->
              If(Named(args.dns) = {},
                 [v EXCEPT !.entries = @ \cup
                    {Entry(args.dns, Min2(Default(args.maxidle, 40), MaxMaxIdle), ~args.disabled)}])
         [] args.kind = "remove" ->
              If(Named(args.dns) # {} \/ args.idempotent, [v EXCEPT !.entries = @ \ Named(args.dns)])
         [] args.kind = "endpoint" ->
              IfSwitched(Named(args.dns) # {},
                         \E e \in Named(args.dns) : e.enabled # args.enable,
                         [v EXCEPT !.entries = SwitchAll(Named(args.dns))])
         [] args.kind = "all" ->
              IfSwitched(v.entries # {}, TRUE, [v EXCEPT !.entries = SwitchAll(v.entries)])
         [] args.kind = "ssh" ->
              LET found == v.ssh # None
              IN IfSwitched(found, IF found THEN v.ssh.enabled # args.enable ELSE FALSE,
                            IF found THEN [v EXCEPT !.ssh.enabled = args.enable] ELSE v)
         [] args.kind = "setup_ssh" ->
              If(v.ssh = None,
                 [v EXCEPT !.ssh = [maxidle |-> Min2(Default(args.maxidle, 3), MaxMaxIdle),
                                    enabled |-> ~args.disabled]])
         [] args.kind = "remove_ssh" -> Yes([v EXCEPT !.ssh = None])
         [] args.kind = "loglevel" -> Yes([v EXCEPT !.loglevel = args.level])
         [] args.kind = "interactive" -> Yes(View(InitConfig(args)))
         [] OTHER -> Yes(v)

\* enable --idempotent of what is not configured: documented to succeed, but
\* refused by the code, see IdempotentSucceeds.
EnablesMissing(args, v) ==
    /\ args.kind \in {"endpoint", "all", "ssh"}
    /\ args.enable /\ args.idempotent
    /\ CASE args.kind = "endpoint" -> \A e \in v.entries : e.dns # args.dns
         [] args.kind = "all" -> v.entries = {}
         [] args.kind = "ssh" -> v.ssh = None

-----------------------------------------------------------------------------

Init ==
    /\ cfgfile \in Initial \cup {Missing, Blank}
    /\ keyfile \in {Missing, Empty}
    /\ pc = [p \in Procs |-> "idle"] /\ cmd = [p \in Procs |-> None]
    /\ mem = [p \in Procs |-> None] /\ approved = {}
    /\ result = [p \in Procs |-> None] /\ started = 0
    /\ base = [p \in Procs |-> None] /\ fresh = {}
    /\ stored = View(IF cfgfile \in {Missing, Blank} THEN New ELSE cfgfile)
    /\ storedkey = keyfile

Writing(p) == pc[p] = "write"

\* The request for a key is resumed by the next command of this shell.
Bug_ApprovalKept(p, code) ==
    /\ pc' = [pc EXCEPT ![p] = "idle"]
    /\ result' = [result EXCEPT ![p] = code]
    /\ mem' = [mem EXCEPT ![p] = None]
    /\ cmd' = [cmd EXCEPT ![p] = None]
    /\ base' = [base EXCEPT ![p] = None]
    /\ fresh' = fresh \ {p}
    /\ UNCHANGED approved

\* The process ends; its memory is gone.
End(p, code) ==
    /\ pc' = [pc EXCEPT ![p] = "idle"]
    /\ result' = [result EXCEPT ![p] = code]
    /\ mem' = [mem EXCEPT ![p] = None]
    /\ cmd' = [cmd EXCEPT ![p] = None]
    /\ base' = [base EXCEPT ![p] = None]
    /\ fresh' = fresh \ {p}
    /\ approved' = approved \ {p}

Goto(p, l) == pc' = [pc EXCEPT ![p] = l]

Start(p, c) ==
    /\ pc[p] = "idle" /\ started < MaxCommands
    /\ started' = started + 1
    /\ cmd' = [cmd EXCEPT ![p] = c]
    /\ result' = [result EXCEPT ![p] = None]
    /\ Goto(p, CASE c.kind = "init" -> "setkey"
                 [] c.kind = "interactive" -> "check"
                 [] OTHER -> "load")
    /\ UNCHANGED <<files, mem, approved, read, history>>

-----------------------------------------------------------------------------
(* Reading and writing config.yaml.                                        *)

\* load_from_file_or_new: no file and an empty one are a new configuration.
\* A file of length zero is empty to some versions of the YAML parser and an
\* error to others, see LoadFails.
Loaded == IF cfgfile \in {Missing, Blank, Empty} THEN New ELSE cfgfile

\* The configuration is read and the command decides.
Load(p) ==
    /\ pc[p] = "load" /\ cfgfile # Garbled
    /\ LET o == Outcome(cmd[p], Loaded)
       IN IF o.save
          THEN /\ mem' = [mem EXCEPT ![p] = o] /\ Goto(p, "save")
               /\ base' = [base EXCEPT ![p] = View(Loaded)]
               /\ fresh' = IF \E q \in Procs : Writing(q) THEN fresh ELSE fresh \cup {p}
               /\ UNCHANGED <<cmd, result, approved>>
          ELSE End(p, o.code)
    /\ UNCHANGED <<files, started, history>>

LoadFails(p) ==
    /\ pc[p] = "load"
    /\ cfgfile \in {Empty, Garbled} \/ IoMayFail
    /\ End(p, "failed")
    /\ UNCHANGED <<files, started, history>>

\* save_to_file, fs::write: open the file and truncate it ...
BeginSave(p) ==
    /\ pc[p] = "save"
    /\ cfgfile' = Empty
    /\ Goto(p, "write")
    /\ fresh' = fresh \cap {p}
    /\ UNCHANGED <<keyfile, cmd, mem, approved, result, started, base, history>>

\* A writer waits until it is the only one, and so do the others.
Bug_WaitForTurn(p) ==
    /\ Writing(p) /\ \A q \in Procs \ {p} : ~Writing(q)
    /\ cfgfile' = mem[p].cfg
    /\ stored' = Promise(cmd[p], base[p]).view
    /\ End(p, mem[p].code)
    /\ UNCHANGED <<keyfile, started, storedkey>>

\* ... then write the bytes, at the offset this process is at.  What another
\* process wrote after the truncation is overwritten up to their length.
FinishSave(p) ==
    /\ Writing(p)
    /\ cfgfile' \in {mem[p].cfg} \cup (IF cfgfile = Empty THEN {} ELSE {Garbled})
    /\ stored' = Promise(cmd[p], base[p]).view
    /\ End(p, mem[p].code)
    /\ UNCHANGED <<keyfile, started, storedkey>>

SaveFails(p) ==
    /\ pc[p] = "save" /\ IoMayFail
    /\ End(p, "failed")
    /\ UNCHANGED <<files, started, history>>

-----------------------------------------------------------------------------
(* init.                                                                   *)

\* The files are truncated by the check.
Bug_CheckTruncates(p) ==
    /\ pc[p] = "check"
    /\ cfgfile' = Empty
    /\ keyfile' = Empty
    /\ Goto(p, "ask_ssh")
    /\ UNCHANGED <<cmd, mem, approved, result, read, started, history>>

\* check_permissions creates the files that do not exist and leaves the others.
CheckPermissions(p) ==
    /\ pc[p] = "check"
    /\ cfgfile' = IF cfgfile = Missing THEN Empty ELSE cfgfile
    /\ keyfile' = IF keyfile = Missing THEN Empty ELSE keyfile
    /\ Goto(p, "ask_ssh")
    /\ UNCHANGED <<cmd, mem, approved, result, read, started, history>>

\* The first or the second file cannot be opened.
CheckFails(p) ==
    /\ pc[p] = "check" /\ IoMayFail
    /\ cfgfile' \in {cfgfile, IF cfgfile = Missing THEN Empty ELSE cfgfile}
    /\ End(p, "failed")
    /\ UNCHANGED <<keyfile, started, history>>

\* The questions: enable SSH, is the host's name ok, another name, is that ok.
Prompts == {"ask_ssh", "ask_name", "enter_name", "confirm_name"}

\* The user answers.  get_yn and the loop around get_string repeat a question
\* after a line they do not understand, an end of file included: no change.
Answer(p) ==
    /\ pc[p] \in Prompts
    /\ \E l \in CASE pc[p] = "ask_ssh" -> {IF cmd[p].ssh THEN "ask_name" ELSE "request"}
                [] pc[p] = "enter_name" -> {"confirm_name"}
                [] OTHER -> {"enter_name", "request"} :
          Goto(p, l)
    /\ UNCHANGED <<files, cmd, mem, approved, result, read, started, history>>

\* hostname_or_die, or stdin cannot be read.
PromptFails(p) ==
    /\ pc[p] \in Prompts /\ IoMayFail
    /\ End(p, "failed")
    /\ UNCHANGED <<files, started, history>>

\* create_key_request: the answer names the page for the user
RequestKey(p) ==
    /\ pc[p] = "request"
    /\ Goto(p, "poll")
    /\ UNCHANGED <<files, cmd, mem, approved, result, read, started, history>>

RequestFails(p) ==
    /\ pc[p] = "request"
    /\ End(p, "failed")
    /\ UNCHANGED <<files, started, history>>

\* The user approves the key, while the command polls or is gone.
Approve(p) ==
    /\ pc[p] = "poll" /\ p \notin approved
    /\ approved' = approved \cup {p}
    /\ UNCHANGED <<files, pc, cmd, mem, result, read, started, history>>

\* poll_key_creation: a poll answered 200.  Every other answer or error is
\* followed by another poll and changes nothing.
PollKey(p) ==
    /\ pc[p] = "poll" /\ p \in approved
    /\ Goto(p, "setkey")
    /\ UNCHANGED <<files, cmd, mem, approved, result, read, started, history>>

\* ... unless the body of that answer is lost
PollFails(p) ==
    /\ pc[p] = "poll" /\ p \in approved
    /\ End(p, "failed")
    /\ UNCHANGED <<files, started, history>>

\* setkey, fs::write
BeginKey(p) ==
    /\ pc[p] = "setkey"
    /\ keyfile' = Empty
    /\ Goto(p, "keywrite")
    /\ UNCHANGED <<cfgfile, cmd, mem, approved, result, read, started, history>>

\* A non-interactive init ends with the key; an interactive one goes on to
\* write a configuration without endpoints.
FinishKey(p) ==
    /\ pc[p] = "keywrite"
    /\ keyfile' \in {cmd[p].key} \cup (IF keyfile = Empty THEN {} ELSE {Garbled})
    /\ storedkey' = cmd[p].key
    /\ IF cmd[p].kind = "init" THEN End(p, "ok")
       ELSE /\ mem' = [mem EXCEPT ![p] = Save(InitConfig(cmd[p]), "ok")]
            /\ Goto(p, "save")
            /\ UNCHANGED <<cmd, result, approved, read>>
    /\ UNCHANGED <<cfgfile, started, stored>>

SetKeyFails(p) ==
    /\ pc[p] = "setkey" /\ IoMayFail
    /\ End(p, "failed")
    /\ UNCHANGED <<files, started, history>>

\* The process is killed, or a write fails after the truncation.  What it had
\* truncated stays empty, or holds a part of what was to be written.
Die(p) ==
    /\ pc[p] # "idle"
    /\ \/ End(p, "died")
       \/ pc[p] \in {"write", "keywrite"} /\ IoMayFail /\ End(p, "failed")
    /\ \/ Writing(p) /\ cfgfile' \in {cfgfile, Garbled}
       \/ ~Writing(p) /\ cfgfile' = cfgfile
    /\ \/ pc[p] = "keywrite" /\ keyfile' \in {keyfile, Garbled}
       \/ pc[p] # "keywrite" /\ keyfile' = keyfile
    /\ stored' = IF Writing(p) /\ cfgfile = Empty THEN View(New) ELSE stored
    /\ storedkey' = IF pc[p] = "keywrite" /\ keyfile = Empty THEN Empty ELSE storedkey
    /\ UNCHANGED started

-----------------------------------------------------------------------------

\* Steps that wait for the disk only, and steps that wait for Ebbflow's service.
Local(p) ==
    \/ Load(p) \/ LoadFails(p) \/ BeginSave(p) \/ FinishSave(p) \/ SaveFails(p)
    \/ CheckPermissions(p) \/ CheckFails(p) \/ BeginKey(p) \/ FinishKey(p) \/ SetKeyFails(p)
Remote(p) == RequestKey(p) \/ RequestFails(p) \/ PollKey(p) \/ PollFails(p)
User(p) == Answer(p) \/ PromptFails(p) \/ Approve(p)

Next ==
    \E p \in Procs : \/ \E c \in Commands : Start(p, c)
                     \/ Local(p) \/ Remote(p) \/ User(p) \/ Die(p)

Spec == Init /\ [][Next]_vars

(* Fairness: a file operation ends.  Nothing makes the user answer, and the*)
(* requests to the service have no timeout.                                *)
FairSpec == Spec /\ \A p \in Procs : WF_vars(Local(p))

-----------------------------------------------------------------------------
(* Properties.                                                             *)

Labels == {"idle", "load", "save", "write", "check", "request", "poll", "setkey", "keywrite"}
          \cup Prompts
Config == EbbflowDaemonConfig

\* Every variable has its type.
TypeOK ==
    /\ cfgfile \in {Missing, Blank, Empty, Garbled} \/ cfgfile \in Config
    /\ keyfile \in Keys \cup {Missing, Empty, Garbled}
    /\ \A p \in Procs :
          /\ pc[p] \in Labels
          /\ pc[p] # "idle" <=> cmd[p] # None
          /\ cmd[p] = None \/ cmd[p] \in Commands
          /\ pc[p] \in {"save", "write"} <=> mem[p] # None
          /\ mem[p] # None => mem[p].cfg \in Config /\ mem[p].save
          /\ result[p] \in {None, "ok", "refused", "failed", "died"}
    /\ approved \subseteq {p \in Procs : pc[p] \in {"poll", "setkey", "keywrite", "save", "write"}}
    /\ started \in 0 .. MaxCommands
    /\ fresh \subseteq {p \in Procs : pc[p] \in {"save", "write"}}

\* No interleaving of commands, not even one that loses an update, makes the
\* file list a name twice (add_endpoint's check is on what it read).  The
\* daemon would start such an endpoint over at every reload, see Runner.
UniqueNames ==
    /\ cfgfile \in {Missing, Blank, Empty, Garbled} \/ Unique(cfgfile.endpoints)
    /\ \A p \in Procs : mem[p] # None => Unique(mem[p].cfg.endpoints)

\* Each command took effect as a whole, on what it had read.  Once no write
\* is under way, an unmixed config.yaml shows what the last command to write
\* promises of the configuration it started from, or nothing at all if that
\* write was cut short (stored).  A command that read between two writes, and
\* with no other write since, started from that: so a race loses whole
\* commands, and only those that wrote after another had read.  A refused
\* command, one that failed before it truncated the file, an init that waits
\* and one that is abandoned left everything as it was; an interactive init
\* that completes leaves no endpoint, whatever it found.  host.key holds the
\* key of the last init likewise.
Serializable ==
    /\ cfgfile # Garbled /\ ~(\E p \in Procs : Writing(p)) => View(Loaded) = stored
    /\ \A p \in fresh : base[p] = stored
    /\ keyfile # Garbled /\ ~(\E p \in Procs : pc[p] = "keywrite")
          => keyfile = storedkey \/ (keyfile = Empty /\ storedkey = Missing)

\* The exit code tells the truth: whatever happened to the file meanwhile, a
\* command ends with success exactly if it could keep its promise on what it
\* had read.  Left out is the one disagreement, EnablesMissing.
ExitHonest ==
    [][\A p \in Procs :
         LET found == IF pc[p] = "load" THEN View(Loaded) ELSE base[p]
         IN /\ pc[p] \in {"load", "write"} /\ pc'[p] = "idle"
            /\ result'[p] \in {"ok", "refused"}
            /\ ~EnablesMissing(cmd[p], found)
            => (result'[p] = "ok" <=> Promise(cmd[p], found).ok)]_vars

\* "If you want this to succeed in case it didn't exist already, pass this"
\* (src/ebbflow.rs:248, of enable and disable): no command given --idempotent
\* is refused.
IdempotentSucceeds ==
    [][\A p \in Procs :
         /\ pc[p] # "idle" /\ cmd[p].kind \in {"remove", "endpoint", "all", "ssh"}
         /\ cmd[p].idempotent
         => result'[p] # "refused"]_vars

\* A command ends, or it waits for the user or for Ebbflow's service; nothing
\* another command does holds it up.  If the service answers, it waits for the
\* user only: an init ends once its key was approved, however many polls were
\* answered otherwise before.
CommandsEnd ==
    \A p \in Procs :
        /\ (pc[p] # "idle") ~> (pc[p] \in Prompts \cup {"idle", "request", "poll"})
        /\ WF_vars(Remote(p)) =>
              ((pc[p] # "idle") ~> (pc[p] \in Prompts \cup {"idle"} \/ (pc[p] = "poll" /\ p \notin approved)))

\* "the maxmimum amount of idle connections to Ebbflow, will be capped"
\* (src/ebbflow.rs:214): the daemon keeps the limit given, or the cap if that
\* is smaller.
IdleCapped ==
    cfgfile # Garbled /\ ~(\E p \in Procs : Writing(p)) =>
        \A e \in View(Loaded).entries, f \in stored.entries : e.dns = f.dns => e.maxidle = f.maxidle
=============================================================================
