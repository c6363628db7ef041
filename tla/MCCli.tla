-------------------------------- MODULE MCCli --------------------------------
(* Cli for TLC: two shells and a selection of commands.                    *)
EXTENDS Cli

CONSTANTS a, b   \* endpoint names

Add(d, idle, disabled) == [kind |-> "add", dns |-> d, maxidle |-> idle, disabled |-> disabled]
Remove(d, i) == [kind |-> "remove", dns |-> d, idempotent |-> i]
Switch(d, on, i) == [kind |-> "endpoint", dns |-> d, enable |-> on, idempotent |-> i]
SwitchAll(on, i) == [kind |-> "all", enable |-> on, idempotent |-> i]
SwitchSsh(on, i) == [kind |-> "ssh", enable |-> on, idempotent |-> i]
Setup(idle, disabled) == [kind |-> "setup_ssh", maxidle |-> idle, disabled |-> disabled]
Level(l) == [kind |-> "loglevel", level |-> l]
InitKey(k) == [kind |-> "init", key |-> k]
Interactive(k, s) == [kind |-> "interactive", key |-> k, ssh |-> s]
RemoveSshArgs == [kind |-> "remove_ssh"]
PrintArgs == [kind |-> "print"]

File(es, s, l) == [endpoints |-> es, ssh |-> s, loglevel |-> l]
MCInitial == {File(<<Entry(a, 40, TRUE), Entry(b, 2000, FALSE)>>, None, None),
              File(<<Entry(b, 3, TRUE)>>, [maxidle |-> 3, enabled |-> FALSE], "debug")}

\* every command, with every switch that changes its outcome
AllCommands ==
    {Add(a, None, FALSE), Add(b, 2000, TRUE), Level("debug"), Level(None), PrintArgs, RemoveSshArgs,
     Setup(None, FALSE), Setup(2000, TRUE), InitKey("k1"), Interactive("k2", TRUE), Interactive("k2", FALSE)}
    \cup {Remove(d, i) : d \in {a, b}, i \in BOOLEAN}
    \cup {Switch(a, on, i) : on \in BOOLEAN, i \in BOOLEAN}
    \cup {SwitchAll(on, i) : on \in BOOLEAN, i \in BOOLEAN}
    \cup {SwitchSsh(on, i) : on \in BOOLEAN, i \in BOOLEAN}

\* limits around the cap and the width of the field
IdleCommands == {Add(a, i, FALSE) : i \in {0, 999, 1000, 1001, 65535, 65536}}

\* --idempotent wherever it may be given
IdempotentCommands == {c \in AllCommands : c.kind \in {"remove", "endpoint", "all", "ssh"} /\ c.idempotent}

=============================================================================
