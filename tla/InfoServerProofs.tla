-------------------------- MODULE InfoServerProofs --------------------------
(* The status command is never misled about a daemon that is up, for any   *)
(* set of ports, any number of commands and of faults.                     *)
EXTENDS InfoServer, TLAPS

(* FailureHonest is about the end of a command.  What leads there: a       *)
(* serving daemon has published its port, and a command that saw no gap    *)
(* read that very port, which is still the daemon's.                       *)
Answers == {None, "status", "error 500", "io error", "no address", "parsing", "not running", "unexpected"}

Published == pc = "serve" => port \in Ports /\ addrfile = port

NoGap ==
    \A c \in Clients : (at[c] # "idle" /\ c \notin gap) =>
        /\ pc = "serve"
        /\ at[c] = "connect" => addr[c] = port

Inv ==
    /\ others \subseteq Ports /\ port \notin others
    /\ at \in [Clients -> {"idle", "read", "connect"}]
    /\ addr \in [Clients -> Ports \cup {None}]
    /\ answer \in [Clients -> Answers]
    /\ port \in Ports \cup {None}
    /\ pc = "write" \/ pc = "writing" => port \in Ports
    /\ Published /\ NoGap /\ FailureHonest

\* A step of the server or of another program that keeps the publication.
LEMMA ServerKeeps ==
    ASSUME Inv, ServerNext \/ Faults
    PROVE  Inv'
<1>1. UNCHANGED client /\ gap' = (IF pc' = "serve" THEN gap ELSE gap \cup Busy)
  BY DEF ServerNext, Faults, StartDaemon, Bind, BindFails, BeginWriteAddr, WriteAddr,
         WriteAddrFails, Retry, ServerError, Crash, Note, client
<1>2. UNCHANGED others
  BY DEF ServerNext, Faults, StartDaemon, Bind, BindFails, BeginWriteAddr, WriteAddr,
         WriteAddrFails, Retry, ServerError, Crash
<1>3. port' \in Ports \cup {None} /\ port' \notin others /\ Published'
      /\ (pc' = "write" \/ pc' = "writing" => port' \in Ports)
  BY InfoServerAssumption
     DEF Inv, Published, ServerNext, Faults, StartDaemon, Bind, BindFails, BeginWriteAddr,
         WriteAddr, WriteAddrFails, Retry, ServerError, Crash
<1>4. pc' = "serve" => pc = "writing"
  BY DEF ServerNext, Faults, StartDaemon, Bind, BindFails, BeginWriteAddr, WriteAddr,
         WriteAddrFails, Retry, ServerError, Crash
<1>5. NoGap'
  BY <1>1, <1>4 DEF Inv, NoGap, Busy, client
<1>6. FailureHonest'
  BY <1>1 DEF Inv, FailureHonest, client
<1> QED
  BY <1>1, <1>2, <1>3, <1>5, <1>6 DEF Inv, client

\* Another program never takes the port of the server.
LEMMA OthersKeep ==
    ASSUME Inv, OtherProgram
    PROVE  Inv'
<1>1. UNCHANGED <<server, addrfile, client, gap>>
  BY DEF OtherProgram
<1>2. others' \subseteq Ports /\ port \notin others'
  BY DEF OtherProgram, Inv
<1> QED
  BY <1>1, <1>2 DEF Inv, Published, NoGap, FailureHonest, server, client

\* A step of a status command: what it reports is true.
LEMMA ClientKeeps ==
    ASSUME Inv, NEW c \in Clients, Ask(c) \/ ReadAddr(c) \/ Connect(c)
    PROVE  Inv'
<1>1. UNCHANGED <<server, others, addrfile>>
  BY DEF Ask, ReadAddr, Connect
<1>2. Published'
  BY <1>1 DEF Inv, Published, server
<1>3. CASE Ask(c)
  <2>1. NoGap'
    BY <1>1, <1>3 DEF Inv, NoGap, Ask, server
  <2>2. FailureHonest'
    BY <1>3, InfoServerAssumption DEF Inv, FailureHonest, Ask
  <2>3. None \in Answers
    BY DEF Answers
  <2> QED
    BY <1>1, <1>2, <1>3, <2>1, <2>2, <2>3 DEF Inv, Ask, server
<1>4. CASE ReadAddr(c)
  <2> DEFINE Reads == /\ addrfile \in Ports /\ addr' = [addr EXCEPT ![c] = addrfile]
                      /\ at' = [at EXCEPT ![c] = "connect"] /\ UNCHANGED answer
  <2>1. CASE Reads
    <3>1. NoGap'
      BY <1>1, <1>4, <2>1 DEF Inv, NoGap, Published, ReadAddr, server
    <3>2. FailureHonest'
      BY <1>4, <2>1 DEF Inv, FailureHonest, ReadAddr
    <3> QED
      BY <1>1, <1>2, <1>4, <2>1, <3>1, <3>2 DEF Inv, ReadAddr, server
  <2>2. CASE ~Reads
    <3>1. PICK a \in {"no address", "parsing", "io error"} : Answer(c, a) /\ (a # "io error" => c \in gap)
      BY <1>4, <2>2, InfoServerAssumption DEF Inv, NoGap, Published, ReadAddr
    <3>2. NoGap' /\ FailureHonest'
      BY <1>1, <1>4, <3>1 DEF Inv, NoGap, FailureHonest, ReadAddr, Answer, server
    <3>3. a \in Answers
      BY <3>1 DEF Answers
    <3> QED
      BY <1>1, <1>2, <1>4, <3>1, <3>2, <3>3 DEF Inv, ReadAddr, Answer, server
  <2> QED
    BY <2>1, <2>2
<1>5. CASE Connect(c)
  <2>1. PICK a \in {"status", "error 500", "not running", "unexpected"} :
          Answer(c, a) /\ (a \notin {"status", "error 500"} => c \in gap)
    BY <1>5 DEF Inv, NoGap, Connect, Handle
  <2>2. NoGap' /\ FailureHonest'
    BY <1>1, <1>5, <2>1 DEF Inv, NoGap, FailureHonest, Connect, Handle, Answer, server
  <2>3. a \in Answers
    BY <2>1 DEF Answers
  <2> QED
    BY <1>1, <1>2, <1>5, <2>1, <2>2, <2>3 DEF Inv, Connect, Handle, Answer, server
<1> QED
  BY <1>3, <1>4, <1>5

\* The server, the other programs and the faults keep the types.
LEMMA TypeServer ==
    ASSUME Inv, TypeOK, ServerNext \/ Faults \/ OtherProgram
    PROVE  TypeOK'
<1>1. UNCHANGED <<at, addr, answer>>
  BY DEF ServerNext, Faults, StartDaemon, Bind, BindFails, BeginWriteAddr, WriteAddr,
         WriteAddrFails, Retry, ServerError, Crash, OtherProgram, client
<1>2. /\ pc' \in {"down", "bind", "write", "writing", "serve", "sleep"}
      /\ addrfile' \in Ports \cup {Missing, Empty, Garbled}
  BY DEF Torn, Inv, TypeOK, ServerNext, Faults, StartDaemon, Bind, BindFails, BeginWriteAddr,
         WriteAddr, WriteAddrFails, Retry, ServerError, Crash, OtherProgram, server
<1>3. faults' \in 0 .. MaxFaults
  <2>1. Fault \/ faults' = faults
    BY DEF ServerNext, Faults, StartDaemon, Bind, BindFails, BeginWriteAddr,
           WriteAddr, WriteAddrFails, Retry, ServerError, Crash, OtherProgram
  <2>2. faults \in 0 .. MaxFaults /\ MaxFaults \in Nat
    BY InfoServerAssumption DEF TypeOK
  <2> QED BY ONLY <2>1, <2>2 DEF Fault
<1>4. gap' \subseteq Clients
  BY DEF TypeOK, ServerNext, Faults, StartDaemon, Bind, BindFails, BeginWriteAddr,
         WriteAddr, WriteAddrFails, Retry, ServerError, Crash, OtherProgram, Note, Busy
<1>5. others' \subseteq Ports /\ port' \notin others' /\ port' \in Ports \cup {None}
  BY ServerKeeps, OthersKeep DEF Inv
<1> QED
  BY <1>1, <1>2, <1>3, <1>4, <1>5 DEF TypeOK

\* So does a status command: it holds an address exactly while it connects.
LEMMA TypeClient ==
    ASSUME Inv, TypeOK, NEW c \in Clients, Ask(c) \/ ReadAddr(c) \/ Connect(c)
    PROVE  TypeOK'
<1>1. UNCHANGED <<server, others, addrfile, faults>> /\ gap' \subseteq Clients
  BY DEF TypeOK, Ask, ReadAddr, Connect
<1>2. PICK a \in {"idle", "read", "connect"}, p \in Ports \cup {None} :
        /\ at' = [at EXCEPT ![c] = a] /\ addr' = [addr EXCEPT ![c] = p]
        /\ a = "connect" <=> p \in Ports
  <2>1. CASE Ask(c)
    <3>1. addr' = [addr EXCEPT ![c] = addr[c]] /\ addr[c] \in Ports \cup {None}
      BY <2>1 DEF Ask, Inv
    <3>2. addr[c] \notin Ports /\ at' = [at EXCEPT ![c] = "read"]
      BY <2>1 DEF Ask, TypeOK
    <3> QED BY <3>1, <3>2
  <2>2. CASE addrfile \in Ports /\ addr' = [addr EXCEPT ![c] = addrfile] /\ at' = [at EXCEPT ![c] = "connect"]
    BY <2>2
  <2>3. CASE \E x : Answer(c, x)
    BY <2>3, InfoServerAssumption DEF Answer
  <2> QED BY <2>1, <2>2, <2>3 DEF ReadAddr, Connect, Handle
<1>3. \A d \in Clients : at'[d] \in {"idle", "read", "connect"}
                         /\ (at'[d] = "connect" <=> addr'[d] \in Ports)
  BY <1>2 DEF Inv, TypeOK
<1>4. answer' \in [Clients -> Answers]
  BY ClientKeeps DEF Inv
<1> QED
  BY <1>1, <1>3, <1>4 DEF TypeOK, server, Answers

\* The invariant and the types, in every step of the system.
LEMMA InvNext == Inv /\ TypeOK /\ [Next]_vars => Inv' /\ TypeOK'
<1> SUFFICES ASSUME Inv, TypeOK, [Next]_vars PROVE Inv' /\ TypeOK'
  OBVIOUS
<1>1. CASE UNCHANGED vars
  BY <1>1 DEF vars, server, client, Inv, Published, NoGap, FailureHonest, TypeOK
<1>2. CASE ServerNext \/ Faults \/ OtherProgram
  BY <1>2, ServerKeeps, OthersKeep, TypeServer
<1>3. ASSUME NEW c \in Clients, Ask(c) \/ ReadAddr(c) \/ Connect(c) PROVE Inv' /\ TypeOK'
  BY <1>3, ClientKeeps, TypeClient
<1> QED
  BY <1>1, <1>2, <1>3 DEF Next

\* A new system: nobody asks yet.
LEMMA InvInit == Init => Inv /\ TypeOK
<1> SUFFICES ASSUME Init PROVE Inv /\ TypeOK
  OBVIOUS
<1>1. Inv
  BY InfoServerAssumption DEF Init, Inv, Published, NoGap, FailureHonest, Answers
<1>2. TypeOK
  <2>1. faults \in 0 .. MaxFaults
    <3>1. faults = 0 /\ MaxFaults \in Nat
      BY InfoServerAssumption DEF Init
    <3> QED BY ONLY <3>1
  <2>2. \A c \in Clients : at[c] = "idle" /\ addr[c] = None /\ answer[c] = None
    BY DEF Init
  <2>3. None \notin Ports
    BY InfoServerAssumption
  <2>4. /\ pc = "down" /\ port = None /\ others = {} /\ gap = {}
        /\ addrfile \in Ports \cup {Missing, Empty, Garbled}
    BY DEF Init
  <2> QED BY ONLY <2>1, <2>2, <2>3, <2>4 DEF TypeOK
<1> QED BY <1>1, <1>2

\* Every variable keeps its type, and a port has one owner.
THEOREM TypeCorrect == Spec => []TypeOK
BY InvInit, InvNext, PTL DEF Spec

\* A status command fails only if the daemon was not up at some moment while
\* the command ran: no stale address, half-written file or port that went to
\* another program makes a serving daemon look dead.
THEOREM HonestTheorem == Spec => []FailureHonest
<1>1. Inv => FailureHonest
  BY DEF Inv
<1> QED
  BY <1>1, InvInit, InvNext, PTL DEF Spec
=============================================================================
