--------------------------- MODULE EndpointProofs ---------------------------
(***************************************************************************)
(* The safety properties of Endpoint hold for every number of connections, *)
(* generations and permits and for all health thresholds.                  *)
(***************************************************************************)
EXTENDS Endpoint, FiniteSetTheorems, TLAPS

\* 1 if the condition holds: how much it contributes to a count.
One(b) == IF b THEN 1 ELSE 0

\* Sets of tasks are finite, and one task more or less changes their size
\* by one.
LEMMA TaskSets ==
    ASSUME NEW S \in SUBSET Conns, NEW c \in Conns
    PROVE  /\ IsFiniteSet(S) /\ Cardinality(S) \in Nat
           /\ Cardinality(S \cup {c}) = Cardinality(S) + One(c \notin S)
           /\ Cardinality(S \ {c}) = Cardinality(S) - One(c \in S)
<1>1. IsFiniteSet(S)
  BY ConnsAssumption, FS_Subset
<1>2. Cardinality(S) \in Nat
  BY <1>1, FS_CardinalityType
<1>3. Cardinality(S \cup {c}) = Cardinality(S) + One(c \notin S)
  <2>1. Cardinality(S \cup {c}) = IF c \in S THEN Cardinality(S) ELSE Cardinality(S) + 1
    BY <1>1, FS_AddElement
  <2> QED BY <1>2, <2>1 DEF One
<1>4. Cardinality(S \ {c}) = Cardinality(S) - One(c \in S)
  <2>1. Cardinality(S \ {c}) = IF c \in S THEN Cardinality(S) - 1 ELSE Cardinality(S)
    BY <1>1, FS_RemoveElement
  <2> QED BY <1>2, <2>1 DEF One
<1> QED BY <1>1, <1>2, <1>3, <1>4

\* How a set of tasks changes when only task c may enter or leave it.
LEMMA OneTaskChange ==
    ASSUME NEW S \in SUBSET Conns, NEW T \in SUBSET Conns, NEW c \in Conns,
           \A d \in Conns \ {c} : d \in S <=> d \in T
    PROVE  Cardinality(T) = Cardinality(S) + One(c \in T) - One(c \in S)
<1>1. CASE c \in T
  <2>1. T = S \cup {c}
    BY <1>1
  <2>2. Cardinality(T) = Cardinality(S) + One(c \notin S) /\ Cardinality(S) \in Nat
    BY <2>1, TaskSets
  <2> QED BY <1>1, <2>2 DEF One
<1>2. CASE c \notin T
  <2>1. T = S \ {c}
    BY <1>2
  <2>2. Cardinality(T) = Cardinality(S) - One(c \in S) /\ Cardinality(S) \in Nat
    BY <2>1, TaskSets
  <2> QED BY <1>2, <2>2 DEF One
<1> QED BY <1>1, <1>2

\* A step of one task c to phase q, under generation h, changes every count
\* by what c stops and starts to contribute.
LEMMA MoveCounts ==
    ASSUME TypeOK, NEW c \in Conns, NEW q, NEW h,
           phase' = [phase EXCEPT ![c] = q],
           cgen' = [cgen EXCEPT ![c] = h]
    PROVE  /\ Cardinality(IdleTasks') =
                Cardinality(IdleTasks) + One(q \in IdlePhases)
                                       - One(phase[c] \in IdlePhases)
           /\ Cardinality(ActiveTasks') =
                Cardinality(ActiveTasks) + One(q \in ActivePhases)
                                         - One(phase[c] \in ActivePhases)
           /\ \A g \in Gens :
                /\ Cardinality(MaxHolders(g)') =
                     Cardinality(MaxHolders(g)) + One(h = g /\ q # "aborted")
                        - One(cgen[c] = g /\ phase[c] # "aborted")
                /\ Cardinality(IdleHolders(g)') =
                     Cardinality(IdleHolders(g))
                        + One(h = g /\ q \in IdlePermitPhases)
                        - One(cgen[c] = g /\ phase[c] \in IdlePermitPhases)
<1>0. /\ phase'[c] = q /\ cgen'[c] = h
      /\ \A d \in Conns \ {c} : phase'[d] = phase[d] /\ cgen'[d] = cgen[d]
  BY DEF TypeOK
<1>1. Cardinality(IdleTasks') = Cardinality(IdleTasks) + One(c \in IdleTasks')
                                  - One(c \in IdleTasks)
  <2>1. IdleTasks \in SUBSET Conns /\ IdleTasks' \in SUBSET Conns
    BY DEF IdleTasks
  <2>2. \A d \in Conns \ {c} : d \in IdleTasks <=> d \in IdleTasks'
    BY <1>0 DEF IdleTasks
  <2> QED BY <2>1, <2>2, OneTaskChange
<1>2. Cardinality(ActiveTasks') = Cardinality(ActiveTasks) + One(c \in ActiveTasks')
                                    - One(c \in ActiveTasks)
  <2>1. ActiveTasks \in SUBSET Conns /\ ActiveTasks' \in SUBSET Conns
    BY DEF ActiveTasks
  <2>2. \A d \in Conns \ {c} : d \in ActiveTasks <=> d \in ActiveTasks'
    BY <1>0 DEF ActiveTasks
  <2> QED BY <2>1, <2>2, OneTaskChange
<1>3. ASSUME NEW g \in Gens
      PROVE Cardinality(MaxHolders(g)') = Cardinality(MaxHolders(g))
                + One(c \in MaxHolders(g)') - One(c \in MaxHolders(g))
  <2>1. MaxHolders(g) \in SUBSET Conns /\ MaxHolders(g)' \in SUBSET Conns
    BY DEF MaxHolders
  <2>2. \A d \in Conns \ {c} : d \in MaxHolders(g) <=> d \in MaxHolders(g)'
    BY <1>0 DEF MaxHolders
  <2> QED BY <2>1, <2>2, OneTaskChange
<1>4. ASSUME NEW g \in Gens
      PROVE Cardinality(IdleHolders(g)') = Cardinality(IdleHolders(g))
                + One(c \in IdleHolders(g)') - One(c \in IdleHolders(g))
  <2>1. IdleHolders(g) \in SUBSET Conns /\ IdleHolders(g)' \in SUBSET Conns
    BY DEF IdleHolders
  <2>2. \A d \in Conns \ {c} : d \in IdleHolders(g) <=> d \in IdleHolders(g)'
    BY <1>0 DEF IdleHolders
  <2> QED BY <2>1, <2>2, OneTaskChange
<1>5. /\ c \in IdleTasks' <=> q \in IdlePhases
      /\ c \in IdleTasks <=> phase[c] \in IdlePhases
      /\ c \in ActiveTasks' <=> q \in ActivePhases
      /\ c \in ActiveTasks <=> phase[c] \in ActivePhases
  BY <1>0 DEF IdleTasks, ActiveTasks
<1>6. ASSUME NEW g \in Gens
      PROVE /\ c \in MaxHolders(g)' <=> (h = g /\ q # "aborted")
            /\ c \in MaxHolders(g) <=> (cgen[c] = g /\ phase[c] # "aborted")
            /\ c \in IdleHolders(g)' <=> (h = g /\ q \in IdlePermitPhases)
            /\ c \in IdleHolders(g) <=> (cgen[c] = g /\ phase[c] \in IdlePermitPhases)
  BY <1>0 DEF MaxHolders, IdleHolders
<1> QED BY <1>1, <1>2, <1>3, <1>4, <1>5, <1>6 DEF One

-----------------------------------------------------------------------------
(* Accounting of the steps of a connection task.                           *)

\* Task c goes to phase q under generation h, and the counters and the
\* semaphores change by exactly what that accounts for.
Accounted(c, q, h) ==
    /\ phase' = [phase EXCEPT ![c] = q]
    /\ cgen' = [cgen EXCEPT ![c] = h]
    /\ q \in Phases /\ h \in Gens \cup {NoGen}
    /\ idle' = idle + One(q \in IdlePhases) - One(phase[c] \in IdlePhases)
    /\ active' = active + One(q \in ActivePhases) - One(phase[c] \in ActivePhases)
    /\ idlesem' \in [Gens -> Nat] /\ maxsem' \in [Gens -> Nat]
    /\ \A g \in Gens :
        /\ idlesem'[g] = idlesem[g]
             - One(h = g /\ q \in IdlePermitPhases)
             + One(cgen[c] = g /\ phase[c] \in IdlePermitPhases)
        /\ maxsem'[g] = maxsem[g]
             - One(h = g /\ q # "aborted")
             + One(cgen[c] = g /\ phase[c] # "aborted")
    /\ signalled' = signalled

\* Every step of a task is accounted for.
LEMMA ConnAccounting ==
    ASSUME TypeOK, TasksOwned, NEW c \in Conns, ConnNext(c)
    PROVE  \E q, h : Accounted(c, q, h)
<1> USE DEF Move, Unidle, Accounted, One, Phases, IdlePermitPhases, IdlePhases,
            ActivePhases, NoGen
<1>0. /\ phase \in [Conns -> Phases] /\ cgen \in [Conns -> Gens \cup {NoGen}]
      /\ idle \in Int /\ active \in Int
      /\ idlesem \in [Gens -> Nat] /\ maxsem \in [Gens -> Nat]
      /\ phase[c] # "free" => cgen[c] \in Gens
      /\ phase[c] = "aborted" => c \in piped
  BY DEF TypeOK, TasksOwned, TaskOwned
<1>b. NoGen \notin Gens
  BY DEF Gens
<1>a. cgen = [cgen EXCEPT ![c] = cgen[c]] /\ phase = [phase EXCEPT ![c] = phase[c]]
  BY <1>0
<1>1. ASSUME Begin(c) PROVE Accounted(c, "connecting", cgen[c])
  BY <1>1, <1>0, <1>a DEF Begin
<1>2. ASSUME Connected(c) PROVE Accounted(c, "hello", cgen[c])
  BY <1>2, <1>0, <1>a DEF Connected
<1>3. ASSUME HelloAccepted(c) PROVE Accounted(c, "select", cgen[c])
  BY <1>3, <1>0, <1>a DEF HelloAccepted
<1>4. ASSUME HelloRejected(c) PROVE Accounted(c, "bad_delay", cgen[c])
  BY <1>4, <1>0, <1>a DEF HelloRejected
<1>5. ASSUME EstablishFails(c) PROVE Accounted(c, "min_delay", cgen[c])
  BY <1>5, <1>0, <1>a DEF EstablishFails
<1>6. ASSUME IdleTimeout(c) PROVE Accounted(c, "returned", cgen[c])
  BY <1>6, <1>0, <1>a DEF IdleTimeout
<1>7. ASSUME PollReceiver(c)
      PROVE  Accounted(c, "min_delay", cgen[c]) \/ Accounted(c, "traffic", cgen[c])
  BY <1>7, <1>0, <1>a DEF PollReceiver
<1>8. ASSUME TrafficStart(c) PROVE Accounted(c, "established", cgen[c])
  BY <1>8, <1>0, <1>a DEF TrafficStart
<1>9. ASSUME BadDelay(c) PROVE Accounted(c, "min_delay", cgen[c])
  BY <1>9, <1>0, <1>a DEF BadDelay
<1>10. ASSUME MinDelay(c) PROVE Accounted(c, "returned", cgen[c])
  BY <1>10, <1>0, <1>a DEF MinDelay
<1>11. ASSUME Return(c) PROVE Accounted(c, "finished", cgen[c])
  BY <1>11, <1>0, <1>a DEF Return
<1>12. ASSUME DropIdlePermit(c) PROVE Accounted(c, "local", cgen[c])
  BY <1>12, <1>0, <1>a DEF DropIdlePermit
<1>13. ASSUME DropMax(c)
      PROVE  Accounted(c, "aborted", cgen[c]) \/ Accounted(c, "free", NoGen)
  <2>1. CASE c \in piped
    <3> QED BY <1>13, <2>1, <1>0, <1>a DEF DropMax
  <2>2. CASE c \notin piped
    <3> QED BY <1>13, <2>2, <1>0, <1>a, <1>b DEF DropMax
  <2> QED BY <2>1, <2>2
<1>14. ASSUME LocalConnected(c) PROVE Accounted(c, "proxying", cgen[c])
  BY <1>14, <1>0, <1>a DEF LocalConnected
<1>15. ASSUME LocalFails(c) PROVE Accounted(c, "local_delay", cgen[c])
  BY <1>15, <1>0, <1>a DEF LocalFails
<1>16. ASSUME LocalDelay(c) PROVE Accounted(c, "finished", cgen[c])
  BY <1>16, <1>0, <1>a DEF LocalDelay
<1>17. ASSUME Drain(c) PROVE Accounted(c, "draining", cgen[c])
  BY <1>17, <1>0, <1>a DEF Drain
<1>18. ASSUME KillActive(c) PROVE Accounted(c, "finished", cgen[c])
  BY <1>18, <1>0, <1>a DEF KillActive
<1>19. ASSUME ProxyEnds(c) PROVE Accounted(c, "finished", cgen[c])
  BY <1>19, <1>0, <1>a DEF ProxyEnds
<1>20. ASSUME PipeCloses(c)
      PROVE  Accounted(c, phase[c], cgen[c]) \/ Accounted(c, "free", NoGen)
  <2>1. CASE phase[c] = "aborted"
    <3> QED BY <1>20, <2>1, <1>0, <1>a, <1>b DEF PipeCloses
  <2>2. CASE phase[c] # "aborted"
    <3> QED BY <1>20, <2>2, <1>0, <1>a DEF PipeCloses
  <2> QED BY <2>1, <2>2
<1> HIDE DEF Accounted
<1> QED BY <1>1, <1>2, <1>3, <1>4, <1>5, <1>6, <1>7, <1>8, <1>9, <1>10, <1>11,
          <1>12, <1>13, <1>14, <1>15, <1>16, <1>17, <1>18, <1>19, <1>20
       DEF ConnNext, Timed, Peers

\* What a step of task c does to the streams: only c is concerned, and what
\* TasksOwned says of c still holds.
LEMMA ConnStreams ==
    ASSUME TypeOK, TasksOwned, NEW c \in Conns, ConnNext(c), gen' = gen
    PROVE  /\ piped' \subseteq Conns
           /\ \A d \in Conns \ {c} : d \in piped' <=> d \in piped
           /\ TaskOwned(c)'
<1> USE DEF Move, Unidle, TaskOwned, Phases, IdlePermitPhases, IdlePhases,
            ActivePhases, NoGen
<1> DEFINE P == /\ piped' \subseteq Conns
                /\ \A d \in Conns \ {c} : d \in piped' <=> d \in piped
                /\ TaskOwned(c)'
<1>0. /\ phase \in [Conns -> Phases] /\ cgen \in [Conns -> Gens \cup {NoGen}]
      /\ piped \subseteq Conns /\ TaskOwned(c) /\ gen \in 0..MaxGen
      /\ signalled \in [Gens -> BOOLEAN] /\ MaxGen \in Nat
  BY MaxGenAssumption DEF TypeOK, TasksOwned
<1>1. ASSUME Begin(c) PROVE P
  BY <1>1, <1>0 DEF Begin
<1>2. ASSUME Connected(c) PROVE P
  BY <1>2, <1>0 DEF Connected
<1>3. ASSUME HelloAccepted(c) PROVE P
  BY <1>3, <1>0 DEF HelloAccepted
<1>4. ASSUME HelloRejected(c) PROVE P
  BY <1>4, <1>0 DEF HelloRejected
<1>5. ASSUME EstablishFails(c) PROVE P
  BY <1>5, <1>0 DEF EstablishFails
<1>6. ASSUME IdleTimeout(c) PROVE P
  BY <1>6, <1>0 DEF IdleTimeout
<1>7. ASSUME PollReceiver(c) PROVE P
  BY <1>7, <1>0 DEF PollReceiver
<1>8. ASSUME TrafficStart(c) PROVE P
  BY <1>8, <1>0 DEF TrafficStart
<1>9. ASSUME BadDelay(c) PROVE P
  BY <1>9, <1>0 DEF BadDelay
<1>10. ASSUME MinDelay(c) PROVE P
  BY <1>10, <1>0 DEF MinDelay
<1>11. ASSUME Return(c) PROVE P
  BY <1>11, <1>0 DEF Return
<1>12. ASSUME DropIdlePermit(c) PROVE P
  BY <1>12, <1>0 DEF DropIdlePermit
<1>13. ASSUME DropMax(c) PROVE P
  BY <1>13, <1>0 DEF DropMax
<1>14. ASSUME LocalConnected(c) PROVE P
  BY <1>14, <1>0 DEF LocalConnected
<1>15. ASSUME LocalFails(c) PROVE P
  BY <1>15, <1>0 DEF LocalFails
<1>16. ASSUME LocalDelay(c) PROVE P
  BY <1>16, <1>0 DEF LocalDelay
<1>17. ASSUME Drain(c) PROVE P
  BY <1>17, <1>0 DEF Drain
<1>18. ASSUME KillActive(c) PROVE P
  BY <1>18, <1>0 DEF KillActive
<1>19. ASSUME ProxyEnds(c) PROVE P
  BY <1>19, <1>0 DEF ProxyEnds
<1>20. ASSUME PipeCloses(c) PROVE P
  BY <1>20, <1>0 DEF PipeCloses
<1> HIDE DEF P
<1>z. P
  BY <1>1, <1>2, <1>3, <1>4, <1>5, <1>6, <1>7, <1>8, <1>9, <1>10,
     <1>11, <1>12, <1>13, <1>14, <1>15, <1>16, <1>17, <1>18, <1>19, <1>20
     DEF ConnNext, Timed, Peers
<1> QED BY <1>z DEF P

\* A step of a task preserves the type invariant and the ownership of tasks.
LEMMA ConnOwned ==
    ASSUME TypeOK, TasksOwned, NEW c \in Conns, ConnNext(c), UNCHANGED svars
    PROVE  TypeOK' /\ TasksOwned'
<1>1. PICK q, h : Accounted(c, q, h)
  BY ConnAccounting
<1>2. gen' = gen /\ sup' = sup /\ stop' = stop /\ loop' = loop
      /\ checked' = checked /\ healthy' = healthy /\ recent' = recent
  BY DEF svars
<1>3. /\ piped' \subseteq Conns
      /\ \A d \in Conns \ {c} : d \in piped' <=> d \in piped
      /\ TaskOwned(c)'
  BY <1>2, ConnStreams
<1>4. /\ phase' \in [Conns -> Phases] /\ cgen' \in [Conns -> Gens \cup {NoGen}]
      /\ signalled' = signalled
      /\ idlesem' \in [Gens -> Nat] /\ maxsem' \in [Gens -> Nat]
      /\ \A d \in Conns \ {c} : phase'[d] = phase[d] /\ cgen'[d] = cgen[d]
  BY <1>1 DEF Accounted, TypeOK
<1>5. idle' \in Int /\ active' \in Int
  BY <1>1 DEF Accounted, TypeOK, One
<1>6. HM!TypeOK'
  BY <1>2 DEF TypeOK, HM!TypeOK, HM!Capacity
<1>7. TypeOK'
  BY <1>2, <1>3, <1>4, <1>5, <1>6 DEF TypeOK
<1>8. ASSUME NEW d \in Conns \ {c} PROVE TaskOwned(d)'
  BY <1>2, <1>3, <1>4 DEF TasksOwned, TaskOwned
<1>9. \A d \in Conns : TaskOwned(d)'
  BY <1>3, <1>8
<1> QED BY <1>2, <1>7, <1>9 DEF TasksOwned

\* The size of a set of tasks of one generation is a natural number.
LEMMA CountTypes ==
    /\ Cardinality(IdleTasks) \in Nat /\ Cardinality(ActiveTasks) \in Nat
    /\ \A g \in Gens : /\ Cardinality(MaxHolders(g)) \in Nat
                        /\ Cardinality(IdleHolders(g)) \in Nat
<1>1. \A S \in SUBSET Conns : Cardinality(S) \in Nat
  BY ConnsAssumption, FS_Subset, FS_CardinalityType
<1> QED BY <1>1 DEF IdleTasks, ActiveTasks, MaxHolders, IdleHolders

\* A step of a task loses no permit and keeps the counters exact.
LEMMA ConnCounts ==
    ASSUME TypeOK, TasksOwned, PermitsConserved, CountersExact,
           NEW c \in Conns, ConnNext(c), UNCHANGED svars
    PROVE  PermitsConserved' /\ CountersExact'
<1>1. PICK q, h : Accounted(c, q, h)
  BY ConnAccounting
<1>2. gen' = gen /\ loop' = loop
  BY DEF svars
<1>3. /\ Cardinality(IdleTasks') =
           Cardinality(IdleTasks) + One(q \in IdlePhases)
                                  - One(phase[c] \in IdlePhases)
      /\ Cardinality(ActiveTasks') =
           Cardinality(ActiveTasks) + One(q \in ActivePhases)
                                    - One(phase[c] \in ActivePhases)
      /\ \A g \in Gens :
           /\ Cardinality(MaxHolders(g)') =
                Cardinality(MaxHolders(g)) + One(h = g /\ q # "aborted")
                   - One(cgen[c] = g /\ phase[c] # "aborted")
           /\ Cardinality(IdleHolders(g)') =
                Cardinality(IdleHolders(g))
                   + One(h = g /\ q \in IdlePermitPhases)
                   - One(cgen[c] = g /\ phase[c] \in IdlePermitPhases)
  BY <1>1, MoveCounts DEF Accounted
<1>4. CountersExact'
  BY <1>1, <1>3 DEF Accounted, CountersExact
<1>5. ASSUME NEW g \in 1..gen
      PROVE  /\ maxsem'[g] + Cardinality(MaxHolders(g)') + LoopHoldsMax(g)' = MaxConns
             /\ idlesem'[g] + Cardinality(IdleHolders(g)') + LoopHoldsIdle(g)' = IdleConns
  <2>1. g \in Gens
    BY MaxGenAssumption DEF TypeOK, Gens
  <2>2. LoopHoldsMax(g)' = LoopHoldsMax(g) /\ LoopHoldsIdle(g)' = LoopHoldsIdle(g)
        /\ LoopHoldsMax(g) \in Nat /\ LoopHoldsIdle(g) \in Nat
    BY <1>2 DEF LoopHoldsMax, LoopHoldsIdle
  <2>3. \A b : One(b) \in Nat
    BY DEF One
  <2>4. /\ maxsem[g] \in Nat /\ idlesem[g] \in Nat
        /\ Cardinality(MaxHolders(g)) \in Nat /\ Cardinality(IdleHolders(g)) \in Nat
    BY <2>1, CountTypes DEF TypeOK
  <2>5. /\ maxsem[g] + Cardinality(MaxHolders(g)) + LoopHoldsMax(g) = MaxConns
        /\ idlesem[g] + Cardinality(IdleHolders(g)) + LoopHoldsIdle(g) = IdleConns
    BY DEF PermitsConserved
  <2>6. /\ maxsem'[g] + Cardinality(MaxHolders(g)') = maxsem[g] + Cardinality(MaxHolders(g))
        /\ idlesem'[g] + Cardinality(IdleHolders(g)')
             = idlesem[g] + Cardinality(IdleHolders(g))
    BY <1>1, <1>3, <2>1, <2>3, <2>4 DEF Accounted
  <2> QED BY <2>2, <2>4, <2>5, <2>6
<1> QED BY <1>2, <1>4, <1>5 DEF PermitsConserved

-----------------------------------------------------------------------------
(* The tasks that carry traffic or may come to carry it.                   *)

\* While a generation is open they all hold a max permit, so there are no
\* more of them than permits.
OpenStreamsBounded ==
    \A g \in 1..gen : ~signalled[g] => Cardinality(Committed(g)) <= MaxConns

\* The connections that count against the pool are at most its permits.
LEMMA OpenBounded ==
    TypeOK /\ TasksOwned /\ PermitsConserved => OpenStreamsBounded
<1> SUFFICES ASSUME TypeOK, TasksOwned, PermitsConserved,
                    NEW g \in 1..gen, ~signalled[g]
             PROVE  Cardinality(Committed(g)) <= MaxConns
  BY DEF OpenStreamsBounded
<1>1. g \in Gens
  BY MaxGenAssumption DEF TypeOK, Gens
<1>2. Committed(g) \subseteq MaxHolders(g)
  BY <1>1 DEF Committed, MaxHolders, CommitPhases, TasksOwned, TaskOwned, TypeOK
<1>3. IsFiniteSet(MaxHolders(g))
  BY ConnsAssumption, FS_Subset DEF MaxHolders
<1>4. /\ Cardinality(Committed(g)) <= Cardinality(MaxHolders(g))
      /\ Cardinality(Committed(g)) \in Nat /\ Cardinality(MaxHolders(g)) \in Nat
  BY <1>2, <1>3, FS_Subset, FS_CardinalityType
<1>5. /\ maxsem[g] + Cardinality(MaxHolders(g)) + LoopHoldsMax(g) = MaxConns
      /\ maxsem[g] \in Nat /\ LoopHoldsMax(g) \in Nat /\ MaxConns \in Nat
  BY <1>1, EndpointAssumption DEF PermitsConserved, TypeOK, LoopHoldsMax
<1> QED BY <1>4, <1>5

\* Once a generation is signalled no task of it becomes one of them: the
\* look at the receiver before traffic is what a late stop relies on.
LEMMA SignalledOnlyShrinks ==
    ASSUME TypeOK, TasksOwned, NEW c \in Conns, ConnNext(c),
           NEW g \in Gens, signalled[g]
    PROVE  Committed(g)' \subseteq Committed(g)
<1> USE DEF Move, Unidle, TaskOwned, CommitPhases, Committed
<1> DEFINE P == Committed(g)' \subseteq Committed(g)
<1>0. /\ phase \in [Conns -> Phases] /\ cgen \in [Conns -> Gens \cup {NoGen}]
      /\ piped \subseteq Conns /\ TaskOwned(c) /\ NoGen \notin Gens
  BY DEF TypeOK, TasksOwned, NoGen, Gens
<1>1. ASSUME Begin(c) PROVE P
  BY <1>1, <1>0 DEF Begin
<1>2. ASSUME Connected(c) PROVE P
  BY <1>2, <1>0 DEF Connected
<1>3. ASSUME HelloAccepted(c) PROVE P
  BY <1>3, <1>0 DEF HelloAccepted
<1>4. ASSUME HelloRejected(c) PROVE P
  BY <1>4, <1>0 DEF HelloRejected
<1>5. ASSUME EstablishFails(c) PROVE P
  BY <1>5, <1>0 DEF EstablishFails
<1>6. ASSUME IdleTimeout(c) PROVE P
  BY <1>6, <1>0 DEF IdleTimeout
<1>7. ASSUME PollReceiver(c) PROVE P
  BY <1>7, <1>0 DEF PollReceiver
<1>8. ASSUME TrafficStart(c) PROVE P
  BY <1>8, <1>0 DEF TrafficStart
<1>9. ASSUME BadDelay(c) PROVE P
  BY <1>9, <1>0 DEF BadDelay
<1>10. ASSUME MinDelay(c) PROVE P
  BY <1>10, <1>0 DEF MinDelay
<1>11. ASSUME Return(c) PROVE P
  BY <1>11, <1>0 DEF Return
<1>12. ASSUME DropIdlePermit(c) PROVE P
  BY <1>12, <1>0 DEF DropIdlePermit
<1>13. ASSUME DropMax(c) PROVE P
  BY <1>13, <1>0 DEF DropMax
<1>14. ASSUME LocalConnected(c) PROVE P
  BY <1>14, <1>0 DEF LocalConnected
<1>15. ASSUME LocalFails(c) PROVE P
  BY <1>15, <1>0 DEF LocalFails
<1>16. ASSUME LocalDelay(c) PROVE P
  BY <1>16, <1>0 DEF LocalDelay
<1>17. ASSUME Drain(c) PROVE P
  BY <1>17, <1>0 DEF Drain
<1>18. ASSUME KillActive(c) PROVE P
  BY <1>18, <1>0 DEF KillActive
<1>19. ASSUME ProxyEnds(c) PROVE P
  BY <1>19, <1>0 DEF ProxyEnds
<1>20. ASSUME PipeCloses(c) PROVE P
  BY <1>20, <1>0 DEF PipeCloses
<1> HIDE DEF P
<1>z. P
  BY <1>1, <1>2, <1>3, <1>4, <1>5, <1>6, <1>7, <1>8, <1>9, <1>10,
     <1>11, <1>12, <1>13, <1>14, <1>15, <1>16, <1>17, <1>18, <1>19, <1>20
     DEF ConnNext, Timed, Peers
<1> QED BY <1>z DEF P

\* A step of a task keeps the number of such tasks bounded.
LEMMA ConnStreamsBounded ==
    ASSUME TypeOK, TasksOwned, PermitsConserved, CountersExact, StreamsBounded,
           NEW c \in Conns, ConnNext(c), UNCHANGED svars
    PROVE  StreamsBounded'
<1>1. TypeOK' /\ TasksOwned' /\ PermitsConserved'
  BY ConnOwned, ConnCounts
<1>2. gen' = gen /\ signalled' = signalled
  BY ConnAccounting DEF svars, Accounted
<1> SUFFICES ASSUME NEW g \in Gens PROVE Cardinality(Committed(g)') <= MaxConns
  BY DEF StreamsBounded
<1>3. CASE signalled[g]
  <2>1. Committed(g)' \subseteq Committed(g)
    BY <1>3, SignalledOnlyShrinks
  <2>2. IsFiniteSet(Committed(g))
    BY ConnsAssumption, FS_Subset DEF Committed
  <2>3. /\ Cardinality(Committed(g)') <= Cardinality(Committed(g))
        /\ Cardinality(Committed(g)') \in Nat /\ Cardinality(Committed(g)) \in Nat
    BY <2>1, <2>2, FS_Subset, FS_CardinalityType
  <2> QED BY <2>3, EndpointAssumption DEF StreamsBounded
<1>4. CASE ~signalled[g] /\ g \in 1..gen
  <2>1. ~signalled'[g] /\ g \in 1..gen'
    BY <1>2, <1>4
  <2>2. OpenStreamsBounded'
    BY <1>1, OpenBounded, PTL
  <2> QED BY <2>1, <2>2 DEF OpenStreamsBounded
<1>5. CASE g \notin 1..gen
  <2>1. \A d \in Conns : cgen'[d] # g
    BY <1>1, <1>2, <1>5 DEF TasksOwned, TaskOwned, Gens, TypeOK
  <2>2. Committed(g)' = {}
    BY <2>1 DEF Committed
  <2> QED BY <2>2, FS_EmptySet, EndpointAssumption
<1> QED BY <1>3, <1>4, <1>5

-----------------------------------------------------------------------------
(* The supervisor.                                                         *)

\* A report keeps the deque of HealthMaster within its bound.
LEMMA ReportTyped ==
    ASSUME HM!TypeOK, NEW r \in BOOLEAN, HM!Report(r)
    PROVE  HM!TypeOK'
<1>1. ConsiderHealthyThreshold \in Nat /\ ConsiderUnhealthyThreshold \in Nat
  BY EndpointAssumption
<1>2. HM!Capacity \in Nat
  BY <1>1 DEF HM!Capacity
<1>3. <<r>> \o recent \in Seq(BOOLEAN)
  BY DEF HM!TypeOK
<1>4. \A s \in Seq(BOOLEAN) :
        HM!Truncated(s) \in Seq(BOOLEAN) /\ Len(HM!Truncated(s)) <= HM!Capacity
  BY <1>2 DEF HM!Truncated
<1>5. recent' \in Seq(BOOLEAN) /\ Len(recent') <= HM!Capacity
  BY <1>3, <1>4 DEF HM!Report
<1>6. HM!Verdict(healthy, recent') \in BOOLEAN
  <2>1. CASE healthy
    BY <2>1 DEF HM!Verdict
  <2>2. CASE ~healthy
    BY <2>2 DEF HM!Verdict
  <2> QED BY <2>1, <2>2
<1> QED BY <1>5, <1>6 DEF HM!TypeOK, HM!Report, HM!Capacity

Inv == /\ TypeOK
       /\ TasksOwned
       /\ PermitsConserved
       /\ CountersExact
       /\ StreamsBounded
       /\ OneOpenGeneration
       /\ HealthGate

\* Steps that leave tasks, semaphores, generations and accept loops alone
\* preserve everything said about these.
LEMMA QuietStep ==
    ASSUME Inv, UNCHANGED <<cvars, gen, loop>>
    PROVE  /\ PermitsConserved' /\ CountersExact' /\ StreamsBounded'
           /\ \A c \in Conns : TaskOwned(c)'
           /\ \A g \in Gens : loop'[g] # "none" => g <= gen'
<1> USE DEF Inv, cvars
<1>1. PermitsConserved'
  BY DEF PermitsConserved, MaxHolders, IdleHolders, LoopHoldsMax, LoopHoldsIdle
<1>2. CountersExact'
  BY DEF CountersExact, IdleTasks, ActiveTasks
<1>3. StreamsBounded'
  BY DEF StreamsBounded, Committed
<1>4. \A c \in Conns : TaskOwned(c)'
  BY DEF TasksOwned, TaskOwned
<1> QED BY <1>1, <1>2, <1>3, <1>4 DEF TasksOwned

\* The master signal by itself changes nothing but stop.
LEMMA InvStop == Inv /\ Stop => Inv'
<1> SUFFICES ASSUME Inv, Stop PROVE Inv'
  OBVIOUS
<1>1. TypeOK'
  BY DEF Inv, Stop, TypeOK, cvars, HM!TypeOK, HM!Capacity
<1> QED BY <1>1, QuietStep
        DEF Inv, Stop, cvars, TasksOwned, OneOpenGeneration, HealthGate

\* An endpoint without a health check is healthy at once.
LEMMA InvNoHealthCheck == Inv /\ NoHealthCheck => Inv'
<1> SUFFICES ASSUME Inv, NoHealthCheck PROVE Inv'
  OBVIOUS
<1>1. TypeOK'
  BY DEF Inv, NoHealthCheck, TypeOK, Sup, cvars, HM!TypeOK, HM!Capacity
<1> QED BY <1>1, QuietStep
        DEF Inv, NoHealthCheck, cvars, TasksOwned, OneOpenGeneration, HealthGate

\* The supervisor ends while no generation is open.
LEMMA InvStopWhileUnhealthy == Inv /\ StopWhileUnhealthy => Inv'
<1> SUFFICES ASSUME Inv, StopWhileUnhealthy PROVE Inv'
  OBVIOUS
<1>1. TypeOK'
  BY DEF Inv, StopWhileUnhealthy, TypeOK, Sup, cvars, HM!TypeOK, HM!Capacity
<1> QED BY <1>1, QuietStep
        DEF Inv, StopWhileUnhealthy, cvars, TasksOwned, OneOpenGeneration, HealthGate

\* A report of await_healthy.
LEMMA InvAwaitHealthy == ASSUME NEW r \in BOOLEAN PROVE Inv /\ AwaitHealthy(r) => Inv'
<1> SUFFICES ASSUME Inv, AwaitHealthy(r) PROVE Inv'
  OBVIOUS
<1>0. HM!TypeOK'
  BY ReportTyped DEF Inv, TypeOK, AwaitHealthy
<1>1. TypeOK'
  BY <1>0 DEF Inv, AwaitHealthy, TypeOK, Sup, cvars
<1>2. HealthGate'
  BY DEF Inv, AwaitHealthy, HealthGate
<1> QED BY <1>1, <1>2, QuietStep
        DEF Inv, AwaitHealthy, cvars, TasksOwned, OneOpenGeneration

\* A report of await_unhealthy.
LEMMA InvAwaitUnhealthy == ASSUME NEW r \in BOOLEAN PROVE Inv /\ AwaitUnhealthy(r) => Inv'
<1> SUFFICES ASSUME Inv, AwaitUnhealthy(r) PROVE Inv'
  OBVIOUS
<1>0. HM!TypeOK'
  BY ReportTyped DEF Inv, TypeOK, AwaitUnhealthy
<1>1. TypeOK'
  BY <1>0 DEF Inv, AwaitUnhealthy, TypeOK, Sup, cvars
<1>2. HealthGate'
  BY DEF Inv, AwaitUnhealthy, HealthGate
<1> QED BY <1>1, <1>2, QuietStep
        DEF Inv, AwaitUnhealthy, cvars, TasksOwned, OneOpenGeneration

\* Signalling the open generation: the kill and the break of the loop.
LEMMA SignalStep ==
    ASSUME Inv, sup \in {"await_unhealthy", "killing"},
           signalled' = [signalled EXCEPT ![gen] = TRUE],
           UNCHANGED <<phase, cgen, idle, active, idlesem, maxsem, piped, gen, loop>>
    PROVE  /\ PermitsConserved' /\ CountersExact' /\ StreamsBounded'
           /\ \A c \in Conns : TaskOwned(c)'
           /\ \A g \in Gens : loop'[g] # "none" => g <= gen'
           /\ \A g \in 1..gen' : signalled'[g]
           /\ signalled' \in [Gens -> BOOLEAN]
<1> USE DEF Inv
<1>0. gen \in Gens /\ gen > 0
  BY MaxGenAssumption DEF TasksOwned, TypeOK, Gens
<1>1. PermitsConserved'
  BY DEF PermitsConserved, MaxHolders, IdleHolders, LoopHoldsMax, LoopHoldsIdle
<1>2. CountersExact'
  BY DEF CountersExact, IdleTasks, ActiveTasks
<1>3. StreamsBounded'
  BY DEF StreamsBounded, Committed
<1>4. signalled' \in [Gens -> BOOLEAN] /\ \A g \in Gens : signalled[g] => signalled'[g]
  BY DEF TypeOK
<1>5. \A c \in Conns : TaskOwned(c)'
  BY <1>4 DEF TasksOwned, TaskOwned, TypeOK, NoGen
<1>6. \A g \in 1..gen' : signalled'[g]
  BY <1>0, <1>4, MaxGenAssumption DEF OneOpenGeneration, TypeOK, Gens
<1> QED BY <1>1, <1>2, <1>3, <1>4, <1>5, <1>6 DEF TasksOwned

\* The generation of an endpoint that became unhealthy is signalled.
LEMMA InvKillGeneration == Inv /\ KillGeneration => Inv'
<1> SUFFICES ASSUME Inv, KillGeneration PROVE Inv'
  OBVIOUS
<1>1. /\ PermitsConserved' /\ CountersExact' /\ StreamsBounded'
      /\ \A c \in Conns : TaskOwned(c)'
      /\ \A g \in Gens : loop'[g] # "none" => g <= gen'
      /\ \A g \in 1..gen' : signalled'[g]
      /\ signalled' \in [Gens -> BOOLEAN]
  BY SignalStep DEF KillGeneration
<1>2. TypeOK'
  BY <1>1 DEF Inv, KillGeneration, TypeOK, Sup, HM!TypeOK, HM!Capacity
<1> QED BY <1>1, <1>2
        DEF Inv, KillGeneration, TasksOwned, OneOpenGeneration, HealthGate

\* The break drops the sender of the open generation.
LEMMA InvStopWhileHealthy == Inv /\ StopWhileHealthy => Inv'
<1> SUFFICES ASSUME Inv, StopWhileHealthy PROVE Inv'
  OBVIOUS
<1>1. /\ PermitsConserved' /\ CountersExact' /\ StreamsBounded'
      /\ \A c \in Conns : TaskOwned(c)'
      /\ \A g \in Gens : loop'[g] # "none" => g <= gen'
      /\ \A g \in 1..gen' : signalled'[g]
      /\ signalled' \in [Gens -> BOOLEAN]
  BY SignalStep DEF StopWhileHealthy
<1>2. TypeOK'
  BY <1>1 DEF Inv, StopWhileHealthy, TypeOK, Sup, HM!TypeOK, HM!Capacity
<1> QED BY <1>1, <1>2
        DEF Inv, StopWhileHealthy, TasksOwned, OneOpenGeneration, HealthGate

\* A new generation starts with full semaphores and no task.
LEMMA InvStartGeneration == Inv /\ StartGeneration => Inv'
<1> SUFFICES ASSUME Inv, StartGeneration PROVE Inv'
  OBVIOUS
<1> USE DEF Inv
<1>0. /\ gen' = gen + 1 /\ gen' \in Gens /\ gen \in Nat /\ gen' \in 0..MaxGen
      /\ UNCHANGED <<phase, cgen, idle, active, piped, stop, checked, healthy, recent>>
      /\ sup' = "await_unhealthy"
  BY MaxGenAssumption DEF StartGeneration, TypeOK, Gens
<1>1. IdleConns \in Nat /\ MaxConns \in Nat
  BY EndpointAssumption DEF IdleConns
<1>2. /\ idlesem' \in [Gens -> Nat] /\ maxsem' \in [Gens -> Nat]
      /\ signalled' \in [Gens -> BOOLEAN] /\ loop' \in [Gens -> Loop]
      /\ \A g \in Gens \ {gen'} : /\ idlesem'[g] = idlesem[g] /\ maxsem'[g] = maxsem[g]
                                  /\ signalled'[g] = signalled[g] /\ loop'[g] = loop[g]
      /\ idlesem'[gen'] = IdleConns /\ maxsem'[gen'] = MaxConns /\ loop'[gen'] = "max"
  BY <1>0, <1>1 DEF StartGeneration, TypeOK, Loop
<1>3. TypeOK'
  BY <1>0, <1>2 DEF TypeOK, Sup, HM!TypeOK, HM!Capacity
<1>4. \A c \in Conns : cgen[c] # gen'
  BY <1>0 DEF TasksOwned, TaskOwned, TypeOK, Gens, NoGen
<1>5. \A c \in Conns : TaskOwned(c)'
  <2> SUFFICES ASSUME NEW c \in Conns PROVE TaskOwned(c)'
    OBVIOUS
  <2>1. TaskOwned(c) /\ cgen[c] \in Gens \cup {NoGen} /\ cgen[c] # gen'
    BY <1>4 DEF TasksOwned, TypeOK
  <2>2. cgen[c] <= gen'
    BY <1>0, <2>1, MaxGenAssumption DEF TaskOwned, Gens, NoGen
  <2>3. cgen[c] \in Gens => signalled'[cgen[c]] = signalled[cgen[c]]
    BY <1>2, <2>1
  <2>4. phase[c] # "free" => cgen[c] \in Gens
    BY <2>1 DEF TaskOwned
  <2> QED BY <1>0, <2>1, <2>2, <2>3, <2>4 DEF TaskOwned
<1>6. TasksOwned'
  <2>1. \A g \in Gens : loop'[g] # "none" => g <= gen'
    BY <1>0, <1>2 DEF TasksOwned, Gens
  <2> QED BY <1>0, <1>5, <2>1 DEF TasksOwned
<1>7. CountersExact' /\ StreamsBounded'
  BY <1>0 DEF CountersExact, IdleTasks, ActiveTasks, StreamsBounded, Committed
<1>8. PermitsConserved'
  <2> SUFFICES ASSUME NEW g \in 1..gen'
               PROVE /\ maxsem'[g] + Cardinality(MaxHolders(g)') + LoopHoldsMax(g)' = MaxConns
                     /\ idlesem'[g] + Cardinality(IdleHolders(g)') + LoopHoldsIdle(g)'
                          = IdleConns
    BY DEF PermitsConserved
  <2>1. CASE g = gen'
    <3>1. MaxHolders(g)' = {} /\ IdleHolders(g)' = {}
      BY <1>0, <1>4, <2>1 DEF MaxHolders, IdleHolders
    <3>2. LoopHoldsMax(g)' = 0 /\ LoopHoldsIdle(g)' = 0
      BY <1>2, <2>1 DEF LoopHoldsMax, LoopHoldsIdle
    <3> QED BY <1>1, <1>2, <2>1, <3>1, <3>2, FS_EmptySet
  <2>2. CASE g # gen'
    <3>1. g \in 1..gen /\ g \in Gens \ {gen'}
      BY <1>0, <2>2, MaxGenAssumption DEF Gens
    <3>2. MaxHolders(g)' = MaxHolders(g) /\ IdleHolders(g)' = IdleHolders(g)
      BY <1>0 DEF MaxHolders, IdleHolders
    <3>3. LoopHoldsMax(g)' = LoopHoldsMax(g) /\ LoopHoldsIdle(g)' = LoopHoldsIdle(g)
      BY <1>2, <3>1 DEF LoopHoldsMax, LoopHoldsIdle
    <3> QED BY <1>2, <3>1, <3>2, <3>3 DEF PermitsConserved
  <2> QED BY <2>1, <2>2
<1>9. OneOpenGeneration'
  <2> SUFFICES ASSUME NEW g \in 1..gen', ~signalled'[g] PROVE g = gen'
    BY <1>0 DEF OneOpenGeneration
  <2>1. ASSUME g # gen' PROVE FALSE
    <3>1. g \in 1..gen /\ g \in Gens \ {gen'}
      BY <1>0, <2>1, MaxGenAssumption DEF Gens
    <3>2. ~signalled[g]
      BY <1>2, <3>1
    <3> QED BY <3>1, <3>2 DEF OneOpenGeneration, StartGeneration
  <2> QED BY <2>1
<1>10. HealthGate'
  BY <1>0 DEF HealthGate, StartGeneration
<1> QED BY <1>3, <1>6, <1>7, <1>8, <1>9, <1>10

-----------------------------------------------------------------------------
(* The accept loop.                                                        *)

\* Steps of an accept loop touch neither streams, signals nor the verdict.
LEMMA LoopFrame ==
    ASSUME Inv, NEW g \in Gens,
           UNCHANGED <<idle, active, signalled, piped, sup, stop, gen, checked, healthy, recent>>,
           TypeOK', \A c \in Conns : TaskOwned(c)',
           \A k \in Gens \ {g} : loop'[k] = loop[k],
           loop[g] # "none"
    PROVE  TasksOwned' /\ OneOpenGeneration' /\ HealthGate'
<1>1. \A k \in Gens : loop'[k] # "none" => k <= gen'
  BY DEF Inv, TasksOwned
<1> QED BY <1>1 DEF Inv, TasksOwned, OneOpenGeneration, HealthGate

\* An accept loop exchanges permits with its semaphores.
LEMMA LoopExchange ==
    ASSUME Inv, NEW g \in Gens, loop[g] # "none",
           UNCHANGED <<phase, cgen, idle, active, signalled, piped,
                       sup, stop, gen, checked, healthy, recent>>,
           loop' \in [Gens -> Loop],
           idlesem' \in [Gens -> Nat], maxsem' \in [Gens -> Nat],
           \A k \in Gens \ {g} : /\ loop'[k] = loop[k]
                                 /\ maxsem'[k] = maxsem[k] /\ idlesem'[k] = idlesem[k],
           maxsem'[g] + LoopHoldsMax(g)' = maxsem[g] + LoopHoldsMax(g),
           idlesem'[g] + LoopHoldsIdle(g)' = idlesem[g] + LoopHoldsIdle(g)
    PROVE  Inv'
<1> USE DEF Inv
<1>1. TypeOK'
  BY DEF TypeOK, HM!TypeOK, HM!Capacity
<1>2. \A c \in Conns : TaskOwned(c)'
  BY DEF TasksOwned, TaskOwned
<1>3. TasksOwned' /\ OneOpenGeneration' /\ HealthGate'
  BY <1>1, <1>2, LoopFrame
<1>4. CountersExact' /\ StreamsBounded'
  BY DEF CountersExact, IdleTasks, ActiveTasks, StreamsBounded, Committed
<1>5. PermitsConserved'
  <2> SUFFICES ASSUME NEW k \in 1..gen
               PROVE /\ maxsem'[k] + Cardinality(MaxHolders(k)') + LoopHoldsMax(k)' = MaxConns
                     /\ idlesem'[k] + Cardinality(IdleHolders(k)') + LoopHoldsIdle(k)'
                          = IdleConns
    BY DEF PermitsConserved
  <2>1. k \in Gens
    BY MaxGenAssumption DEF TypeOK, Gens
  <2>2. MaxHolders(k)' = MaxHolders(k) /\ IdleHolders(k)' = IdleHolders(k)
    BY DEF MaxHolders, IdleHolders
  <2>3. /\ maxsem[k] + Cardinality(MaxHolders(k)) + LoopHoldsMax(k) = MaxConns
        /\ idlesem[k] + Cardinality(IdleHolders(k)) + LoopHoldsIdle(k) = IdleConns
    BY DEF PermitsConserved
  <2>4. /\ Cardinality(MaxHolders(k)) \in Nat /\ Cardinality(IdleHolders(k)) \in Nat
        /\ maxsem[k] \in Nat /\ idlesem[k] \in Nat
        /\ maxsem'[k] \in Nat /\ idlesem'[k] \in Nat
    BY <2>1, CountTypes DEF TypeOK
  <2>5. LoopHoldsMax(k) \in Nat /\ LoopHoldsIdle(k) \in Nat
        /\ LoopHoldsMax(k)' \in Nat /\ LoopHoldsIdle(k)' \in Nat
    BY DEF LoopHoldsMax, LoopHoldsIdle
  <2>6. CASE k = g
    BY <2>2, <2>3, <2>4, <2>5, <2>6
  <2>7. CASE k # g
    <3>1. LoopHoldsMax(k)' = LoopHoldsMax(k) /\ LoopHoldsIdle(k)' = LoopHoldsIdle(k)
      BY <2>1, <2>7 DEF LoopHoldsMax, LoopHoldsIdle
    <3> QED BY <2>1, <2>2, <2>3, <2>7, <3>1
  <2> QED BY <2>6, <2>7
<1> QED BY <1>1, <1>3, <1>4, <1>5

\* The accept loop acquires a permit, or is dropped with what it holds.
LEMMA InvLoopPermits ==
    ASSUME NEW g \in Gens, Inv,
           \/ AcquireMax(g) \/ AcquireIdle(g)
           \/ LeaveLoop(g, "stopped") \/ LeaveLoop(g, "panicked")
    PROVE  Inv'
<1>0. /\ loop \in [Gens -> Loop] /\ idlesem \in [Gens -> Nat] /\ maxsem \in [Gens -> Nat]
  BY DEF Inv, TypeOK
<1> USE DEF LoopHoldsMax, LoopHoldsIdle, Loop
<1>1. CASE AcquireMax(g)
  BY <1>0, <1>1, LoopExchange DEF AcquireMax
<1>2. CASE AcquireIdle(g)
  BY <1>0, <1>2, LoopExchange DEF AcquireIdle
<1>3. CASE LeaveLoop(g, "stopped")
  BY <1>0, <1>3, LoopExchange DEF LeaveLoop
<1>4. CASE LeaveLoop(g, "panicked")
  BY <1>0, <1>4, LoopExchange DEF LeaveLoop
<1> QED BY <1>1, <1>2, <1>3, <1>4

\* A spawned task takes over the two permits of its accept loop.
LEMMA InvSpawn ==
    ASSUME NEW g \in Gens, NEW c \in Conns, Inv, Spawn(g, c)
    PROVE  Inv'
<1> USE DEF Inv
<1>0. /\ phase' = [phase EXCEPT ![c] = "spawned"] /\ cgen' = [cgen EXCEPT ![c] = g]
      /\ loop' = [loop EXCEPT ![g] = "max"] /\ loop[g] = "args" /\ phase[c] = "free"
      /\ UNCHANGED <<idle, active, idlesem, maxsem, signalled, piped,
                     sup, stop, gen, checked, healthy, recent>>
  BY DEF Spawn
<1>a. /\ phase \in [Conns -> Phases] /\ cgen \in [Conns -> Gens \cup {NoGen}]
      /\ loop \in [Gens -> Loop] /\ gen \in 0..MaxGen /\ piped \subseteq Conns
      /\ g <= gen /\ cgen[c] = NoGen /\ NoGen \notin Gens /\ c \notin piped
  BY <1>0 DEF TypeOK, TasksOwned, TaskOwned, NoGen, Gens
<1>1. /\ phase' \in [Conns -> Phases] /\ cgen' \in [Conns -> Gens \cup {NoGen}]
      /\ loop' \in [Gens -> Loop]
  BY <1>0, <1>a DEF Phases, IdlePermitPhases, Loop
<1>2. TypeOK'
  BY <1>0, <1>1 DEF TypeOK, HM!TypeOK, HM!Capacity
<1>3. \A d \in Conns : TaskOwned(d)'
  <2>1. TaskOwned(c)'
    BY <1>0, <1>a DEF TaskOwned
  <2>2. ASSUME NEW d \in Conns \ {c} PROVE TaskOwned(d)'
    BY <1>0, <1>a DEF TasksOwned, TaskOwned
  <2> QED BY <2>1, <2>2
<1>4. TasksOwned' /\ OneOpenGeneration' /\ HealthGate'
  <2>1. \A k \in Gens \ {g} : loop'[k] = loop[k]
    BY <1>0, <1>a
  <2> QED BY <1>0, <1>2, <1>3, <2>1, LoopFrame
<1>5. StreamsBounded'
  <2>1. \A k \in Gens : Committed(k)' = Committed(k)
    BY <1>0, <1>a DEF Committed, CommitPhases
  <2> QED BY <2>1 DEF StreamsBounded
<1>b. PICK q : q = "spawned"
  OBVIOUS
<1>6. /\ Cardinality(IdleTasks') =
           Cardinality(IdleTasks) + One(q \in IdlePhases)
                                  - One(phase[c] \in IdlePhases)
      /\ Cardinality(ActiveTasks') =
           Cardinality(ActiveTasks) + One(q \in ActivePhases)
                                    - One(phase[c] \in ActivePhases)
      /\ \A k \in Gens :
           /\ Cardinality(MaxHolders(k)') =
                Cardinality(MaxHolders(k)) + One(g = k /\ q # "aborted")
                   - One(cgen[c] = k /\ phase[c] # "aborted")
           /\ Cardinality(IdleHolders(k)') =
                Cardinality(IdleHolders(k))
                   + One(g = k /\ q \in IdlePermitPhases)
                   - One(cgen[c] = k /\ phase[c] \in IdlePermitPhases)
  <2>1. TypeOK /\ phase' = [phase EXCEPT ![c] = q] /\ cgen' = [cgen EXCEPT ![c] = g]
    BY <1>0, <1>b
  <2> HIDE DEF Inv
  <2> QED BY <2>1, MoveCounts
<1>7. CountersExact'
  BY <1>0, <1>b, <1>6, CountTypes
     DEF CountersExact, One, IdlePhases, ActivePhases
<1>8. PermitsConserved'
  <2> SUFFICES ASSUME NEW k \in 1..gen
               PROVE /\ maxsem'[k] + Cardinality(MaxHolders(k)') + LoopHoldsMax(k)' = MaxConns
                     /\ idlesem'[k] + Cardinality(IdleHolders(k)') + LoopHoldsIdle(k)'
                          = IdleConns
    BY <1>0 DEF PermitsConserved
  <2>1. k \in Gens /\ cgen[c] # k
    BY <1>a, MaxGenAssumption DEF Gens, NoGen
  <2>2. /\ maxsem[k] + Cardinality(MaxHolders(k)) + LoopHoldsMax(k) = MaxConns
        /\ idlesem[k] + Cardinality(IdleHolders(k)) + LoopHoldsIdle(k) = IdleConns
    BY DEF PermitsConserved
  <2>3. /\ Cardinality(MaxHolders(k)) \in Nat /\ Cardinality(IdleHolders(k)) \in Nat
        /\ maxsem[k] \in Nat /\ idlesem[k] \in Nat
    BY <2>1, CountTypes DEF TypeOK
  <2>4. /\ Cardinality(MaxHolders(k)') = Cardinality(MaxHolders(k)) + One(g = k)
        /\ Cardinality(IdleHolders(k)') = Cardinality(IdleHolders(k)) + One(g = k)
    BY <1>b, <1>6, <2>1, <2>3 DEF One, IdlePermitPhases
  <2>5. /\ LoopHoldsMax(k) = LoopHoldsMax(k)' + One(g = k)
        /\ LoopHoldsIdle(k) = LoopHoldsIdle(k)' + One(g = k)
        /\ LoopHoldsMax(k)' \in Nat /\ LoopHoldsIdle(k)' \in Nat
    BY <1>0, <1>a, <2>1 DEF LoopHoldsMax, LoopHoldsIdle, One
  <2>6. One(g = k) \in Nat
    BY DEF One
  <2> QED BY <1>0, <2>2, <2>3, <2>4, <2>5, <2>6
<1> QED BY <1>2, <1>4, <1>5, <1>7, <1>8

-----------------------------------------------------------------------------
(* The theorems.                                                           *)

\* The inductive invariant holds initially.
LEMMA InvInit == Init => Inv
<1> SUFFICES ASSUME Init PROVE Inv
  OBVIOUS
<1> USE DEF Init, HM!Init
<1>1. HM!TypeOK
  <2>1. HM!Capacity \in Nat
    BY EndpointAssumption DEF HM!Capacity
  <2>2. healthy = FALSE /\ recent = <<>>
    OBVIOUS
  <2>3. recent \in Seq(BOOLEAN) /\ Len(recent) = 0
    BY <2>2
  <2>4. healthy \in BOOLEAN
    BY <2>2
  <2>5. Len(recent) <= HM!Capacity
    BY <2>1, <2>3
  <2> QED BY <2>3, <2>4, <2>5 DEF HM!TypeOK
<1>2. TypeOK
  <2>1. phase \in [Conns -> Phases] /\ cgen \in [Conns -> Gens \cup {NoGen}]
    BY DEF Phases
  <2>2. /\ idlesem \in [Gens -> Nat] /\ maxsem \in [Gens -> Nat]
        /\ idle \in Int /\ active \in Int /\ gen \in 0..MaxGen
    BY MaxGenAssumption
  <2>3. signalled \in [Gens -> BOOLEAN] /\ stop \in BOOLEAN
    OBVIOUS
  <2>4. sup \in Sup /\ loop \in [Gens -> Loop] /\ piped \subseteq Conns
    BY DEF Sup, Loop
  <2> QED BY <1>1, <2>1, <2>2, <2>3, <2>4 DEF TypeOK
<1>3. TasksOwned
  BY DEF TasksOwned, TaskOwned, NoGen
<1>4. CountersExact
  <2>1. IdleTasks = {} /\ ActiveTasks = {}
    BY DEF IdleTasks, ActiveTasks, IdlePhases, ActivePhases
  <2> QED BY <2>1, FS_EmptySet DEF CountersExact
<1>5. StreamsBounded
  <2>1. \A g \in Gens : Committed(g) = {}
    BY DEF Committed, CommitPhases
  <2>2. Cardinality({}) <= MaxConns
    BY FS_EmptySet, EndpointAssumption
  <2> QED BY <2>1, <2>2 DEF StreamsBounded
<1>6. PermitsConserved /\ OneOpenGeneration
  BY DEF PermitsConserved, OneOpenGeneration
<1>7. HealthGate
  BY DEF HealthGate
<1> QED BY <1>2, <1>3, <1>4, <1>5, <1>6, <1>7 DEF Inv

\* Every step of the endpoint preserves the inductive invariant.
LEMMA InvNext == Inv /\ [Next]_vars => Inv'
<1> SUFFICES ASSUME Inv, [Next]_vars PROVE Inv'
  OBVIOUS
<1>1. CASE Stop
  BY <1>1, InvStop
<1>2. CASE SupNext
  BY <1>2, InvNoHealthCheck, InvStartGeneration, InvKillGeneration,
     InvStopWhileUnhealthy, InvStopWhileHealthy, InvAwaitHealthy, InvAwaitUnhealthy
     DEF SupNext
<1>3. ASSUME NEW g \in Gens, LoopNext(g) PROVE Inv'
  BY <1>3, InvLoopPermits, InvSpawn DEF LoopNext, DnsPanic, LoopStop
<1>4. ASSUME NEW c \in Conns, ConnNext(c), UNCHANGED svars PROVE Inv'
  <2>1. TypeOK' /\ TasksOwned'
    BY <1>4, ConnOwned DEF Inv
  <2>2. PermitsConserved' /\ CountersExact'
    BY <1>4, ConnCounts DEF Inv
  <2>3. StreamsBounded'
    BY <1>4, ConnStreamsBounded DEF Inv
  <2>4. signalled' = signalled
    BY <1>4, ConnAccounting DEF Inv, Accounted
  <2>5. OneOpenGeneration' /\ HealthGate'
    BY <1>4, <2>4 DEF Inv, svars, OneOpenGeneration, HealthGate
  <2> QED BY <2>1, <2>2, <2>3, <2>5 DEF Inv
<1>5. CASE UNCHANGED vars
  <2>1. UNCHANGED <<cvars, gen, loop>> /\ UNCHANGED svars
    BY <1>5 DEF vars, svars
  <2>2. TypeOK'
    BY <2>1 DEF Inv, TypeOK, cvars, svars, HM!TypeOK, HM!Capacity
  <2> QED BY <2>1, <2>2, QuietStep
          DEF Inv, cvars, svars, TasksOwned, OneOpenGeneration, HealthGate
<1> QED BY <1>1, <1>2, <1>3, <1>4, <1>5 DEF Next

\* The inductive invariant holds in every reachable state.
THEOREM Invariant == Spec => []Inv
BY InvInit, InvNext, PTL DEF Spec

\* Type correctness of the endpoint.
THEOREM TypeCorrect == Spec => []TypeOK
<1>1. Inv => TypeOK
  BY DEF Inv
<1> QED BY <1>1, Invariant, PTL

\* No path of run_connection, of the accept loop or of their cancellation
\* leaks a permit or returns one twice.
THEOREM PermitsTheorem == Spec => []PermitsConserved
<1>1. Inv => PermitsConserved
  BY DEF Inv
<1> QED BY <1>1, Invariant, PTL

\* The idle and active counts that `ebbflow status` shows are exact.
THEOREM CountersTheorem == Spec => []CountersExact
<1>1. Inv => CountersExact
  BY DEF Inv
<1> QED BY <1>1, Invariant, PTL

\* A generation never carries more than maxconns connections, in spite of
\* detached proxies and of stops that race with traffic.
THEOREM StreamsTheorem == Spec => []StreamsBounded
<1>1. Inv => StreamsBounded
  BY DEF Inv
<1> QED BY <1>1, Invariant, PTL

\* No two generations are open, and none outlives the supervisor's wait.
THEOREM GenerationsTheorem == Spec => []OneOpenGeneration
<1>1. Inv => OneOpenGeneration
  BY DEF Inv
<1> QED BY <1>1, Invariant, PTL

\* The supervisor and the health verdict agree.
THEOREM HealthGateTheorem == Spec => []HealthGate
<1>1. Inv => HealthGate
  BY DEF Inv
<1> QED BY <1>1, Invariant, PTL

\* Every task, stream and accept loop belongs to a generation, and a stream
\* outlives the permit of its task only after the signal.
THEOREM OwnershipTheorem == Spec => []TasksOwned
<1>1. Inv => TasksOwned
  BY DEF Inv
<1> QED BY <1>1, Invariant, PTL

-----------------------------------------------------------------------------
(* An endpoint implements Pool.                                            *)

\* A task keeps its generation until it is gone.
LEMMA GenerationKept ==
    ASSUME TypeOK, NEW c \in Conns, ConnNext(c)
    PROVE  cgen'[c] \in {cgen[c], NoGen}
<1>0. cgen \in [Conns -> Gens \cup {NoGen}]
  BY DEF TypeOK
<1>1. CASE DropMax(c)
  BY <1>0, <1>1 DEF DropMax
<1>2. CASE PipeCloses(c)
  BY <1>0, <1>2 DEF PipeCloses
<1>3. CASE ~DropMax(c) /\ ~PipeCloses(c)
  <2>1. cgen' = cgen
    BY <1>3 DEF ConnNext, Timed, Peers, Begin, Connected, HelloAccepted, HelloRejected,
         EstablishFails, IdleTimeout, PollReceiver, TrafficStart, BadDelay, MinDelay, Return,
         DropIdlePermit, LocalConnected, LocalFails, LocalDelay, Drain, KillActive,
         ProxyEnds, Unidle
  <2> QED BY <2>1
<1> QED BY <1>1, <1>2, <1>3

\* Steps after which generations and streams are what they were.
LEMMA PoolStutter ==
    ASSUME UNCHANGED <<gen, signalled>>, \A g \in Gens : Committed(g)' = Committed(g)
    PROVE  UNCHANGED CP!vars
BY DEF CP!vars, Closed, Serving

\* A step of a task admits it, lets it leave, or is none of the pool's.
LEMMA ConnPool ==
    ASSUME Inv, Inv', NEW c \in Conns, ConnNext(c), UNCHANGED svars
    PROVE  CP!Next \/ UNCHANGED CP!vars
<1>1. gen' = gen
  BY DEF svars
<1>2. PICK q, h : Accounted(c, q, h)
  BY ConnAccounting DEF Inv
<1>3. signalled' = signalled /\ \A d \in Conns \ {c} : phase'[d] = phase[d] /\ cgen'[d] = cgen[d]
  BY <1>2 DEF Accounted, Inv, TypeOK
<1>4. \A d \in Conns \ {c} : d \in piped' <=> d \in piped
  BY <1>1, ConnStreams DEF Inv
<1>5. \A g \in Gens, d \in Conns \ {c} : d \in Committed(g)' <=> d \in Committed(g)
  BY <1>3, <1>4 DEF Committed
<1>6. cgen'[c] \in {cgen[c], NoGen} /\ NoGen \notin Gens
  BY GenerationKept DEF Inv, NoGen, Gens
<1>7. UNCHANGED <<gen, Closed>>
  BY <1>1, <1>3 DEF Closed
<1>8. CASE \A g \in Gens : c \in Committed(g)' <=> c \in Committed(g)
  <2>1. \A g \in Gens : Committed(g)' = Committed(g)
    BY <1>5, <1>8 DEF Committed
  <2> QED BY <1>1, <1>3, <2>1, PoolStutter
<1>9. ASSUME NEW g \in Gens, c \in Committed(g), c \notin Committed(g)'
      PROVE  CP!Next
  <2>1. cgen[c] = g
    BY <1>9 DEF Committed
  <2>2. \A k \in Gens \ {g} : c \notin Committed(k) /\ c \notin Committed(k)'
    BY <1>6, <2>1 DEF Committed
  <2>3. /\ \A k \in Gens \ {g} : Committed(k)' = Committed(k)
        /\ Committed(g)' = Committed(g) \ {c}
    BY <1>5, <1>9, <2>2 DEF Committed
  <2>4. c \in Serving[g] /\ Serving' = [Serving EXCEPT ![g] = @ \ {c}]
    BY <1>9, <2>3 DEF Serving
  <2>5. CP!Leave(g, c)
    BY <1>7, <2>4 DEF CP!Leave
  <2> QED BY <2>5 DEF CP!Next
<1>10. ASSUME NEW g \in Gens, c \notin Committed(g), c \in Committed(g)'
       PROVE  CP!Next
  <2>1. cgen[c] = g
    BY <1>6, <1>10 DEF Committed
  <2>2. \A k \in Gens : c \notin Committed(k)
    BY <1>10, <2>1 DEF Committed
  <2>3. \A k \in Gens \ {g} : c \notin Committed(k)'
    BY <1>6, <2>1 DEF Committed
  <2>4. /\ \A k \in Gens \ {g} : Committed(k)' = Committed(k)
        /\ Committed(g)' = Committed(g) \cup {c}
    BY <1>5, <1>10, <2>2, <2>3 DEF Committed
  <2>5. Serving' = [Serving EXCEPT ![g] = @ \cup {c}] /\ Serving[g] = Committed(g)
    BY <2>4 DEF Serving
  <2>6. ~signalled[g]
    BY <1>10, SignalledOnlyShrinks DEF Inv
  <2>7. g \in 1..gen /\ g \notin Closed
    BY <2>1, <2>6 DEF Inv, TasksOwned, TaskOwned, Closed, Gens, TypeOK
  <2>8. Cardinality(Serving[g] \cup {c}) <= MaxConns
    BY <2>4, <2>5 DEF Inv, StreamsBounded
  <2>9. \A k \in Gens : c \notin Serving[k]
    BY <2>2 DEF Serving
  <2>10. CP!Cardinality(Serving[g] \cup {c}) = Cardinality(Serving[g] \cup {c})
    BY DEF CP!Cardinality, Cardinality
  <2>11. CP!Admit(g, c)
    BY <1>7, <2>5, <2>7, <2>8, <2>9, <2>10 DEF CP!Admit
  <2> QED BY <2>11 DEF CP!Next
<1> QED BY <1>8, <1>9, <1>10

\* A step of the supervisor opens or closes a generation or is none of the
\* pool's.
LEMMA SupPool ==
    ASSUME Inv, SupNext
    PROVE  CP!Next \/ UNCHANGED CP!vars
<1>0. gen \in 0..MaxGen /\ signalled \in [Gens -> BOOLEAN] /\ MaxGen \in Nat
  BY MaxGenAssumption DEF Inv, TypeOK
<1>1. CASE StartGeneration
  <2>1. gen + 1 \in Gens /\ gen' = gen + 1 /\ UNCHANGED <<phase, cgen, piped>>
    BY <1>0, <1>1 DEF StartGeneration, Gens
  <2>2. 1..gen \subseteq Closed
    BY <1>0, <1>1 DEF StartGeneration, Inv, OneOpenGeneration, Closed
  <2>3. Closed' = Closed
    BY <1>0, <1>1, <2>1 DEF StartGeneration, Closed, Gens
  <2>4. Serving' = Serving
    BY <2>1 DEF Serving, Committed
  <2>5. CP!Open
    BY <2>1, <2>2, <2>3, <2>4 DEF CP!Open
  <2> QED BY <2>5 DEF CP!Next
<1>2. CASE KillGeneration \/ StopWhileHealthy
  <2>1. gen \in 1..gen /\ gen \in Gens
    BY <1>0, <1>2 DEF KillGeneration, StopWhileHealthy, Inv, TasksOwned, Gens
  <2>2. /\ UNCHANGED <<phase, cgen, piped, gen>>
        /\ signalled' = [signalled EXCEPT ![gen] = TRUE]
    BY <1>2 DEF KillGeneration, StopWhileHealthy
  <2>3. Closed' = Closed \cup {gen}
    BY <1>0, <2>1, <2>2 DEF Closed, Gens
  <2>4. Serving' = Serving
    BY <2>2 DEF Serving, Committed
  <2>5. CP!Close(gen)
    BY <2>1, <2>2, <2>3, <2>4 DEF CP!Close
  <2> QED BY <2>1, <2>5 DEF CP!Next
<1>3. CASE \/ NoHealthCheck \/ StopWhileUnhealthy
           \/ \E r \in BOOLEAN : AwaitHealthy(r) \/ AwaitUnhealthy(r)
  <2>1. UNCHANGED <<gen, signalled, phase, cgen, piped>>
    BY <1>3 DEF NoHealthCheck, StopWhileUnhealthy, AwaitHealthy, AwaitUnhealthy, cvars
  <2> QED BY <2>1, PoolStutter DEF Committed
<1> QED BY <1>1, <1>2, <1>3 DEF SupNext

\* For any tasks, limits, thresholds and number of generations an endpoint
\* implements the pool of connections.
THEOREM PoolRefinement == Spec => ImplementsPool
<1>1. Init => CP!Init
  <2> SUFFICES ASSUME Init PROVE CP!Init
    OBVIOUS
  <2>1. gen = 0 /\ Closed = {}
    BY DEF Init, Closed
  <2>2. Serving = [g \in Gens |-> {}]
    BY DEF Init, Serving, Committed, NoGen, Gens
  <2> QED BY <2>1, <2>2 DEF CP!Init
<1>2. Inv /\ Inv' /\ [Next]_vars => [CP!Next]_(CP!vars)
  <2> SUFFICES ASSUME Inv, Inv', [Next]_vars PROVE CP!Next \/ UNCHANGED CP!vars
    OBVIOUS
  <2>1. CASE Stop \/ UNCHANGED vars
    <3>1. UNCHANGED <<gen, signalled, phase, cgen, piped>>
      BY <2>1 DEF Stop, vars, cvars, svars
    <3> QED BY <3>1, PoolStutter DEF Committed
  <2>2. CASE SupNext
    BY <2>2, SupPool
  <2>3. ASSUME NEW g \in Gens, LoopNext(g) PROVE UNCHANGED CP!vars
    <3>1. CASE \E c \in Conns : Spawn(g, c)
      <4>1. PICK c \in Conns : Spawn(g, c)
        BY <3>1
      <4>2. UNCHANGED <<gen, signalled, piped>>
        BY <4>1 DEF Spawn
      <4>3. /\ phase' = [phase EXCEPT ![c] = "spawned"] /\ cgen' = [cgen EXCEPT ![c] = g]
            /\ phase[c] = "free" /\ phase \in [Conns -> Phases]
            /\ cgen \in [Conns -> Gens \cup {NoGen}] /\ c \notin piped
        BY <4>1 DEF Spawn, Inv, TypeOK, TasksOwned, TaskOwned
      <4>4. \A k \in Gens : Committed(k)' = Committed(k)
        BY <4>2, <4>3 DEF Committed, CommitPhases
      <4> QED BY <4>2, <4>4, PoolStutter
    <3>2. CASE ~\E c \in Conns : Spawn(g, c)
      <4>1. UNCHANGED <<gen, signalled, phase, cgen, piped>>
        BY <2>3, <3>2 DEF LoopNext, AcquireMax, AcquireIdle, DnsPanic, LoopStop, LeaveLoop
      <4> QED BY <4>1, PoolStutter DEF Committed
    <3> QED BY <3>1, <3>2
  <2>4. ASSUME NEW c \in Conns, ConnNext(c), UNCHANGED svars
        PROVE  CP!Next \/ UNCHANGED CP!vars
    BY <2>4, ConnPool
  <2> QED BY <2>1, <2>2, <2>3, <2>4 DEF Next
<1> QED BY <1>1, <1>2, Invariant, PTL DEF Spec, ImplementsPool, CP!Spec
=============================================================================
