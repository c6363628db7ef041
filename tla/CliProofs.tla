------------------------------ MODULE CliProofs ------------------------------
(***************************************************************************)
(* For any number of shells, commands, names and configurations: the file  *)
(* never lists a name twice, every command takes effect as a whole on what *)
(* it has read, and its exit code tells the truth.                         *)
(***************************************************************************)
EXTENDS Cli, SequenceTheorems, WellFoundedInduction, TLAPS

-----------------------------------------------------------------------------
(* Induction over the naturals, on sets.                                   *)

\* A set of naturals has a least element.
LEMMA LeastNatural ==
    ASSUME NEW T, T \subseteq Nat, T # {}
    PROVE  \E m \in T : \A k \in T : m <= k
<1> DEFINE R == {ss \in Nat \X Nat : ss[1] < ss[2]}
<1>1. IsWellFoundedOn(R, Nat)
  BY NatLessThanWellFounded DEF OpToRel
<1>2. PICK m \in T : \A k \in T : ~(<<k, m>> \in R)
  <2> HIDE DEF R
  <2> QED BY <1>1, WFMin
<1>3. \A k \in T : ~(k < m)
  BY <1>2
<1> QED BY ONLY <1>2, <1>3, T \subseteq Nat

\* A set that holds 0 and every successor holds every natural.
LEMMA Induction ==
    ASSUME NEW S, 0 \in S, \A n \in Nat : n \in S => n + 1 \in S
    PROVE  \A n \in Nat : n \in S
<1> SUFFICES ASSUME Nat \ S # {} PROVE FALSE
  OBVIOUS
<1>1. PICK m \in Nat \ S : \A k \in Nat \ S : m <= k
  BY LeastNatural
<1>2. m # 0 /\ m - 1 \in Nat
  BY <1>1
<1>3. m - 1 \in S
  BY <1>1, <1>2
<1>4. (m - 1) + 1 = m
  BY <1>1
<1> QED BY ONLY <1>1, <1>2, <1>3, <1>4, \A n \in Nat : n \in S => n + 1 \in S

-----------------------------------------------------------------------------
(* retain.                                                                 *)

\* f is what retain has kept of es after every entry, up to the m-th.
Kept(f, es, d, m) ==
    f = [n \in 0 .. m |-> IF n = 0 THEN <<>> ELSE Keep(f[n - 1], es[n], d)]

\* There is such a function for every list.
LEMMA KeptExists ==
    ASSUME NEW es, NEW d
    PROVE  \A m \in Nat : \E f : Kept(f, es, d, m)
<1> DEFINE S == {m \in Nat : \E f : Kept(f, es, d, m)}
<1>1. 0 \in S
  <2> DEFINE f == [n \in 0 .. 0 |-> <<>>]
  <2>1. \A n \in 0 .. 0 : n = 0
    OBVIOUS
  <2>2. f = [n \in 0 .. 0 |-> IF n = 0 THEN <<>> ELSE Keep(f[n - 1], es[n], d)]
    BY ONLY <2>1
  <2>3. Kept(f, es, d, 0)
    BY ONLY <2>2 DEF Kept
  <2> QED BY <2>3
<1>2. ASSUME NEW m \in Nat, m \in S PROVE m + 1 \in S
  <2>1. PICK f : Kept(f, es, d, m)
    BY <1>2
  <2> DEFINE last == Keep(f[m], es[m + 1], d)
             g == [n \in 0 .. m + 1 |-> IF n <= m THEN f[n] ELSE last]
             h == [n \in 0 .. m + 1 |-> IF n = 0 THEN <<>> ELSE Keep(g[n - 1], es[n], d)]
  <2>2. \A n \in 0 .. m : f[n] = IF n = 0 THEN <<>> ELSE Keep(f[n - 1], es[n], d)
    BY ONLY <2>1, m \in Nat DEF Kept
  <2> HIDE DEF last
  <2>3. \A n \in 0 .. m + 1 : n # 0 => g[n - 1] = f[n - 1]
    BY ONLY m \in Nat
  <2>4. ASSUME NEW n \in 0 .. m + 1 PROVE g[n] = h[n]
    <3>1. CASE n <= m
      <4>1. g[n] = f[n] /\ n \in 0 .. m
        BY <1>2, <2>4, <3>1
      <4>2. h[n] = IF n = 0 THEN <<>> ELSE Keep(f[n - 1], es[n], d)
        BY ONLY <2>3, <2>4
      <4> QED BY ONLY <2>2, <4>1, <4>2
    <3>2. CASE ~(n <= m)
      <4>1. n = m + 1 /\ n # 0 /\ n - 1 = m
        BY <1>2, <2>4, <3>2
      <4>2. g[n] = last
        BY ONLY <2>4, <3>2
      <4>3. h[n] = Keep(f[n - 1], es[n], d)
        BY ONLY <2>3, <2>4, <4>1
      <4> QED BY ONLY <4>1, <4>2, <4>3 DEF last
    <3> QED BY <3>1, <3>2
  <2>5. g = h
    BY ONLY <2>4
  <2>6. Kept(g, es, d, m + 1)
    BY ONLY <2>5 DEF Kept
  <2> QED BY <1>2, <2>6
<1> HIDE DEF S
<1>3. \A m \in Nat : m \in S
  BY <1>1, <1>2, Induction
<1> QED BY <1>3 DEF S

\* Retain computes it.
LEMMA RetainKept ==
    ASSUME NEW S, NEW es \in Seq(S), NEW d
    PROVE  \E f : Kept(f, es, d, Len(es)) /\ Retain(es, d) = f[Len(es)]
<1> DEFINE c == CHOOSE f : Kept(f, es, d, Len(es))
<1>1. \E f : Kept(f, es, d, Len(es))
  <2>1. Len(es) \in Nat
    OBVIOUS
  <2> QED BY ONLY <2>1, KeptExists
<1>2. Kept(c, es, d, Len(es))
  BY <1>1
<1>3. Retain(es, d) = c[Len(es)]
  BY DEF Retain, Kept
<1> QED BY <1>2, <1>3

\* The first n entries that retain keeps are those of another name.
Others(es, d, n) == {es[i] : i \in {j \in 1 .. n : es[j].dns # d}}
Elements(s) == {s[i] : i \in 1 .. Len(s)}

\* One more entry.
LEMMA KeepOne ==
    ASSUME NEW S, NEW es \in Seq(S), NEW d, NEW n \in 1 .. Len(es), NEW s \in Seq(S),
           Elements(s) = Others(es, d, n - 1), Unique(es) => Unique(s)
    PROVE  LET t == Keep(s, es[n], d)
           IN  t \in Seq(S) /\ Elements(t) = Others(es, d, n) /\ (Unique(es) => Unique(t))
<1> DEFINE t == Keep(s, es[n], d)
<1>1. es[n] \in S /\ n \in Nat /\ n - 1 \in Nat /\ Len(es) \in Nat /\ DOMAIN es = 1 .. Len(es)
  BY LenProperties, ElementOfSeq
<1>2. CASE es[n].dns = d
  <2>1. t = s
    BY <1>2 DEF Keep
  <2>2. Others(es, d, n) = Others(es, d, n - 1)
    <3>1. {j \in 1 .. n : es[j].dns # d} = {j \in 1 .. n - 1 : es[j].dns # d}
      BY <1>1, <1>2
    <3> QED BY ONLY <3>1 DEF Others
  <2> QED BY <2>1, <2>2
<1>3. CASE es[n].dns # d
  <2>1. t = Append(s, es[n])
    BY <1>3 DEF Keep
  <2>2. /\ t \in Seq(S) /\ Len(t) = Len(s) + 1 /\ t[Len(s) + 1] = es[n] /\ Len(s) \in Nat
        /\ \A i \in 1 .. Len(s) : t[i] = s[i]
        /\ DOMAIN t = 1 .. Len(s) + 1 /\ DOMAIN s = 1 .. Len(s)
    BY <1>1, <2>1, AppendProperties, LenProperties
  <2> HIDE DEF t
  <2>3. Elements(t) = Elements(s) \cup {es[n]}
    BY ONLY <2>2 DEF Elements
  <2>4. Others(es, d, n) = Others(es, d, n - 1) \cup {es[n]}
    <3>1. {j \in 1 .. n : es[j].dns # d} = {j \in 1 .. n - 1 : es[j].dns # d} \cup {n}
      BY <1>1, <1>3
    <3> QED BY ONLY <3>1 DEF Others
  <2>5. ASSUME Unique(es) PROVE Unique(t)
    <3>1. \A i \in 1 .. Len(s) : \E j \in 1 .. n - 1 : s[i] = es[j]
      BY DEF Elements, Others
    <3>2. \A j \in 1 .. n - 1 : j \in DOMAIN es /\ n \in DOMAIN es /\ j # n
      BY <1>1
    <3>3. \A i \in 1 .. Len(s) : s[i].dns # es[n].dns
      BY ONLY <2>5, <3>1, <3>2 DEF Unique
    <3>4. \A i, j \in 1 .. Len(s) : s[i].dns = s[j].dns => i = j
      BY <2>2, <2>5 DEF Unique
    <3>5. \A i \in 1 .. Len(s) + 1 : i \in 1 .. Len(s) \/ i = Len(s) + 1
      BY <2>2
    <3> QED BY ONLY <2>2, <3>3, <3>4, <3>5 DEF Unique
  <2>6. t \in Seq(S) /\ Elements(t) = Others(es, d, n) /\ (Unique(es) => Unique(t))
    BY <2>2, <2>3, <2>4, <2>5
  <2> QED BY ONLY <2>6 DEF t
<1> QED BY <1>2, <1>3

\* retain keeps exactly the entries of other names, and no name twice.
LEMMA RetainFacts ==
    ASSUME NEW S, NEW es \in Seq(S), NEW d
    PROVE  /\ Retain(es, d) \in Seq(S)
           /\ Elements(Retain(es, d)) = Others(es, d, Len(es))
           /\ Unique(es) => Unique(Retain(es, d))
<1>1. PICK f : Kept(f, es, d, Len(es)) /\ Retain(es, d) = f[Len(es)]
  BY RetainKept
<1>2. Len(es) \in Nat
  OBVIOUS
<1>3. \A n \in 0 .. Len(es) : f[n] = IF n = 0 THEN <<>> ELSE Keep(f[n - 1], es[n], d)
  BY ONLY <1>1, <1>2 DEF Kept
<1> DEFINE Good(s, n) == /\ s \in Seq(S) /\ Elements(s) = Others(es, d, n)
                         /\ Unique(es) => Unique(s)
           G == {n \in Nat : n <= Len(es) => Good(f[n], n)}
<1>4. 0 \in G
  <2>1. f[0] = <<>>
    BY <1>2, <1>3
  <2>2. Good(<<>>, 0)
    BY DEF Elements, Others, Unique
  <2> HIDE DEF Good
  <2> QED BY ONLY <2>1, <2>2
<1>5. ASSUME NEW n \in Nat, n \in G PROVE n + 1 \in G
  <2> SUFFICES ASSUME n + 1 <= Len(es) PROVE Good(f[n + 1], n + 1)
    OBVIOUS
  <2>1. n + 1 \in 1 .. Len(es) /\ n + 1 \in 0 .. Len(es) /\ n + 1 # 0 /\ (n + 1) - 1 = n /\ n <= Len(es)
    BY <1>2
  <2>2. f[n + 1] = Keep(f[n], es[n + 1], d)
    BY ONLY <1>3, <2>1
  <2>3. Good(f[n], (n + 1) - 1)
    BY ONLY <1>5, <2>1
  <2>4. Good(Keep(f[n], es[n + 1], d), n + 1)
    BY <2>1, <2>3, KeepOne
  <2> QED BY ONLY <2>2, <2>4
<1> HIDE DEF G
<1>6. \A n \in Nat : n \in G
  BY <1>4, <1>5, Induction
<1>7. Good(f[Len(es)], Len(es))
  BY <1>2, <1>6 DEF G
<1> QED BY <1>1, <1>7

-----------------------------------------------------------------------------
(* What a command does, and what it promises.                              *)

EntryOf(e) == Entry(e.dns, EffectiveIdle(e), e.enabled)
EntriesOf(es) == {EntryOf(e) : e \in Elements(es)}

\* The fields of a configuration, and its view.
LEMMA ConfigFields ==
    ASSUME NEW c \in EbbflowDaemonConfig
    PROVE  /\ c.endpoints \in Seq(Endpoint) /\ c.ssh \in Ssh \cup {None}
           /\ c.loglevel \in Levels \cup {None}
           /\ View(c) = [entries |-> EntriesOf(c.endpoints), ssh |-> c.ssh, loglevel |-> c.loglevel]
<1>1. c.endpoints \in Seq(Endpoint) /\ c.ssh \in Ssh \cup {None} /\ c.loglevel \in Levels \cup {None}
  BY DEF EbbflowDaemonConfig
<1>2. DOMAIN c.endpoints = 1 .. Len(c.endpoints)
  BY <1>1, LenProperties
<1>3. {c.endpoints[n] : n \in DOMAIN c.endpoints} = Elements(c.endpoints)
  BY ONLY <1>2 DEF Elements
<1> QED BY ONLY <1>1, <1>3 DEF View, EntriesOf, EntryOf

\* A configuration with other endpoints, and its view.
LEMMA OtherEndpoints ==
    ASSUME NEW c \in EbbflowDaemonConfig, NEW es \in Seq(Endpoint)
    PROVE  LET c2 == [c EXCEPT !.endpoints = es]
           IN  /\ c2 \in EbbflowDaemonConfig /\ c2.endpoints = es
               /\ View(c2) = [View(c) EXCEPT !.entries = EntriesOf(es)]
<1> DEFINE c2 == [c EXCEPT !.endpoints = es]
<1>1. /\ c2 \in EbbflowDaemonConfig /\ c2.endpoints = es
      /\ c2.ssh = c.ssh /\ c2.loglevel = c.loglevel
  BY DEF EbbflowDaemonConfig
<1> HIDE DEF c2
<1>2. View(c2) = [entries |-> EntriesOf(es), ssh |-> c.ssh, loglevel |-> c.loglevel]
  BY <1>1, ConfigFields
<1>3. View(c2) = [View(c) EXCEPT !.entries = EntriesOf(es)]
  BY ONLY <1>2, ConfigFields, c \in EbbflowDaemonConfig
<1> QED BY <1>1, <1>3 DEF c2

\* A name is listed if the view has an entry of it.
LEMMA NamedEntries ==
    ASSUME NEW c \in EbbflowDaemonConfig, NEW d
    PROVE  /\ Listed(c, d) <=> {e \in EntriesOf(c.endpoints) : e.dns = d} # {}
           /\ \A e : EntryOf(e).dns = e.dns /\ EntryOf(e).enabled = e.enabled
<1>1. \A e : EntryOf(e).dns = e.dns /\ EntryOf(e).enabled = e.enabled
  BY DEF EntryOf, Entry
<1>2. DOMAIN c.endpoints = 1 .. Len(c.endpoints)
  BY ConfigFields, LenProperties
<1>3. ASSUME Listed(c, d) PROVE \E e \in EntriesOf(c.endpoints) : e.dns = d
  <2>1. PICK n \in 1 .. Len(c.endpoints) : c.endpoints[n].dns = d
    BY <1>2, <1>3 DEF Listed
  <2>2. EntryOf(c.endpoints[n]) \in EntriesOf(c.endpoints)
    BY <2>1 DEF EntriesOf, Elements
  <2> QED BY <1>1, <2>1, <2>2
<1>4. ASSUME NEW e \in EntriesOf(c.endpoints), e.dns = d PROVE Listed(c, d)
  <2>1. PICK n \in 1 .. Len(c.endpoints) : e = EntryOf(c.endpoints[n])
    BY <1>4 DEF EntriesOf, Elements
  <2> QED BY <1>1, <1>2, <1>4, <2>1 DEF Listed
<1> QED BY <1>1, <1>3, <1>4

\* The fields of a command.
LEMMA CommandFields ==
    ASSUME NEW a \in Command
    PROVE  /\ a.kind = "add" => a.dns \in Dns /\ a.maxidle \in Nat \cup {None} /\ a.disabled \in BOOLEAN
           /\ a.kind = "remove" => a.dns \in Dns /\ a.idempotent \in BOOLEAN
           /\ a.kind = "endpoint" => a.dns \in Dns /\ a.enable \in BOOLEAN /\ a.idempotent \in BOOLEAN
           /\ a.kind \in {"all", "ssh"} => a.enable \in BOOLEAN /\ a.idempotent \in BOOLEAN
           /\ a.kind = "setup_ssh" => a.maxidle \in (0 .. U16 - 1) \cup {None} /\ a.disabled \in BOOLEAN
           /\ a.kind = "loglevel" => a.level \in Levels \cup {None}
           /\ a.kind \in {"init", "interactive"} => a.key \in Keys
           /\ a.kind = "interactive" => a.ssh \in BOOLEAN
           /\ a.kind \in {"add", "remove", "endpoint", "all", "ssh", "setup_ssh", "remove_ssh",
                          "print", "loglevel", "init", "interactive"}
BY DEF Command

\* The idle limit of an added endpoint fits the width of its field.
LimitFits(a) == a.kind = "add" => Default(a.maxidle, 40) < U16

\* An outcome is one of the configuration's type and has no name twice.
Sound(o) == o \in Outcomes /\ Unique(o.cfg.endpoints)

\* It is as promised.
AsPromised(o, p) == (o.code = "ok" <=> p.ok) /\ (o.save => View(o.cfg) = p.view)

\* It is what command a promises on v, but for the exit code of one case.
Keeps(o, a, v) ==
    /\ ~EnablesMissing(a, v) => (o.code = "ok" <=> Promise(a, v).ok)
    /\ o.save => View(o.cfg) = Promise(a, v).view

\* add_endpoint
LEMMA AddLemma ==
    ASSUME NEW c \in EbbflowDaemonConfig, Unique(c.endpoints), NEW a \in Command, a.kind = "add"
    PROVE  /\ Sound(AddEndpoint(c, a))
           /\ LimitFits(a) => AsPromised(AddEndpoint(c, a), Promise(a, View(c)))
<1>1. a.dns \in Dns /\ a.maxidle \in Nat \cup {None} /\ a.disabled \in BOOLEAN
  BY CommandFields
<1> DEFINE es == c.endpoints
           e == NewEndpoint(a)
           i == Default(a.maxidle, 40)
           new == Append(es, e)
           c2 == [c EXCEPT !.endpoints = new]
           v == View(c)
           named == {x \in v.entries : x.dns = a.dns}
           v2 == [v EXCEPT !.entries = @ \cup {Entry(a.dns, Min2(i, MaxMaxIdle), ~a.disabled)}]
<1>2. Promise(a, v) = IF named = {} THEN [ok |-> TRUE, view |-> v2] ELSE [ok |-> FALSE, view |-> v]
  BY a.kind = "add" DEF Promise
<1>3. Listed(c, a.dns) <=> named # {}
  BY ConfigFields, NamedEntries
<1>4. i \in Nat /\ U16 \in Nat \ {0} /\ i % U16 \in 0 .. U16 - 1 /\ (i < U16 => i % U16 = i)
  <2>1. i \in Nat
    BY <1>1 DEF Default
  <2>2. U16 \in Nat \ {0}
    BY CliAssumption
  <2>3. ASSUME NEW x \in Nat, NEW y \in Nat \ {0}
        PROVE  x % y \in 0 .. y - 1 /\ (x < y => x % y = x)
    BY ONLY <2>3
  <2> QED BY ONLY <2>1, <2>2, <2>3
<1>5. e \in Endpoint /\ e.dns = a.dns /\ EntryOf(e) = Entry(a.dns, Min2(i % U16, MaxMaxIdle), ~a.disabled)
  <2>1. e = [dns |-> a.dns, maxidle |-> i % U16, enabled |-> ~a.disabled]
    BY DEF NewEndpoint
  <2>2. (~a.disabled) \in BOOLEAN
    OBVIOUS
  <2> HIDE DEF e, i
  <2> QED BY ONLY <1>1, <1>4, <2>1, <2>2 DEF Endpoint, EntryOf, EffectiveIdle
<1> HIDE DEF e, i
<1>6. es \in Seq(Endpoint) /\ DOMAIN es = 1 .. Len(es) /\ Len(es) \in Nat
  BY ConfigFields, LenProperties
<1>7. /\ new \in Seq(Endpoint) /\ Len(new) = Len(es) + 1 /\ new[Len(es) + 1] = e
      /\ \A n \in 1 .. Len(es) : new[n] = es[n]
      /\ DOMAIN new = 1 .. Len(es) + 1
  BY <1>5, <1>6, AppendProperties, LenProperties
<1> HIDE DEF new
<1>8. \A n \in 1 .. Len(es) + 1 : n \in 1 .. Len(es) \/ n = Len(es) + 1
  BY <1>6
<1>9. ~Listed(c, a.dns) => Unique(new)
  <2>1. ~Listed(c, a.dns) => \A n \in 1 .. Len(es) : es[n].dns # e.dns
    BY <1>5, <1>6 DEF Listed
  <2> QED BY ONLY <1>6, <1>7, <1>8, <2>1, Unique(c.endpoints) DEF Unique
<1>10. EntriesOf(new) = EntriesOf(es) \cup {EntryOf(e)}
  <2>1. Elements(new) = Elements(es) \cup {e}
    BY ONLY <1>6, <1>7, <1>8 DEF Elements
  <2> QED BY ONLY <2>1 DEF EntriesOf
<1>11. c2 \in EbbflowDaemonConfig /\ c2.endpoints = new
       /\ View(c2) = [v EXCEPT !.entries = EntriesOf(new)]
  BY ONLY <1>7, OtherEndpoints, c \in EbbflowDaemonConfig
<1>12. i < U16 => View(c2) = v2
  <2>1. v.entries = EntriesOf(es)
    BY ConfigFields
  <2> QED BY ONLY <1>4, <1>5, <1>10, <1>11, <2>1
<1>13. AddEndpoint(c, a) = IF Listed(c, a.dns) THEN Exit(c, "refused") ELSE Save(c2, "ok")
  BY DEF AddEndpoint, new, e
<1> HIDE DEF c2, v2, named, v
<1>14. Sound(AddEndpoint(c, a))
  BY ONLY <1>9, <1>11, <1>13, c \in EbbflowDaemonConfig, Unique(c.endpoints)
     DEF Sound, Save, Exit, Outcomes
<1>15. i < U16 => AsPromised(AddEndpoint(c, a), Promise(a, v))
  BY ONLY <1>2, <1>3, <1>12, <1>13 DEF AsPromised, Save, Exit
<1> QED BY <1>14, <1>15, a.kind = "add" DEF LimitFits, i, v

\* remove_endpoint
LEMMA RemoveLemma ==
    ASSUME NEW c \in EbbflowDaemonConfig, Unique(c.endpoints), NEW a \in Command, a.kind = "remove"
    PROVE  /\ Sound(RemoveEndpoint(c, a))
           /\ AsPromised(RemoveEndpoint(c, a), Promise(a, View(c)))
<1> DEFINE es == c.endpoints
           new == Retain(es, a.dns)
           c2 == [c EXCEPT !.endpoints = new]
           v == View(c)
           named == {x \in v.entries : x.dns = a.dns}
           v2 == [v EXCEPT !.entries = @ \ named]
<1>1. Promise(a, v) = IF named # {} \/ a.idempotent THEN [ok |-> TRUE, view |-> v2]
                                                    ELSE [ok |-> FALSE, view |-> v]
  BY a.kind = "remove" DEF Promise
<1>2. Listed(c, a.dns) <=> named # {}
  BY ConfigFields, NamedEntries
<1>3. es \in Seq(Endpoint) /\ DOMAIN es = 1 .. Len(es) /\ v.entries = EntriesOf(es)
  BY ConfigFields, LenProperties
<1>4. new \in Seq(Endpoint) /\ Elements(new) = Others(es, a.dns, Len(es)) /\ Unique(new)
  BY <1>3, RetainFacts
<1> HIDE DEF new
<1>5. EntriesOf(new) = EntriesOf(es) \ named
  <2>1. \A e : EntryOf(e).dns = e.dns
    BY NamedEntries
  <2>2. ASSUME NEW x \in EntriesOf(new) PROVE x \in EntriesOf(es) /\ x \notin named
    <3>1. PICK e \in Elements(new) : x = EntryOf(e)
      BY <2>2 DEF EntriesOf
    <3>2. e \in Elements(es) /\ e.dns # a.dns
      BY ONLY <1>4, <3>1 DEF Others, Elements
    <3> QED BY ONLY <2>1, <3>1, <3>2 DEF EntriesOf
  <2>3. ASSUME NEW x \in EntriesOf(es), x \notin named PROVE x \in EntriesOf(new)
    <3>1. PICK n \in 1 .. Len(es) : x = EntryOf(es[n])
      BY <2>3 DEF EntriesOf, Elements
    <3>2. es[n].dns # a.dns
      BY <1>3, <2>1, <2>3, <3>1
    <3>3. es[n] \in Elements(new)
      BY ONLY <1>4, <3>1, <3>2 DEF Others
    <3> QED BY ONLY <3>1, <3>3 DEF EntriesOf
  <2> QED BY <2>2, <2>3
<1>6. c2 \in EbbflowDaemonConfig /\ c2.endpoints = new
      /\ View(c2) = [v EXCEPT !.entries = EntriesOf(new)]
  BY ONLY <1>4, OtherEndpoints, c \in EbbflowDaemonConfig
<1>7. View(c2) = v2
  BY ONLY <1>3, <1>5, <1>6
<1>8. RemoveEndpoint(c, a) = IF Listed(c, a.dns) \/ a.idempotent THEN Save(c2, "ok") ELSE Exit(c, "refused")
  BY DEF RemoveEndpoint, new
<1> HIDE DEF c2, v2, named, v
<1>9. Sound(RemoveEndpoint(c, a))
  BY ONLY <1>4, <1>6, <1>8, c \in EbbflowDaemonConfig, Unique(c.endpoints)
     DEF Sound, Save, Exit, Outcomes
<1>10. AsPromised(RemoveEndpoint(c, a), Promise(a, v))
  BY ONLY <1>1, <1>2, <1>7, <1>8 DEF AsPromised, Save, Exit
<1> QED BY <1>9, <1>10 DEF v

\* An entry that is switched, and a list with entries t switched.
WithEnabled(e, on) == [e EXCEPT !.enabled = on]
Switched(es, t, on) == [n \in DOMAIN es |-> IF n \in t THEN WithEnabled(es[n], on) ELSE es[n]]

\* Entries t of a list switched: their names and limits stay.
LEMMA SwitchList ==
    ASSUME NEW es \in Seq(Endpoint), NEW t, NEW on \in BOOLEAN, NEW es2,
           es2 = Switched(es, t, on)
    PROVE  /\ es2 \in Seq(Endpoint) /\ (Unique(es) => Unique(es2))
           /\ Len(es2) = Len(es)
           /\ \A n \in 1 .. Len(es) :
                 EntryOf(es2[n]) = IF n \in t THEN WithEnabled(EntryOf(es[n]), on)
                                             ELSE EntryOf(es[n])
<1>1. DOMAIN es = 1 .. Len(es) /\ Len(es) \in Nat /\ \A n \in 1 .. Len(es) : es[n] \in Endpoint
  BY LenProperties, ElementOfSeq
<1>2. ASSUME NEW e \in Endpoint
      PROVE  LET e2 == WithEnabled(e, on)
             IN  /\ e2 \in Endpoint /\ e2.dns = e.dns
                 /\ EntryOf(e2) = WithEnabled(EntryOf(e), on)
  <2>1. WithEnabled(e, on) = [dns |-> e.dns, maxidle |-> e.maxidle, enabled |-> on]
    BY DEF Endpoint, WithEnabled
  <2>2. e.dns \in Dns /\ e.maxidle \in 0 .. U16 - 1
    BY DEF Endpoint
  <2>3. WithEnabled(EntryOf(e), on) = [dns |-> e.dns, maxidle |-> Min2(e.maxidle, MaxMaxIdle), enabled |-> on]
    BY DEF EntryOf, Entry, EffectiveIdle, WithEnabled
  <2> QED BY <2>1, <2>2, <2>3 DEF Endpoint, EntryOf, Entry, EffectiveIdle
<1>3. \A n \in 1 .. Len(es) :
        /\ es2[n] \in Endpoint /\ es2[n].dns = es[n].dns
        /\ EntryOf(es2[n]) = IF n \in t THEN WithEnabled(EntryOf(es[n]), on) ELSE EntryOf(es[n])
  BY <1>1, <1>2 DEF Switched
<1>4. es2 \in [1 .. Len(es) -> Endpoint]
  BY <1>1, <1>3 DEF Switched
<1>5. es2 \in Seq(Endpoint) /\ Len(es2) = Len(es) /\ DOMAIN es2 = 1 .. Len(es)
  BY ONLY <1>1, <1>4
<1>6. Unique(es) => Unique(es2)
  BY ONLY <1>1, <1>3, <1>5 DEF Unique
<1> QED BY ONLY <1>3, <1>5, <1>6

\* The entries of the view that enable and disable are about.
Hit(a, E) == IF a.kind = "all" THEN E ELSE {x \in E : x.dns = a.dns}
SwitchedTo(on, E) == {WithEnabled(x, on) : x \in E}

\* What set_endpoint_enabled does to the view.
LEMMA SwitchEntries ==
    ASSUME NEW c \in EbbflowDaemonConfig, NEW a \in Command, a.kind \in {"endpoint", "all"},
           NEW E, E = EntriesOf(c.endpoints), NEW es2,
           es2 = Switched(c.endpoints, Targets(c, a), a.enable)
    PROVE  /\ \A n \in 1 .. Len(c.endpoints) : n \in Targets(c, a) <=> EntryOf(c.endpoints[n]) \in Hit(a, E)
           /\ Targets(c, a) # {} <=> Hit(a, E) # {}
           /\ EntriesOf(es2) = (E \ Hit(a, E)) \cup SwitchedTo(a.enable, Hit(a, E))
<1> DEFINE es == c.endpoints
           t == Targets(c, a)
           hit == Hit(a, E)
           on == a.enable
<1>1. es \in Seq(Endpoint) /\ DOMAIN es = 1 .. Len(es) /\ a.enable \in BOOLEAN
  BY ConfigFields, LenProperties, CommandFields
<1>2. \A n \in 1 .. Len(es) : EntryOf(es[n]) \in E
  BY DEF EntriesOf, Elements
<1>3. \A n \in 1 .. Len(es) : n \in t <=> EntryOf(es[n]) \in hit
  BY <1>1, <1>2, NamedEntries DEF Targets, Hit
<1>4. \A x \in E : \E n \in 1 .. Len(es) : x = EntryOf(es[n])
  BY DEF EntriesOf, Elements
<1>5. hit \subseteq E /\ t \subseteq 1 .. Len(es)
  BY <1>1 DEF Hit, Targets
<1>6. t # {} <=> hit # {}
  BY ONLY <1>3, <1>4, <1>5
<1>7. /\ Len(es2) = Len(es)
      /\ \A n \in 1 .. Len(es) : EntryOf(es2[n]) = IF n \in t THEN WithEnabled(EntryOf(es[n]), on)
                                                               ELSE EntryOf(es[n])
  <2>1. es2 = Switched(es, t, on)
    OBVIOUS
  <2>2. on \in BOOLEAN
    BY <1>1
  <2> HIDE DEF es, t, on
  <2> QED BY ONLY <1>1, <2>1, <2>2, SwitchList
<1> HIDE DEF hit, t, on, es
<1>8. \A x : x \in EntriesOf(es2) <=> \E n \in 1 .. Len(es) : x = EntryOf(es2[n])
  BY ONLY <1>7 DEF EntriesOf, Elements
<1>9. ASSUME NEW x \in EntriesOf(es2) PROVE x \in (E \ hit) \cup SwitchedTo(on, hit)
  <2>1. PICK n \in 1 .. Len(es) : x = EntryOf(es2[n])
    BY <1>8, <1>9
  <2>2. CASE n \in t
    BY ONLY <1>3, <1>7, <2>1, <2>2 DEF SwitchedTo
  <2>3. CASE n \notin t
    <3>1. x = EntryOf(es[n]) /\ x \in E /\ x \notin hit
      BY ONLY <1>2, <1>3, <1>7, <2>1, <2>3
    <3> QED BY <3>1
  <2> QED BY <2>2, <2>3
<1>10. ASSUME NEW x \in E \ hit PROVE x \in EntriesOf(es2)
  <2>1. PICK n \in 1 .. Len(es) : x = EntryOf(es[n])
    BY <1>4, <1>10
  <2>2. n \notin t
    BY ONLY <1>3, <1>10, <2>1
  <2>3. x = EntryOf(es2[n])
    BY ONLY <1>7, <2>1, <2>2
  <2> QED BY ONLY <1>8, <2>1, <2>3
<1>11. ASSUME NEW y \in hit PROVE WithEnabled(y, on) \in EntriesOf(es2)
  <2>1. PICK n \in 1 .. Len(es) : y = EntryOf(es[n])
    BY <1>4, <1>5, <1>11
  <2>2. n \in t
    BY ONLY <1>3, <1>11, <2>1
  <2>3. WithEnabled(y, on) = EntryOf(es2[n])
    BY ONLY <1>7, <2>1, <2>2
  <2> QED BY ONLY <1>8, <2>1, <2>3
<1>12. EntriesOf(es2) = (E \ hit) \cup SwitchedTo(on, hit)
  <2>1. SwitchedTo(on, hit) \subseteq EntriesOf(es2)
    BY ONLY <1>11 DEF SwitchedTo
  <2> QED BY ONLY <1>9, <1>10, <2>1
<1> QED BY ONLY <1>3, <1>6, <1>12 DEF es, t, hit, on

\* Switching entries that are on, or off, already changes nothing.
LEMMA SwitchedAlready ==
    ASSUME NEW es, NEW E, E = EntriesOf(es), NEW H, H \subseteq E, NEW on,
           \A x \in H : x.enabled = on
    PROVE  (E \ H) \cup SwitchedTo(on, H) = E
<1>1. ASSUME NEW x \in H PROVE WithEnabled(x, on) = x
  <2>1. PICK e : x = EntryOf(e)
    BY DEF EntriesOf
  <2>2. x = [dns |-> e.dns, maxidle |-> EffectiveIdle(e), enabled |-> e.enabled]
    BY <2>1 DEF EntryOf, Entry
  <2>3. x.enabled = on
    OBVIOUS
  <2> QED BY ONLY <2>2, <2>3 DEF WithEnabled
<1>2. SwitchedTo(on, H) = H
  BY ONLY <1>1 DEF SwitchedTo
<1> QED BY <1>2

\* set_endpoint_enabled
LEMMA SwitchLemma ==
    ASSUME NEW c \in EbbflowDaemonConfig, Unique(c.endpoints), NEW a \in Command,
           a.kind \in {"endpoint", "all"}
    PROVE  /\ Sound(SetEndpointEnabled(c, a))
           /\ Keeps(SetEndpointEnabled(c, a), a, View(c))
<1> DEFINE es == c.endpoints
           t == Targets(c, a)
           E == EntriesOf(es)
           hit == Hit(a, E)
           v == View(c)
           es2 == Switched(es, t, a.enable)
           c2 == [c EXCEPT !.endpoints = es2]
           v2 == [v EXCEPT !.entries = (E \ hit) \cup SwitchedTo(a.enable, hit)]
           changed == IF a.kind = "all" THEN TRUE ELSE \E x \in hit : x.enabled # a.enable
           granted == (hit # {} /\ changed) \/ a.idempotent
           missing == hit = {} /\ a.enable /\ a.idempotent
           mutated == IF a.kind = "all" THEN t # {}
                      ELSE \E n \in t : es[n].enabled # a.enable /\ \A m \in t : m <= n
<1>1. /\ es \in Seq(Endpoint) /\ DOMAIN es = 1 .. Len(es) /\ a.enable \in BOOLEAN
      /\ v.entries = E /\ Len(es) \in Nat
  BY ConfigFields, LenProperties, CommandFields
<1>2. /\ \A n \in 1 .. Len(es) : n \in t <=> EntryOf(es[n]) \in hit
      /\ t # {} <=> hit # {}
      /\ EntriesOf(es2) = (E \ hit) \cup SwitchedTo(a.enable, hit)
  <2>1. es2 = Switched(c.endpoints, Targets(c, a), a.enable)
    OBVIOUS
  <2>2. E = EntriesOf(c.endpoints) /\ a.kind \in {"endpoint", "all"}
    OBVIOUS
  <2> HIDE DEF es2, E
  <2> QED BY ONLY <2>1, <2>2, SwitchEntries, c \in EbbflowDaemonConfig, a \in Command
<1>3. es2 \in Seq(Endpoint) /\ Unique(es2)
  <2>1. es2 = Switched(es, t, a.enable)
    OBVIOUS
  <2>2. Unique(es)
    OBVIOUS
  <2> HIDE DEF es2, es, t
  <2> QED BY ONLY <1>1, <2>1, <2>2, SwitchList
<1>4. c2 \in EbbflowDaemonConfig /\ c2.endpoints = es2 /\ View(c2) = v2
  <2>1. c2 \in EbbflowDaemonConfig /\ c2.endpoints = es2 /\ View(c2) = [v EXCEPT !.entries = EntriesOf(es2)]
    <3> HIDE DEF es2
    <3> QED BY ONLY <1>3, OtherEndpoints, c \in EbbflowDaemonConfig
  <2> HIDE DEF es2, c2
  <2> QED BY ONLY <1>2, <2>1
<1>5. SetEndpointEnabled(c, a) = Save(c2, HandleEnableDisable(a.enable, a.idempotent, t # {}, mutated))
  BY DEF SetEndpointEnabled, Switched, WithEnabled
<1> HIDE DEF es2, c2
<1>6. Promise(a, v) = IF granted THEN [ok |-> TRUE, view |-> v2] ELSE [ok |-> FALSE, view |-> v]
  <2>1. CASE a.kind = "all"
    BY <1>1, <2>1 DEF Promise, Hit, SwitchedTo, WithEnabled
  <2>2. CASE a.kind = "endpoint"
    BY <1>1, <2>2 DEF Promise, Hit, SwitchedTo, WithEnabled
  <2> QED BY <2>1, <2>2
<1>7. hit # {} => (mutated <=> changed)
  <2>1. CASE a.kind = "all"
    BY <1>2, <2>1
  <2>2. CASE a.kind # "all"
    <3>1. t = {n \in 1 .. Len(es) : es[n].dns = a.dns}
      BY <1>1, <2>2 DEF Targets
    <3>2. \A m, n \in t : m = n
      BY ONLY <1>1, <3>1, Unique(c.endpoints) DEF Unique
    <3>3. mutated <=> \E n \in t : es[n].enabled # a.enable
      <4>1. \A m, n \in t : m <= n
        BY ONLY <1>1, <3>1, <3>2
      <4> QED BY ONLY <2>2, <4>1
    <3>4. \A n : EntryOf(es[n]).enabled = es[n].enabled
      BY NamedEntries
    <3>5. \A x \in hit : \E n \in t : x = EntryOf(es[n])
      <4>1. \A x \in hit : \E n \in 1 .. Len(es) : x = EntryOf(es[n])
        BY DEF Hit, EntriesOf, Elements
      <4> QED BY ONLY <1>2, <4>1
    <3>6. \A n \in t : EntryOf(es[n]) \in hit
      BY ONLY <1>2, <3>1
    <3>7. (\E x \in hit : x.enabled # a.enable) <=> \E n \in t : es[n].enabled # a.enable
      BY ONLY <3>4, <3>5, <3>6
    <3> QED BY <2>2, <3>3, <3>7
  <2> QED BY <2>1, <2>2
<1>8. ~granted => v2 = v
  <2>1. ASSUME ~granted PROVE (E \ hit) \cup SwitchedTo(a.enable, hit) = E
    <3>1. hit \subseteq E
      BY DEF Hit
    <3>2. \A x \in hit : x.enabled = a.enable
      BY <2>1
    <3> QED BY <3>1, <3>2, SwitchedAlready
  <2>2. v = [entries |-> E, ssh |-> c.ssh, loglevel |-> c.loglevel]
    BY ConfigFields
  <2> QED BY <2>1, <2>2
<1> DEFINE code == HandleEnableDisable(a.enable, a.idempotent, t # {}, mutated)
<1>9. code \in {"ok", "refused"} /\ (~missing => (code = "ok" <=> granted))
  <2>1. t # {} <=> hit # {}
    BY <1>2
  <2>2. hit # {} => (mutated <=> changed)
    BY <1>7
  <2> HIDE DEF mutated, changed, hit, t
  <2> QED BY ONLY <2>1, <2>2 DEF HandleEnableDisable
<1>13. missing => EnablesMissing(a, v)
  <2>1. CASE a.kind = "all"
    BY <1>1, <2>1 DEF EnablesMissing, Hit
  <2>2. CASE a.kind = "endpoint"
    BY <1>1, <2>2 DEF EnablesMissing, Hit
  <2> QED BY <2>1, <2>2
<1> HIDE DEF code, granted, v2, v, mutated, missing
<1>10. SetEndpointEnabled(c, a) = Save(c2, code)
  BY <1>5 DEF code
<1>11. Sound(Save(c2, code))
  BY ONLY <1>3, <1>4, <1>9 DEF Sound, Save, Outcomes
<1>12. Keeps(Save(c2, code), a, v)
  BY ONLY <1>4, <1>6, <1>8, <1>9, <1>13 DEF Keeps, Save
<1> QED BY ONLY <1>10, <1>11, <1>12 DEF v

\* A configuration with another ssh entry or log level.
LEMMA OtherSettings ==
    ASSUME NEW c \in EbbflowDaemonConfig, NEW s \in Ssh \cup {None}, NEW l \in Levels \cup {None}
    PROVE  LET c2 == [c EXCEPT !.ssh = s]
               c3 == [c EXCEPT !.loglevel = l]
           IN  /\ c2 \in EbbflowDaemonConfig /\ c2.endpoints = c.endpoints
               /\ View(c2) = [View(c) EXCEPT !.ssh = s]
               /\ c3 \in EbbflowDaemonConfig /\ c3.endpoints = c.endpoints
               /\ View(c3) = [View(c) EXCEPT !.loglevel = l]
<1> DEFINE c2 == [c EXCEPT !.ssh = s]
           c3 == [c EXCEPT !.loglevel = l]
<1>1. /\ c2 \in EbbflowDaemonConfig /\ c2.endpoints = c.endpoints /\ c2.ssh = s /\ c2.loglevel = c.loglevel
      /\ c3 \in EbbflowDaemonConfig /\ c3.endpoints = c.endpoints /\ c3.ssh = c.ssh /\ c3.loglevel = l
  BY DEF EbbflowDaemonConfig
<1> HIDE DEF c2, c3
<1>2. /\ View(c) = [entries |-> EntriesOf(c.endpoints), ssh |-> c.ssh, loglevel |-> c.loglevel]
      /\ View(c2) = [entries |-> EntriesOf(c.endpoints), ssh |-> s, loglevel |-> c.loglevel]
      /\ View(c3) = [entries |-> EntriesOf(c.endpoints), ssh |-> c.ssh, loglevel |-> l]
  BY <1>1, ConfigFields
<1>3. View(c2) = [View(c) EXCEPT !.ssh = s] /\ View(c3) = [View(c) EXCEPT !.loglevel = l]
  BY ONLY <1>2
<1> QED BY <1>1, <1>3 DEF c2, c3

\* set_ssh_enabled
LEMMA SshLemma ==
    ASSUME NEW c \in EbbflowDaemonConfig, Unique(c.endpoints), NEW a \in Command, a.kind = "ssh"
    PROVE  /\ Sound(SetSshEnabled(c, a))
           /\ Keeps(SetSshEnabled(c, a), a, View(c))
<1> DEFINE v == View(c)
           found == c.ssh # None
           mutated == IF found THEN c.ssh.enabled # a.enable ELSE FALSE
           s2 == [maxidle |-> c.ssh.maxidle, enabled |-> a.enable]
           c2 == IF mutated THEN [c EXCEPT !.ssh = s2] ELSE c
           granted == (found /\ mutated) \/ a.idempotent
           missing == ~found /\ a.enable /\ a.idempotent
           v2 == IF found THEN [v EXCEPT !.ssh = s2] ELSE v
           code == HandleEnableDisable(a.enable, a.idempotent, found, mutated)
<1>1. c.ssh \in Ssh \cup {None} /\ a.enable \in BOOLEAN /\ c.loglevel \in Levels \cup {None}
  BY ConfigFields, CommandFields
<1>2. v = [entries |-> EntriesOf(c.endpoints), ssh |-> c.ssh, loglevel |-> c.loglevel]
  BY ConfigFields
<1>3. found => c.ssh = [maxidle |-> c.ssh.maxidle, enabled |-> c.ssh.enabled] /\ s2 \in Ssh
  BY <1>1 DEF Ssh
<1>4. found => [c EXCEPT !.ssh.enabled = a.enable] = [c EXCEPT !.ssh = s2]
  BY <1>3 DEF EbbflowDaemonConfig
<1>5. found => [v EXCEPT !.ssh.enabled = a.enable] = [v EXCEPT !.ssh = s2]
  BY ONLY <1>2, <1>3
<1>6. SetSshEnabled(c, a) = Save(c2, code)
  BY <1>4 DEF SetSshEnabled
<1>7. Promise(a, v) = IF granted THEN [ok |-> TRUE, view |-> v2] ELSE [ok |-> FALSE, view |-> v]
  <2>1. v.ssh = c.ssh
    BY <1>2
  <2> HIDE DEF v, s2
  <2> QED BY <1>5, <2>1, a.kind = "ssh" DEF Promise
<1>8. code \in {"ok", "refused"} /\ (~missing => (code = "ok" <=> granted))
  <2> HIDE DEF found, mutated
  <2> QED BY DEF HandleEnableDisable
<1>9. ~mutated => v2 = v
  BY ONLY <1>2, <1>3
<1>10. c2 \in EbbflowDaemonConfig /\ c2.endpoints = c.endpoints /\ View(c2) = v2
  <2>1. CASE mutated
    <3>1. found /\ s2 \in Ssh \cup {None} /\ c2 = [c EXCEPT !.ssh = s2]
      BY <1>3, <2>1
    <3> HIDE DEF s2, c2
    <3> QED BY <1>1, <3>1, OtherSettings
  <2>2. CASE ~mutated
    BY <1>9, <2>2
  <2> QED BY <2>1, <2>2
<1>11. ~granted => v2 = v
  <2> HIDE DEF v2, v
  <2> QED BY <1>9
<1>14. missing => EnablesMissing(a, v)
  BY <1>2, a.kind = "ssh" DEF EnablesMissing
<1> HIDE DEF c2, v2, v, code, granted, missing
<1>12. Sound(Save(c2, code))
  BY ONLY <1>8, <1>10, Unique(c.endpoints) DEF Sound, Save, Outcomes
<1>13. Keeps(Save(c2, code), a, v)
  BY ONLY <1>7, <1>8, <1>10, <1>11, <1>14 DEF Keeps, Save
<1> QED BY ONLY <1>6, <1>12, <1>13 DEF v

\* setup_ssh
LEMMA SetupLemma ==
    ASSUME NEW c \in EbbflowDaemonConfig, Unique(c.endpoints), NEW a \in Command, a.kind = "setup_ssh"
    PROVE  /\ Sound(SetupSsh(c, a))
           /\ AsPromised(SetupSsh(c, a), Promise(a, View(c)))
<1> DEFINE v == View(c)
           s2 == [maxidle |-> Min2(Default(a.maxidle, 3), MaxMaxIdle), enabled |-> ~a.disabled]
           c2 == [c EXCEPT !.ssh = s2]
           v2 == [v EXCEPT !.ssh = s2]
<1>1. /\ c.ssh \in Ssh \cup {None} /\ c.loglevel \in Levels \cup {None} /\ v.ssh = c.ssh
      /\ a.maxidle \in (0 .. U16 - 1) \cup {None} /\ a.disabled \in BOOLEAN
  BY ConfigFields, CommandFields
<1>2. s2 \in Ssh
  <2>1. U16 \in Nat \ {0} /\ MaxMaxIdle \in 40 .. U16 - 1
    BY CliAssumption
  <2>2. Default(a.maxidle, 3) \in Nat /\ Default(a.maxidle, 3) < U16
    BY <1>1, <2>1 DEF Default
  <2>3. Min2(Default(a.maxidle, 3), MaxMaxIdle) \in 0 .. U16 - 1
    BY ONLY <2>1, <2>2 DEF Min2
  <2>4. (~a.disabled) \in BOOLEAN
    OBVIOUS
  <2> QED BY ONLY <2>3, <2>4 DEF Ssh
<1>3. SetupSsh(c, a) = IF c.ssh # None THEN Exit(c, "refused") ELSE Save(c2, "ok")
  BY DEF SetupSsh
<1>4. Promise(a, v) = IF v.ssh = None THEN [ok |-> TRUE, view |-> v2] ELSE [ok |-> FALSE, view |-> v]
  BY a.kind = "setup_ssh" DEF Promise
<1> HIDE DEF s2
<1>5. c2 \in EbbflowDaemonConfig /\ c2.endpoints = c.endpoints /\ View(c2) = v2
  BY <1>1, <1>2, OtherSettings
<1> HIDE DEF c2, v2, v
<1>6. Sound(SetupSsh(c, a))
  BY ONLY <1>3, <1>5, c \in EbbflowDaemonConfig, Unique(c.endpoints) DEF Sound, Save, Exit, Outcomes
<1>7. AsPromised(SetupSsh(c, a), Promise(a, v))
  BY ONLY <1>1, <1>3, <1>4, <1>5 DEF AsPromised, Save, Exit
<1> QED BY ONLY <1>6, <1>7 DEF v

\* remove_ssh_configuration, set_loglevel and printconfignokey
LEMMA SettingsLemma ==
    ASSUME NEW c \in EbbflowDaemonConfig, Unique(c.endpoints), NEW a \in Command
    PROVE  /\ a.kind = "remove_ssh" => Sound(RemoveSsh(c)) /\ AsPromised(RemoveSsh(c), Promise(a, View(c)))
           /\ a.kind = "loglevel" => Sound(SetLogLevel(c, a)) /\ AsPromised(SetLogLevel(c, a), Promise(a, View(c)))
           /\ a.kind = "print" => Sound(PrintConfig(c)) /\ AsPromised(PrintConfig(c), Promise(a, View(c)))
<1>1. c.ssh \in Ssh \cup {None} /\ c.loglevel \in Levels \cup {None}
  BY ConfigFields
<1>2. CASE a.kind = "remove_ssh"
  <2> DEFINE c2 == [c EXCEPT !.ssh = None]
  <2>1. c2 \in EbbflowDaemonConfig /\ c2.endpoints = c.endpoints /\ View(c2) = [View(c) EXCEPT !.ssh = None]
    BY <1>1, OtherSettings
  <2>2. Promise(a, View(c)) = [ok |-> TRUE, view |-> [View(c) EXCEPT !.ssh = None]]
    BY <1>2 DEF Promise
  <2>3. RemoveSsh(c) = [save |-> TRUE, cfg |-> c2, code |-> "ok"]
    BY DEF RemoveSsh, Save
  <2> HIDE DEF c2
  <2>4. Sound(RemoveSsh(c)) /\ AsPromised(RemoveSsh(c), Promise(a, View(c)))
    BY ONLY <2>1, <2>2, <2>3, Unique(c.endpoints) DEF Sound, AsPromised, Outcomes
  <2> QED BY <1>2, <2>4
<1>3. CASE a.kind = "loglevel"
  <2> DEFINE c2 == [c EXCEPT !.loglevel = a.level]
  <2>1. a.level \in Levels \cup {None}
    BY <1>3, CommandFields
  <2>2. c2 \in EbbflowDaemonConfig /\ c2.endpoints = c.endpoints /\ View(c2) = [View(c) EXCEPT !.loglevel = a.level]
    BY <1>1, <2>1, OtherSettings
  <2>3. Promise(a, View(c)) = [ok |-> TRUE, view |-> [View(c) EXCEPT !.loglevel = a.level]]
    BY <1>3 DEF Promise
  <2>4. SetLogLevel(c, a) = [save |-> TRUE, cfg |-> c2, code |-> "ok"]
    BY DEF SetLogLevel, Save
  <2> HIDE DEF c2
  <2>5. Sound(SetLogLevel(c, a)) /\ AsPromised(SetLogLevel(c, a), Promise(a, View(c)))
    BY ONLY <2>2, <2>3, <2>4, Unique(c.endpoints) DEF Sound, AsPromised, Outcomes
  <2> QED BY <1>3, <2>5
<1>4. CASE a.kind = "print"
  <2>1. Promise(a, View(c)) = [ok |-> TRUE, view |-> View(c)]
    BY <1>4 DEF Promise
  <2>2. PrintConfig(c) = [save |-> FALSE, cfg |-> c, code |-> "ok"]
    BY DEF PrintConfig, Exit
  <2>3. Sound(PrintConfig(c)) /\ AsPromised(PrintConfig(c), Promise(a, View(c)))
    BY ONLY <2>1, <2>2, c \in EbbflowDaemonConfig, Unique(c.endpoints) DEF Sound, AsPromised, Outcomes
  <2> QED BY <1>4, <2>3
<1> QED BY <1>2, <1>3, <1>4

\* Every command but init: the file's type and the names stay, and the
\* promise is kept.
LEMMA OutcomeLemma ==
    ASSUME NEW c \in EbbflowDaemonConfig, Unique(c.endpoints), NEW a \in Command,
           a.kind \notin {"init", "interactive"}
    PROVE  /\ Sound(Outcome(a, c))
           /\ LimitFits(a) => Keeps(Outcome(a, c), a, View(c))
<1>1. a.kind \in {"add", "remove", "endpoint", "all", "ssh", "setup_ssh", "remove_ssh", "print", "loglevel"}
  BY CommandFields
<1>2. CASE a.kind = "add"
  BY <1>2, AddLemma DEF Outcome, AsPromised, Keeps
<1>3. CASE a.kind = "remove"
  BY <1>3, RemoveLemma DEF Outcome, AsPromised, Keeps
<1>4. CASE a.kind \in {"endpoint", "all"}
  BY <1>4, SwitchLemma DEF Outcome
<1>5. CASE a.kind = "ssh"
  BY <1>5, SshLemma DEF Outcome
<1>6. CASE a.kind = "setup_ssh"
  BY <1>6, SetupLemma DEF Outcome, AsPromised, Keeps
<1>7. CASE a.kind \in {"remove_ssh", "loglevel", "print"}
  BY <1>7, SettingsLemma DEF Outcome, AsPromised, Keeps
<1> QED BY <1>1, <1>2, <1>3, <1>4, <1>5, <1>6, <1>7

\* The configuration of a new or blank file, and that of an interactive init.
LEMMA InitLemma ==
    /\ New \in EbbflowDaemonConfig /\ Unique(New.endpoints)
    /\ \A a \in Command : a.kind = "interactive" =>
          /\ Save(InitConfig(a), "ok") \in Outcomes /\ Unique(InitConfig(a).endpoints)
          /\ \A v : Keeps(Save(InitConfig(a), "ok"), a, v)
<1>1. New \in EbbflowDaemonConfig /\ Unique(New.endpoints) /\ New.endpoints = <<>>
  BY DEF New, EbbflowDaemonConfig, Unique
<1>2. ASSUME NEW a \in Command, a.kind = "interactive"
      PROVE  /\ InitConfig(a) \in EbbflowDaemonConfig /\ InitConfig(a).endpoints = <<>>
             /\ \A v : Promise(a, v) = [ok |-> TRUE, view |-> View(InitConfig(a))]
  <2>1. 5 \in 0 .. U16 - 1
    <3>1. U16 \in Nat \ {0} /\ MaxMaxIdle \in 40 .. U16 - 1
      BY CliAssumption
    <3> QED BY ONLY <3>1
  <2> DEFINE s == IF a.ssh THEN [maxidle |-> 5, enabled |-> TRUE] ELSE None
  <2>2. s \in Ssh \cup {None}
    BY <2>1 DEF Ssh
  <2>3. InitConfig(a) = [New EXCEPT !.ssh = s]
    BY DEF InitConfig
  <2> HIDE DEF s
  <2>4. InitConfig(a) \in EbbflowDaemonConfig /\ InitConfig(a).endpoints = <<>>
    BY ONLY <2>2, <2>3, <1>1 DEF EbbflowDaemonConfig
  <2>5. \A v : Promise(a, v) = [ok |-> TRUE, view |-> View(InitConfig(a))]
    BY <1>2 DEF Promise
  <2> QED BY <2>4, <2>5
<1>3. ASSUME NEW a \in Command, a.kind = "interactive"
      PROVE  /\ Save(InitConfig(a), "ok") \in Outcomes /\ Unique(InitConfig(a).endpoints)
             /\ \A v : Keeps(Save(InitConfig(a), "ok"), a, v)
  BY <1>2, <1>3 DEF Save, Outcomes, Unique, Keeps
<1> QED BY <1>1, <1>3

-----------------------------------------------------------------------------
(* The inductive invariant.                                                *)

Results == {None, "ok", "refused", "failed", "died"}
Asking == {"poll", "setkey", "keywrite", "save", "write"}

\* Where a process is, which command it runs, and what it is about to write.
Consistent(l, k, m) ==
    /\ l # "idle" <=> k # None
    /\ l \in {"save", "write"} <=> m # None
    /\ m # None => m.save /\ Unique(m.cfg.endpoints)
    /\ l = "load" => k.kind \notin {"init", "interactive"}
    /\ l \in Prompts \cup {"check", "request", "poll"} => k.kind = "interactive"
    /\ l \in {"setkey", "keywrite"} => k.kind \in {"init", "interactive"}
    /\ l \in {"save", "write"} /\ k.kind = "interactive" => m = Save(InitConfig(k), "ok")

FileOK(f) == f \in {Missing, Blank, Empty, Garbled} \/ (f \in EbbflowDaemonConfig /\ Unique(f.endpoints))

Typed ==
    /\ FileOK(cfgfile) /\ keyfile \in Keys \cup {Missing, Empty, Garbled}
    /\ pc \in [Procs -> Labels] /\ cmd \in [Procs -> Commands \cup {None}]
    /\ mem \in [Procs -> Outcomes \cup {None}] /\ result \in [Procs -> Results]
    /\ base = [p \in Procs |-> base[p]] /\ approved \subseteq Procs /\ fresh \subseteq Procs
    /\ started \in 0 .. MaxCommands
    /\ \A p \in Procs : /\ Consistent(pc[p], cmd[p], mem[p])
                        /\ p \in approved => pc[p] \in Asking
                        /\ p \in fresh => pc[p] \in {"save", "write"}

\* Types, and no name twice.
LEMMA TypedImplies == Typed => TypeOK /\ UniqueNames
<1> SUFFICES ASSUME Typed PROVE TypeOK /\ UniqueNames
  OBVIOUS
<1>1. ASSUME NEW p \in Procs
      PROVE  /\ pc[p] \in Labels
             /\ pc[p] # "idle" <=> cmd[p] # None
             /\ cmd[p] = None \/ cmd[p] \in Commands
             /\ pc[p] \in {"save", "write"} <=> mem[p] # None
             /\ mem[p] # None => mem[p].cfg \in Config /\ mem[p].save /\ Unique(mem[p].cfg.endpoints)
             /\ result[p] \in Results
             /\ p \in approved => pc[p] \in Asking
             /\ p \in fresh => pc[p] \in {"save", "write"}
  BY DEF Typed, Consistent, Outcomes, Config
<1>2. TypeOK
  <2>1. /\ approved \subseteq {p \in Procs : pc[p] \in Asking}
        /\ fresh \subseteq {p \in Procs : pc[p] \in {"save", "write"}}
    BY <1>1 DEF Typed
  <2>2. cfgfile \in {Missing, Blank, Empty, Garbled} \/ cfgfile \in Config
    BY DEF Typed, FileOK, Config
  <2>3. /\ keyfile \in Keys \cup {Missing, Empty, Garbled} /\ started \in 0 .. MaxCommands
    BY DEF Typed
  <2> QED BY ONLY <1>1, <2>1, <2>2, <2>3 DEF TypeOK, Asking, Results
<1>3. UniqueNames
  BY <1>1 DEF Typed, FileOK, UniqueNames
<1> QED BY <1>2, <1>3

\* A step of process p to label l with command k and memory m.
LEMMA OneProcess ==
    ASSUME Typed, NEW p \in Procs, NEW l \in Labels, NEW k \in Commands \cup {None},
           NEW m \in Outcomes \cup {None}, NEW r \in Results, NEW b,
           pc' = [pc EXCEPT ![p] = l], cmd' = [cmd EXCEPT ![p] = k],
           mem' = [mem EXCEPT ![p] = m], result' = [result EXCEPT ![p] = r],
           Consistent(l, k, m), approved' \subseteq approved \cup {p}, p \in approved' => l \in Asking,
           base' = [base EXCEPT ![p] = b],
           fresh' \subseteq fresh \cup {p}, p \in fresh' => l \in {"save", "write"},
           FileOK(cfgfile'), keyfile' \in Keys \cup {Missing, Empty, Garbled},
           started' \in 0 .. MaxCommands
    PROVE  Typed'
<1>1. /\ pc' \in [Procs -> Labels] /\ cmd' \in [Procs -> Commands \cup {None}]
      /\ mem' \in [Procs -> Outcomes \cup {None}] /\ result' \in [Procs -> Results]
      /\ approved' \subseteq Procs /\ fresh' \subseteq Procs
  BY DEF Typed
<1>5. base' = [q \in Procs |-> base'[q]]
  BY DEF Typed
<1>2. pc'[p] = l /\ cmd'[p] = k /\ mem'[p] = m
  BY DEF Typed
<1>3. \A q \in Procs \ {p} : pc'[q] = pc[q] /\ cmd'[q] = cmd[q] /\ mem'[q] = mem[q]
  BY DEF Typed
<1>4. ASSUME NEW q \in Procs
      PROVE  /\ Consistent(pc'[q], cmd'[q], mem'[q])
             /\ q \in approved' => pc'[q] \in Asking
             /\ q \in fresh' => pc'[q] \in {"save", "write"}
  <2>1. CASE q = p
    BY <1>2, <2>1
  <2>2. CASE q # p
    BY <1>3, <2>2 DEF Typed
  <2> QED BY <2>1, <2>2
<1> QED BY <1>1, <1>4, <1>5 DEF Typed, FileOK

\* What is known of a running process.
LEMMA Running ==
    ASSUME Typed, NEW p \in Procs, pc[p] # "idle"
    PROVE  /\ cmd[p] \in Commands /\ cmd[p] \in Command /\ cmd[p] # None
           /\ pc[p] = "load" => cmd[p].kind \notin {"init", "interactive"}
           /\ pc[p] \in {"save", "write"} => mem[p] \in Outcomes /\ mem[p].save /\ Unique(mem[p].cfg.endpoints)
           /\ pc[p] \notin {"save", "write"} => mem[p] = None
<1>1. Consistent(pc[p], cmd[p], mem[p]) /\ cmd[p] \in Commands \cup {None} /\ mem[p] \in Outcomes \cup {None}
  BY DEF Typed
<1>2. cmd[p] \in Commands /\ cmd[p] # None
  BY <1>1 DEF Consistent
<1>3. cmd[p] \in Command
  BY <1>2, CliAssumption
<1> QED BY <1>1, <1>2, <1>3 DEF Consistent

\* A step that leaves parts of process p alone, in the form of OneProcess.
LEMMA Same ==
    ASSUME Typed, NEW p \in Procs
    PROVE  /\ pc = [pc EXCEPT ![p] = pc[p]] /\ cmd = [cmd EXCEPT ![p] = cmd[p]]
           /\ mem = [mem EXCEPT ![p] = mem[p]] /\ result = [result EXCEPT ![p] = result[p]]
           /\ base = [base EXCEPT ![p] = base[p]]
           /\ pc[p] \in Labels /\ cmd[p] \in Commands \cup {None}
           /\ mem[p] \in Outcomes \cup {None} /\ result[p] \in Results
           /\ Consistent(pc[p], cmd[p], mem[p])
           /\ p \in approved => pc[p] \in Asking
           /\ p \in fresh => pc[p] \in {"save", "write"}
BY DEF Typed

\* A process that ends.
LEMMA TypedEnd ==
    ASSUME Typed, NEW p \in Procs, NEW r \in Results, End(p, r),
           FileOK(cfgfile'), keyfile' \in Keys \cup {Missing, Empty, Garbled},
           started' \in 0 .. MaxCommands
    PROVE  Typed'
<1>1. /\ pc' = [pc EXCEPT ![p] = "idle"] /\ cmd' = [cmd EXCEPT ![p] = None]
      /\ mem' = [mem EXCEPT ![p] = None] /\ result' = [result EXCEPT ![p] = r]
      /\ base' = [base EXCEPT ![p] = None] /\ fresh' \subseteq fresh \cup {p} /\ p \notin fresh'
      /\ approved' \subseteq approved \cup {p} /\ p \notin approved'
  BY DEF End
<1>2. "idle" \in Labels /\ Consistent("idle", None, None)
  BY DEF Labels, Consistent, Prompts
<1> QED BY <1>1, <1>2, OneProcess

\* The exits by an error, and the death of a process.
LEMMA TypedFails ==
    ASSUME Typed, NEW p \in Procs,
           \/ LoadFails(p) \/ SaveFails(p) \/ CheckFails(p) \/ PromptFails(p) \/ RequestFails(p)
           \/ PollFails(p) \/ SetKeyFails(p) \/ Die(p)
    PROVE  Typed'
<1> USE DEF LoadFails, SaveFails, CheckFails, PromptFails, RequestFails, PollFails, SetKeyFails, Die
<1>1. FileOK(cfgfile) /\ keyfile \in Keys \cup {Missing, Empty, Garbled}
      /\ started \in 0 .. MaxCommands
  BY DEF Typed
<1>2. FileOK(cfgfile')
  <2>1. cfgfile' = cfgfile \/ cfgfile' \in {Empty, Garbled}
    BY DEF files
  <2> QED BY ONLY <1>1, <2>1 DEF FileOK
<1>3. keyfile' \in {keyfile, Garbled} /\ started' = started
  BY DEF files
<1>4. \E r \in Results : End(p, r)
  BY DEF Results
<1> QED BY ONLY Typed, p \in Procs, <1>1, <1>2, <1>3, <1>4, TypedEnd

\* A command starts.
LEMMA TypedStart ==
    ASSUME Typed, NEW p \in Procs, NEW k \in Commands, Start(p, k)
    PROVE  Typed'
<1> DEFINE l == CASE k.kind = "init" -> "setkey" [] k.kind = "interactive" -> "check" [] OTHER -> "load"
<1>1. /\ pc' = [pc EXCEPT ![p] = l] /\ cmd' = [cmd EXCEPT ![p] = k] /\ result' = [result EXCEPT ![p] = None]
      /\ UNCHANGED <<cfgfile, keyfile, mem, approved, base, fresh>> /\ pc[p] = "idle"
  BY DEF Start, Goto, files, read
<1>2. k # None /\ l \in Labels /\ l \in {"setkey", "check", "load"}
      /\ (l = "setkey" <=> k.kind = "init") /\ (l = "check" <=> k.kind = "interactive")
  BY CliAssumption DEF Labels
<1> HIDE DEF l
<1>3. mem[p] = None /\ p \notin approved /\ p \notin fresh
  BY <1>1 DEF Typed, Consistent, Asking
<1>4. Consistent(l, k, None)
  BY ONLY <1>2 DEF Consistent, Prompts
<1>5. started' \in 0 .. MaxCommands
  <2>1. started < MaxCommands /\ started' = started + 1 /\ started \in 0 .. MaxCommands /\ MaxCommands \in Nat
    BY CliAssumption DEF Start, Typed
  <2> QED BY ONLY <2>1
<1>6. mem' = [mem EXCEPT ![p] = None] /\ None \in Results /\ base' = [base EXCEPT ![p] = base[p]]
  BY <1>1, <1>3, Same DEF Results
<1>7. FileOK(cfgfile') /\ keyfile' \in Keys \cup {Missing, Empty, Garbled}
  BY <1>1 DEF Typed
<1> QED BY <1>1, <1>2, <1>3, <1>4, <1>5, <1>6, <1>7, OneProcess

\* What a command reads is a configuration without a name twice.
LEMMA LoadedSound ==
    ASSUME Typed, cfgfile # Garbled
    PROVE  Loaded \in EbbflowDaemonConfig /\ Unique(Loaded.endpoints)
BY InitLemma DEF Typed, FileOK, Loaded

\* The configuration is read and the command decides.
LEMMA TypedLoad ==
    ASSUME Typed, NEW p \in Procs, Load(p)
    PROVE  Typed'
<1> DEFINE o == Outcome(cmd[p], Loaded)
<1>1. o \in Outcomes /\ Unique(o.cfg.endpoints)
  <2>1. cmd[p] \in Command /\ cmd[p].kind \notin {"init", "interactive"}
    BY Running DEF Load
  <2>2. Loaded \in EbbflowDaemonConfig /\ Unique(Loaded.endpoints)
    BY LoadedSound DEF Load
  <2> QED BY ONLY <2>1, <2>2, OutcomeLemma DEF Sound
<1> DEFINE Reads == /\ o.save /\ mem' = [mem EXCEPT ![p] = o] /\ pc' = [pc EXCEPT ![p] = "save"]
                    /\ base' = [base EXCEPT ![p] = View(Loaded)] /\ fresh' \subseteq fresh \cup {p}
                    /\ UNCHANGED <<cmd, result, approved>>
<1>2. pc[p] = "load" /\ UNCHANGED <<cfgfile, keyfile, started>> /\ (Reads \/ End(p, o.code))
  BY DEF Load, Goto, files
<1> HIDE DEF o
<1>4. FileOK(cfgfile') /\ keyfile' \in Keys \cup {Missing, Empty, Garbled} /\ started' \in 0 .. MaxCommands
  BY <1>2 DEF Typed
<1>5. CASE End(p, o.code)
  <2>1. o.code \in Results
    BY <1>1 DEF Outcomes, Results
  <2> QED BY <1>4, <1>5, <2>1, TypedEnd
<1>6. CASE Reads
  <2>1. "save" \in Labels /\ "save" \in Asking /\ o # None
    BY <1>1, CliAssumption DEF Labels, Asking
  <2>2. Consistent("save", cmd[p], o)
    <3>1. cmd[p] # None /\ cmd[p].kind \notin {"init", "interactive"}
      BY <1>2, Running
    <3> QED BY ONLY <1>1, <1>6, <2>1, <3>1 DEF Consistent, Prompts
  <2> QED BY <1>1, <1>4, <1>6, <2>1, <2>2, Same, OneProcess
<1> QED BY <1>2, <1>5, <1>6

\* save_to_file
LEMMA TypedSave ==
    ASSUME Typed, NEW p \in Procs, BeginSave(p) \/ FinishSave(p)
    PROVE  Typed'
<1>1. keyfile' \in Keys \cup {Missing, Empty, Garbled} /\ started' \in 0 .. MaxCommands
  BY DEF BeginSave, FinishSave, Typed
<1>3. CASE BeginSave(p)
  <2>1. /\ pc[p] = "save" /\ pc' = [pc EXCEPT ![p] = "write"] /\ cfgfile' = Empty
        /\ UNCHANGED <<cmd, mem, approved, result, base>> /\ fresh' \subseteq fresh \cup {p}
    BY <1>3 DEF BeginSave, Goto
  <2>2. "write" \in Labels /\ "write" \in Asking /\ FileOK(cfgfile')
    BY <2>1 DEF Labels, Asking, FileOK
  <2>3. Consistent("write", cmd[p], mem[p])
    BY <2>1, Same DEF Consistent, Prompts
  <2>4. /\ cmd' = [cmd EXCEPT ![p] = cmd[p]] /\ mem' = [mem EXCEPT ![p] = mem[p]]
        /\ result' = [result EXCEPT ![p] = result[p]] /\ approved' \subseteq approved \cup {p}
        /\ cmd[p] \in Commands \cup {None} /\ mem[p] \in Outcomes \cup {None} /\ result[p] \in Results
    BY <2>1, Same
  <2>5. /\ pc' = [pc EXCEPT ![p] = "write"] /\ base' = [base EXCEPT ![p] = base[p]]
        /\ fresh' \subseteq fresh \cup {p} /\ "write" \in {"save", "write"}
    BY <2>1, Same
  <2> QED BY ONLY Typed, p \in Procs, <1>1, <2>2, <2>3, <2>4, <2>5, OneProcess
<1>4. CASE FinishSave(p)
  <2>1. pc[p] = "write" /\ End(p, mem[p].code) /\ cfgfile' \in {mem[p].cfg, Garbled}
    BY <1>4 DEF FinishSave, Writing
  <2>2. mem[p] \in Outcomes /\ Unique(mem[p].cfg.endpoints)
    BY <2>1, Running
  <2>3. FileOK(cfgfile') /\ mem[p].code \in Results
    BY <2>1, <2>2 DEF FileOK, Outcomes, Results
  <2> QED BY <1>1, <2>1, <2>3, TypedEnd
<1> QED BY <1>3, <1>4

\* init: the files are checked, questions asked, a key is asked for, approved,
\* polled for and written.
LEMMA TypedInit ==
    ASSUME Typed, NEW p \in Procs,
           \/ CheckPermissions(p) \/ Answer(p) \/ RequestKey(p) \/ Approve(p) \/ PollKey(p)
           \/ BeginKey(p) \/ FinishKey(p)
    PROVE  Typed'
<1>1. FileOK(cfgfile) /\ keyfile \in Keys \cup {Missing, Empty, Garbled} /\ started \in 0 .. MaxCommands
  BY DEF Typed
<1>2. pc[p] # "idle" /\ started' = started
  BY DEF CheckPermissions, Answer, Prompts, RequestKey, Approve, PollKey, BeginKey, FinishKey
<1>3. cmd[p] \in Command /\ cmd[p] # None /\ (pc[p] \notin {"save", "write"} => mem[p] = None)
  BY <1>2, Running
<1>4. FileOK(cfgfile')
  <2>1. cfgfile' = cfgfile \/ cfgfile' = Empty
    BY DEF CheckPermissions, Answer, RequestKey, Approve, PollKey, BeginKey, FinishKey, files
  <2> QED BY <1>1, <2>1 DEF FileOK
<1>5. keyfile' \in Keys \cup {Missing, Empty, Garbled}
  <2>1. CASE FinishKey(p)
    <3>1. pc[p] = "keywrite" /\ keyfile' \in {cmd[p].key, Garbled}
      BY <2>1 DEF FinishKey
    <3>2. cmd[p].kind \in {"init", "interactive"}
      BY <3>1, Same DEF Consistent
    <3> QED BY <1>3, <3>1, <3>2, CommandFields
  <2>2. CASE ~FinishKey(p)
    BY <1>1, <2>2 DEF CheckPermissions, Answer, RequestKey, Approve, PollKey, BeginKey, files
  <2> QED BY <2>1, <2>2
<1>6. ASSUME NEW l \in Prompts \cup {"request", "poll", "setkey", "keywrite"}, pc' = [pc EXCEPT ![p] = l],
             UNCHANGED <<cmd, mem, result, base, fresh>>, approved' \subseteq approved \cup {p},
             p \in approved' => l \in Asking, pc[p] \notin {"save", "write"},
             l \in Prompts \cup {"request", "poll"} => cmd[p].kind = "interactive",
             cmd[p].kind \in {"init", "interactive"}
      PROVE  Typed'
  <2>1. l \in Labels
    BY <1>6 DEF Labels
  <2>2. Consistent(l, cmd[p], mem[p])
    BY ONLY <1>3, <1>6 DEF Consistent, Prompts
  <2>3. /\ p \notin fresh' /\ fresh' \subseteq fresh \cup {p}
        /\ cmd' = [cmd EXCEPT ![p] = cmd[p]] /\ mem' = [mem EXCEPT ![p] = mem[p]]
        /\ result' = [result EXCEPT ![p] = result[p]] /\ base' = [base EXCEPT ![p] = base[p]]
        /\ cmd[p] \in Commands \cup {None} /\ mem[p] \in Outcomes \cup {None} /\ result[p] \in Results
    BY <1>6, Same
  <2>4. pc' = [pc EXCEPT ![p] = l] /\ approved' \subseteq approved \cup {p} /\ (p \in approved' => l \in Asking)
    BY <1>6
  <2> QED BY ONLY Typed, p \in Procs, <1>1, <1>2, <1>4, <1>5, <2>1, <2>2, <2>3, <2>4, OneProcess
<1>10. /\ pc[p] \in Prompts \cup {"check", "request", "poll"} => cmd[p].kind = "interactive"
       /\ pc[p] = "setkey" => cmd[p].kind \in {"init", "interactive"}
       /\ p \in approved => pc[p] \in Asking
       /\ "poll" \in Asking /\ "setkey" \in Asking /\ "keywrite" \in Asking
  BY Same DEF Consistent, Asking
<1>11. CASE Answer(p)
  <2>1. /\ pc[p] \in Prompts /\ UNCHANGED <<cmd, mem, result, base, fresh, approved>>
        /\ \E l \in {"ask_name", "request", "confirm_name", "enter_name"} : pc' = [pc EXCEPT ![p] = l]
    BY <1>11 DEF Answer, Goto, read, Prompts
  <2>2. PICK l \in {"ask_name", "request", "confirm_name", "enter_name"} : pc' = [pc EXCEPT ![p] = l]
    BY <2>1
  <2>3. l \in Prompts \cup {"request", "poll", "setkey", "keywrite"} /\ pc[p] \notin {"save", "write"}
        /\ p \notin approved'
    BY <1>10, <2>1 DEF Prompts, Asking
  <2> QED BY <1>6, <1>10, <2>1, <2>2, <2>3
<1>7. CASE CheckPermissions(p) \/ RequestKey(p) \/ PollKey(p) \/ BeginKey(p)
  <2>1. /\ UNCHANGED <<cmd, mem, result, base, fresh, approved>>
        /\ \/ pc[p] = "check" /\ pc' = [pc EXCEPT ![p] = "ask_ssh"]
           \/ pc[p] = "request" /\ pc' = [pc EXCEPT ![p] = "poll"]
           \/ pc[p] = "poll" /\ pc' = [pc EXCEPT ![p] = "setkey"]
           \/ pc[p] = "setkey" /\ pc' = [pc EXCEPT ![p] = "keywrite"]
    BY <1>7 DEF CheckPermissions, RequestKey, PollKey, BeginKey, Goto, read
  <2>3. (p \in approved => pc[p] \in {"poll", "setkey"}) /\ "ask_ssh" \in Prompts
        /\ "setkey" \notin Prompts /\ "keywrite" \notin Prompts
    BY <1>10, <2>1 DEF Asking, Prompts
  <2> QED BY <1>6, <1>10, <2>1, <2>3
<1>8. CASE Approve(p)
  <2>1. pc[p] = "poll" /\ approved' = approved \cup {p} /\ UNCHANGED <<pc, cmd, mem, result, base, fresh>>
    BY <1>8 DEF Approve, read
  <2>2. pc' = [pc EXCEPT ![p] = "poll"]
    BY <2>1, Same
  <2> QED BY <1>6, <1>10, <2>1, <2>2
<1>9. CASE FinishKey(p)
  <2>1. pc[p] = "keywrite" /\ cmd[p].kind \in {"init", "interactive"}
    BY <1>9, Same DEF FinishKey, Consistent
  <2>2. CASE cmd[p].kind = "init"
    <3>1. End(p, "ok") /\ "ok" \in Results
      BY <1>9, <2>2 DEF FinishKey, Results
    <3> QED BY <1>1, <1>2, <1>4, <1>5, <3>1, TypedEnd
  <2>3. CASE cmd[p].kind # "init"
    <3> DEFINE m == Save(InitConfig(cmd[p]), "ok")
    <3>1. /\ mem' = [mem EXCEPT ![p] = m] /\ pc' = [pc EXCEPT ![p] = "save"]
          /\ UNCHANGED <<cmd, result, approved, base, fresh>>
      BY <1>9, <2>3 DEF FinishKey, Goto, read
    <3>2. m \in Outcomes /\ Unique(InitConfig(cmd[p]).endpoints)
      BY <1>3, <2>1, <2>3, InitLemma
    <3>3. m.save /\ m.cfg = InitConfig(cmd[p]) /\ m # None
      BY <3>2, CliAssumption DEF Save
    <3>4. "save" \in Labels /\ "save" \in Asking
      BY DEF Labels, Asking
    <3>5. Consistent("save", cmd[p], m)
      BY ONLY <1>3, <2>3, <3>2, <3>3 DEF Consistent, Prompts
    <3> HIDE DEF m
    <3>6. /\ cmd' = [cmd EXCEPT ![p] = cmd[p]] /\ mem' = [mem EXCEPT ![p] = m] /\ pc' = [pc EXCEPT ![p] = "save"]
          /\ result' = [result EXCEPT ![p] = result[p]] /\ base' = [base EXCEPT ![p] = base[p]]
          /\ cmd[p] \in Commands \cup {None} /\ m \in Outcomes \cup {None} /\ result[p] \in Results
          /\ approved' \subseteq approved \cup {p} /\ fresh' \subseteq fresh \cup {p} /\ "save" \in {"save", "write"}
      BY <3>1, <3>2, Same
    <3> QED BY ONLY Typed, p \in Procs, <1>1, <1>2, <1>4, <1>5, <3>4, <3>5, <3>6, OneProcess
  <2> QED BY <2>2, <2>3
<1> QED BY <1>7, <1>8, <1>9, <1>11

\* Types and unique names, from the start and in every step.
LEMMA TypedInitially == Init => Typed
<1> SUFFICES ASSUME Init PROVE Typed
  OBVIOUS
<1>1. FileOK(cfgfile)
  BY CliAssumption DEF Init, FileOK
<1>2. started \in 0 .. MaxCommands
  <2>1. started = 0 /\ MaxCommands \in Nat
    BY CliAssumption DEF Init
  <2> QED BY ONLY <2>1
<1>3. Consistent("idle", None, None) /\ "idle" \in Labels /\ None \in Results
  BY DEF Consistent, Labels, Results, Prompts
<1> QED BY <1>1, <1>2, <1>3 DEF Init, Typed

\* Every step of every process keeps them.
LEMMA TypedNext == Typed /\ [Next]_vars => Typed'
<1> SUFFICES ASSUME Typed, [Next]_vars PROVE Typed'
  OBVIOUS
<1>1. CASE UNCHANGED vars
  BY <1>1 DEF vars, files, process, read, Typed, FileOK
<1>2. ASSUME NEW p \in Procs,
             (\E c \in Commands : Start(p, c)) \/ Local(p) \/ Remote(p) \/ User(p) \/ Die(p)
      PROVE  Typed'
  BY <1>2, TypedStart, TypedLoad, TypedSave, TypedInit, TypedFails DEF Local, Remote, User
<1> QED BY <1>1, <1>2 DEF Next

-----------------------------------------------------------------------------
(* What the files hold, and what the commands have read.                   *)

\* config.yaml is what the last write was to store; it is empty during a write,
\* or because one was cut short.
FileInTurn ==
    /\ cfgfile \notin {Empty, Garbled} => View(Loaded) = stored
    /\ cfgfile = Empty /\ (\A p \in Procs : ~Writing(p)) => stored = View(New)

\* A command will write what it promises on what it has read.
MemInTurn == \A p \in Procs : pc[p] \in {"save", "write"} => Keeps(mem[p], cmd[p], base[p])

\* Who read between two writes has read what the last one was to store, and
\* nobody else has begun to write.
FreshInTurn ==
    \A p \in fresh : base[p] = stored /\ \A q \in Procs \ {p} : ~Writing(q)

\* The same of host.key as of config.yaml.
KeyInTurn ==
    /\ keyfile \notin {Empty, Garbled} => keyfile = storedkey
    /\ keyfile = Empty /\ (\A p \in Procs : pc[p] # "keywrite")
          => storedkey \in {Empty, Missing}

InTurn == Typed /\ FileInTurn /\ MemInTurn /\ FreshInTurn /\ KeyInTurn

\* No command asks for more idle connections than the field can hold: see
\* IdleCapped for one that does.
LimitsFit == \A a \in Commands : LimitFits(a)

\* Between two writes the file shows what the last one was to store.
LEMMA BetweenWrites ==
    ASSUME FileInTurn, cfgfile # Garbled, \A p \in Procs : ~Writing(p)
    PROVE  View(Loaded) = stored
<1>1. CASE cfgfile = Empty
  BY <1>1 DEF FileInTurn, Loaded
<1>2. CASE cfgfile # Empty
  BY <1>2 DEF FileInTurn
<1> QED BY <1>1, <1>2

\* The invariant says what Serializable does.
LEMMA InTurnImplies == InTurn => Serializable
<1> SUFFICES ASSUME InTurn PROVE Serializable
  OBVIOUS
<1>1. cfgfile # Garbled /\ ~(\E p \in Procs : Writing(p)) => View(Loaded) = stored
  BY BetweenWrites DEF InTurn
<1>2. \A p \in fresh : base[p] = stored
  BY DEF InTurn, FreshInTurn
<1>3. keyfile # Garbled /\ ~(\E p \in Procs : pc[p] = "keywrite")
          => keyfile = storedkey \/ (keyfile = Empty /\ storedkey = Missing)
  BY DEF InTurn, KeyInTurn
<1> QED BY ONLY <1>1, <1>2, <1>3 DEF Serializable

\* Nothing has been read or written at first.
LEMMA InTurnInitially == Init => InTurn
<1> SUFFICES ASSUME Init PROVE InTurn
  OBVIOUS
<1>1. Typed
  BY TypedInitially
<1>2. (\A p \in Procs : pc[p] = "idle") /\ fresh = {}
  BY DEF Init
<1>3. View(Loaded) = stored
  <2>1. cfgfile \in {Missing, Blank} \/ (cfgfile \in EbbflowDaemonConfig /\ cfgfile # Empty)
    BY CliAssumption DEF Init
  <2> QED BY <2>1 DEF Init, Loaded
<1>4. keyfile = storedkey
  BY DEF Init
<1>5. cfgfile = Empty => Loaded = New
  BY DEF Loaded
<1>6. FileInTurn
  BY ONLY <1>3, <1>5 DEF FileInTurn
<1> QED BY <1>1, <1>2, <1>4, <1>6 DEF InTurn, MemInTurn, FreshInTurn, KeyInTurn

Step(p) == (\E c \in Commands : Start(p, c)) \/ Local(p) \/ Remote(p) \/ User(p) \/ Die(p)

\* A step of a process is its own.
LEMMA OwnStep ==
    ASSUME Typed, NEW p \in Procs, Step(p)
    PROVE  /\ \A q \in Procs \ {p} : pc'[q] = pc[q] /\ cmd'[q] = cmd[q] /\ mem'[q] = mem[q] /\ base'[q] = base[q]
           /\ fresh' \subseteq fresh \cup {p}
<1> DEFINE Own(l, k, m, b) == /\ pc' = [pc EXCEPT ![p] = l] /\ cmd' = [cmd EXCEPT ![p] = k]
                              /\ mem' = [mem EXCEPT ![p] = m] /\ base' = [base EXCEPT ![p] = b]
                              /\ fresh' \subseteq fresh \cup {p}
           Moves == \E l, k, m, b : Own(l, k, m, b)
<1>1. /\ pc = [pc EXCEPT ![p] = pc[p]] /\ cmd = [cmd EXCEPT ![p] = cmd[p]]
      /\ mem = [mem EXCEPT ![p] = mem[p]] /\ base = [base EXCEPT ![p] = base[p]]
  BY Same
<1>2. ASSUME NEW r, End(p, r) PROVE Moves
  <2>1. Own("idle", None, None, None)
    BY ONLY <1>2 DEF End
  <2> HIDE DEF Own
  <2> QED BY ONLY <2>1
<1>3. ASSUME \E c \in Commands : Start(p, c) PROVE Moves
  <2>1. PICK c \in Commands : Start(p, c)
    BY <1>3
  <2>2. \E l : pc' = [pc EXCEPT ![p] = l] /\ cmd' = [cmd EXCEPT ![p] = c] /\ UNCHANGED <<mem, base, fresh>>
    BY <2>1 DEF Start, Goto, read
  <2>3. \E l : Own(l, c, mem[p], base[p])
    BY ONLY <1>1, <2>2
  <2> HIDE DEF Own
  <2> QED BY ONLY <2>3
<1>4. ASSUME \/ LoadFails(p) \/ SaveFails(p) \/ CheckFails(p) \/ PromptFails(p) \/ RequestFails(p) \/ PollFails(p)
           \/ SetKeyFails(p) \/ Die(p) \/ FinishSave(p)
      PROVE  Moves
  <2>1. \E r : End(p, r)
    BY <1>4 DEF LoadFails, SaveFails, CheckFails, PromptFails, RequestFails, PollFails, SetKeyFails, Die, FinishSave
  <2> HIDE DEF Moves
  <2> QED BY <1>2, <2>1
<1>5. ASSUME Load(p) PROVE Moves
  <2>1. \/ \E r : End(p, r)
        \/ \E m, b : /\ pc' = [pc EXCEPT ![p] = "save"] /\ mem' = [mem EXCEPT ![p] = m] /\ cmd' = cmd
                     /\ base' = [base EXCEPT ![p] = b] /\ fresh' \subseteq fresh \cup {p}
    BY <1>5 DEF Load, Goto
  <2>2. (\E r : End(p, r)) \/ \E m, b : Own("save", cmd[p], m, b)
    BY ONLY <1>1, <2>1
  <2> HIDE DEF Own
  <2>3. (\E m, b : Own("save", cmd[p], m, b)) => Moves
    OBVIOUS
  <2> HIDE DEF Moves
  <2> QED BY ONLY <1>2, <2>2, <2>3
<1>6. ASSUME \/ BeginSave(p) \/ CheckPermissions(p) \/ Answer(p) \/ RequestKey(p) \/ PollKey(p) \/ BeginKey(p)
           \/ Approve(p)
      PROVE  Moves
  <2>1. /\ (\E l : pc' = [pc EXCEPT ![p] = l]) \/ pc' = pc
        /\ UNCHANGED <<cmd, mem, base>> /\ fresh' \subseteq fresh
    BY <1>6 DEF BeginSave, CheckPermissions, Answer, RequestKey, PollKey, BeginKey, Approve, Goto, read
  <2>2. \E l : pc' = [pc EXCEPT ![p] = l]
    BY ONLY <1>1, <2>1
  <2>3. \E l : Own(l, cmd[p], mem[p], base[p])
    BY ONLY <1>1, <2>1, <2>2
  <2> HIDE DEF Own
  <2> QED BY ONLY <2>3
<1>7. ASSUME FinishKey(p) PROVE Moves
  <2>1. \/ \E r : End(p, r)
        \/ \E m : /\ pc' = [pc EXCEPT ![p] = "save"] /\ mem' = [mem EXCEPT ![p] = m]
                  /\ UNCHANGED <<cmd, base, fresh>>
    BY <1>7 DEF FinishKey, Goto, read
  <2>2. (\E r : End(p, r)) \/ \E m : Own("save", cmd[p], m, base[p])
    BY ONLY <1>1, <2>1
  <2> HIDE DEF Own
  <2>3. (\E m : Own("save", cmd[p], m, base[p])) => Moves
    OBVIOUS
  <2> HIDE DEF Moves
  <2> QED BY ONLY <1>2, <2>2, <2>3
<1>8. Moves
  <2> HIDE DEF Moves
  <2> QED BY <1>3, <1>4, <1>5, <1>6, <1>7 DEF Step, Local, Remote, User
<1>9. /\ pc \in [Procs -> Labels] /\ cmd \in [Procs -> Commands \cup {None}]
      /\ mem \in [Procs -> Outcomes \cup {None}] /\ base = [q \in Procs |-> base[q]]
  BY DEF Typed
<1> QED BY ONLY <1>8, <1>9, p \in Procs

\* Who has read stays up to date in a step of another that does not begin or
\* end a write.
LEMMA FreshStays ==
    ASSUME InTurn, NEW p \in Procs, Step(p), stored' = stored,
           pc[p] # "write", pc'[p] # "write", p \in fresh' => base'[p] = stored /\ \A q \in Procs : ~Writing(q)
    PROVE  FreshInTurn'
<1>1. /\ \A q \in Procs \ {p} : pc'[q] = pc[q] /\ base'[q] = base[q]
      /\ fresh' \subseteq fresh \cup {p}
  BY OwnStep DEF InTurn
<1>2. \A q \in Procs : Writing(q)' <=> Writing(q)
  BY <1>1 DEF Writing
<1>3. fresh \subseteq Procs
  BY DEF InTurn, Typed
<1>4. ASSUME NEW q \in fresh' PROVE base'[q] = stored' /\ \A r \in Procs \ {q} : ~Writing(r)'
  <2>1. CASE q = p
    BY <1>2, <1>4, <2>1
  <2>2. CASE q # p
    <3>1. q \in fresh /\ q \in Procs \ {p}
      BY <1>1, <1>3, <1>4, <2>2
    <3>2. base[q] = stored /\ \A r \in Procs \ {q} : ~Writing(r)
      BY <3>1 DEF InTurn, FreshInTurn
    <3> QED BY ONLY <1>1, <1>2, <3>1, <3>2, stored' = stored
  <2> QED BY <2>1, <2>2
<1> QED BY ONLY <1>4 DEF FreshInTurn

\* What the others will write stays what they promise.
LEMMA MemStays ==
    ASSUME InTurn, NEW p \in Procs, Step(p),
           pc'[p] \in {"save", "write"} => Keeps(mem'[p], cmd'[p], base'[p])
    PROVE  MemInTurn'
<1>1. \A q \in Procs \ {p} : pc'[q] = pc[q] /\ cmd'[q] = cmd[q] /\ mem'[q] = mem[q] /\ base'[q] = base[q]
  BY OwnStep DEF InTurn
<1>2. ASSUME NEW q \in Procs, pc'[q] \in {"save", "write"} PROVE Keeps(mem'[q], cmd'[q], base'[q])
  <2>1. CASE q = p
    BY <1>2, <2>1
  <2>2. CASE q # p
    BY <1>1, <1>2, <2>2 DEF InTurn, MemInTurn
  <2> QED BY <2>1, <2>2
<1> QED BY ONLY <1>2 DEF MemInTurn

\* The file is not written.
LEMMA FileStays ==
    ASSUME InTurn, NEW p \in Procs, Step(p), stored' = stored,
           pc[p] # "write", pc'[p] # "write",
           cfgfile' = cfgfile \/ (cfgfile = Missing /\ cfgfile' = Empty)
    PROVE  FileInTurn'
<1>1. \A q \in Procs \ {p} : pc'[q] = pc[q]
  BY OwnStep DEF InTurn
<1>2. (\A q \in Procs : ~Writing(q)') => \A q \in Procs : ~Writing(q)
  BY <1>1 DEF Writing
<1>3. FileInTurn
  BY DEF InTurn
<1>4. CASE cfgfile' = cfgfile
  <2>1. View(Loaded)' = View(Loaded)
    BY <1>4 DEF View, Loaded, EffectiveIdle, Entry
  <2> QED BY ONLY <1>2, <1>3, <1>4, <2>1, stored' = stored DEF FileInTurn
<1>5. CASE cfgfile = Missing /\ cfgfile' = Empty /\ cfgfile' # cfgfile
  <2>1. Loaded = New
    BY <1>5 DEF Loaded
  <2>2. stored = View(New)
    BY <1>3, <1>5, <2>1, CliAssumption DEF FileInTurn
  <2> QED BY ONLY <1>5, <2>2, stored' = stored DEF FileInTurn
<1> QED BY <1>4, <1>5

\* Every step but those of config.yaml: starting, failing, init up to the key.
LEMMA QuietSteps ==
    ASSUME InTurn, NEW p \in Procs,
           \/ \E c \in Commands : Start(p, c)
           \/ LoadFails(p) \/ SaveFails(p) \/ CheckFails(p) \/ PromptFails(p) \/ RequestFails(p) \/ PollFails(p)
           \/ SetKeyFails(p) \/ CheckPermissions(p) \/ Remote(p) \/ User(p)
           \/ BeginKey(p) \/ FinishKey(p) \/ (Die(p) /\ ~Writing(p))
    PROVE  FileInTurn' /\ MemInTurn' /\ FreshInTurn'
<1>1. Step(p) /\ Typed
  BY DEF Step, Local, Remote, User, InTurn
<1>2. pc \in [Procs -> Labels] /\ mem \in [Procs -> Outcomes \cup {None}] /\ cmd \in [Procs -> Commands \cup {None}]
  BY <1>1 DEF Typed
<1>3. /\ stored' = stored /\ pc[p] # "write" /\ pc'[p] # "write"
      /\ cfgfile' = cfgfile \/ (cfgfile = Missing /\ cfgfile' = Empty)
  <2>1. stored' = stored /\ pc[p] # "write"
    BY DEF Start, LoadFails, SaveFails, CheckFails, PromptFails, RequestFails, PollFails, SetKeyFails,
           CheckPermissions, Remote, User, Answer, Prompts, RequestKey, Approve, PollKey, BeginKey, FinishKey, Die,
           Writing, history
  <2>2. cfgfile' = cfgfile \/ (cfgfile = Missing /\ cfgfile' = Empty)
    BY DEF Start, LoadFails, SaveFails, CheckFails, PromptFails, RequestFails, PollFails, SetKeyFails,
           CheckPermissions, Remote, User, Answer, RequestKey, Approve, PollKey, BeginKey, FinishKey, Die, files
  <2>3. pc'[p] # "write"
    BY <1>2, <2>1 DEF Start, Goto, End, LoadFails, SaveFails, CheckFails, PromptFails, RequestFails, PollFails,
           SetKeyFails, CheckPermissions, Remote, User, Answer, RequestKey, Approve, PollKey, BeginKey, FinishKey, Die
  <2> QED BY <2>1, <2>2, <2>3
<1>4. FileInTurn'
  BY ONLY InTurn, p \in Procs, <1>1, <1>3, FileStays
<1>5. p \notin fresh'
  <2>1. p \in fresh => pc[p] \in {"save", "write"}
    BY <1>1, Same
  <2>2. CASE SaveFails(p) \/ Die(p)
    BY <2>2 DEF SaveFails, Die, End
  <2>3. CASE ~SaveFails(p) /\ ~Die(p)
    <3>1. pc[p] # "save" /\ fresh' \subseteq fresh
      BY <2>3 DEF Start, LoadFails, CheckFails, PromptFails, RequestFails, PollFails, SetKeyFails, read, End,
           CheckPermissions, Remote, User, Answer, Prompts, RequestKey, Approve, PollKey, BeginKey, FinishKey
    <3> QED BY <1>3, <2>1, <3>1
  <2> QED BY <2>2, <2>3
<1>6. FreshInTurn'
  BY ONLY InTurn, p \in Procs, <1>1, <1>3, <1>5, FreshStays
<1>7. pc'[p] = "save" => Keeps(mem'[p], cmd'[p], base'[p])
  <2>1. CASE ~FinishKey(p)
    <3>1. pc'[p] # "save"
      BY <1>2, <2>1 DEF Start, Goto, End, LoadFails, SaveFails, CheckFails, PromptFails, RequestFails, PollFails,
           SetKeyFails, CheckPermissions, Remote, User, Answer, RequestKey, Approve, PollKey, BeginKey, Die
    <3> QED BY <3>1
  <2>2. CASE FinishKey(p)
    <3>1. pc[p] = "keywrite" /\ cmd[p].kind \in {"init", "interactive"} /\ cmd[p] \in Command
      BY <1>1, <2>2, Same, Running DEF FinishKey, Consistent
    <3>2. CASE cmd[p].kind = "init"
      <4>1. pc'[p] = "idle"
        BY <1>2, <2>2, <3>2 DEF FinishKey, End
      <4> QED BY <4>1
    <3>3. CASE cmd[p].kind # "init"
      <4>1. mem'[p] = Save(InitConfig(cmd[p]), "ok") /\ cmd' = cmd
        BY <1>2, <2>2, <3>3 DEF FinishKey
      <4> QED BY <3>1, <3>3, <4>1, InitLemma
    <3> QED BY <3>2, <3>3
  <2> QED BY <2>1, <2>2
<1>8. MemInTurn'
  BY ONLY InTurn, p \in Procs, <1>1, <1>3, <1>7, MemStays
<1> QED BY <1>4, <1>6, <1>8

\* What a command makes of what it reads keeps its promise.
LEMMA ReadKeeps ==
    ASSUME Typed, LimitsFit, NEW p \in Procs, pc[p] = "load", cfgfile # Garbled
    PROVE  Keeps(Outcome(cmd[p], Loaded), cmd[p], View(Loaded))
<1>1. /\ cmd[p] \in Command /\ cmd[p].kind \notin {"init", "interactive"} /\ LimitFits(cmd[p])
  BY Running DEF LimitsFit
<1>2. Loaded \in EbbflowDaemonConfig /\ Unique(Loaded.endpoints)
  BY LoadedSound
<1> QED BY ONLY <1>1, <1>2, OutcomeLemma

\* The configuration is read.
LEMMA InTurnLoad ==
    ASSUME InTurn, LimitsFit, NEW p \in Procs, Load(p)
    PROVE  FileInTurn' /\ MemInTurn' /\ FreshInTurn'
<1> DEFINE o == Outcome(cmd[p], Loaded)
           w == View(Loaded)
<1>1. Typed /\ Step(p)
  BY DEF InTurn, Step, Local
<1>2. pc[p] = "load" /\ cfgfile # Garbled /\ UNCHANGED <<cfgfile, stored>>
  BY DEF Load, files, history
<1>3. Keeps(o, cmd[p], w)
  BY <1>1, <1>2, ReadKeeps
<1>4. \/ /\ mem' = [mem EXCEPT ![p] = o] /\ pc' = [pc EXCEPT ![p] = "save"] /\ cmd' = cmd
         /\ base' = [base EXCEPT ![p] = w]
         /\ fresh' = IF \E q \in Procs : Writing(q) THEN fresh ELSE fresh \cup {p}
      \/ End(p, o.code)
  BY DEF Load, Goto
<1> HIDE DEF o, w
<1>5. pc'[p] \in {"save", "idle"} /\ (pc'[p] = "save" => mem'[p] = o /\ cmd'[p] = cmd[p] /\ base'[p] = w)
  BY <1>1, <1>4 DEF Typed, End
<1>6. p \notin fresh
  BY <1>1, <1>2, Same
<1>7. p \in fresh' => base'[p] = w /\ \A q \in Procs : ~Writing(q)
  BY <1>1, <1>4, <1>6 DEF Typed, End
<1>8. (\A q \in Procs : ~Writing(q)) => w = stored
  BY <1>2, BetweenWrites DEF InTurn, w
<1>9. FileInTurn'
  BY ONLY InTurn, p \in Procs, <1>1, <1>2, <1>5, FileStays
<1>10. FreshInTurn'
  BY ONLY InTurn, p \in Procs, <1>1, <1>2, <1>5, <1>7, <1>8, FreshStays
<1>11. MemInTurn'
  BY ONLY InTurn, p \in Procs, <1>1, <1>3, <1>5, MemStays
<1> QED BY <1>9, <1>10, <1>11

\* The file is truncated: everyone else's reading is out of date.
LEMMA InTurnBegin ==
    ASSUME InTurn, NEW p \in Procs, BeginSave(p)
    PROVE  FileInTurn' /\ MemInTurn' /\ FreshInTurn'
<1>1. Typed /\ Step(p)
  BY DEF InTurn, Step, Local
<1>2. /\ pc[p] = "save" /\ cfgfile' = Empty /\ pc' = [pc EXCEPT ![p] = "write"] /\ fresh' = fresh \cap {p}
      /\ UNCHANGED <<cmd, mem, base, stored>>
  BY DEF BeginSave, Goto, history
<1>3. pc'[p] = "write" /\ \A q \in Procs \ {p} : pc'[q] = pc[q]
  BY <1>1, <1>2 DEF Typed
<1>4. FileInTurn'
  <2>1. Writing(p)'
    BY <1>3 DEF Writing
  <2> QED BY ONLY <1>2, <2>1, p \in Procs DEF FileInTurn
<1>5. FreshInTurn'
  BY <1>2, <1>3 DEF InTurn, FreshInTurn, Writing
<1>6. MemInTurn'
  <2>1. Keeps(mem'[p], cmd'[p], base'[p])
    BY <1>2 DEF InTurn, MemInTurn
  <2> QED BY ONLY InTurn, p \in Procs, <1>1, <2>1, MemStays
<1> QED BY <1>4, <1>5, <1>6

\* A write ends, completed or not: nobody else has read since it began.
LEMMA InTurnFinish ==
    ASSUME InTurn, NEW p \in Procs, FinishSave(p) \/ (Die(p) /\ Writing(p))
    PROVE  FileInTurn' /\ MemInTurn' /\ FreshInTurn'
<1>1. Typed /\ Step(p)
  BY DEF InTurn, Step, Local
<1>2. pc[p] = "write" /\ \E r : End(p, r)
  BY DEF FinishSave, Die, Writing
<1>3. pc'[p] = "idle" /\ fresh' = fresh \ {p}
  BY <1>1, <1>2 DEF End, Typed
<1>4. FreshInTurn'
  <2>1. ASSUME NEW q \in fresh, q # p PROVE FALSE
    BY <1>2, <2>1 DEF InTurn, FreshInTurn, Writing
  <2>2. fresh' = {}
    BY <1>3, <2>1
  <2> QED BY ONLY <2>2 DEF FreshInTurn
<1>5. MemInTurn'
  BY ONLY InTurn, p \in Procs, <1>1, <1>3, MemStays
<1>6. CASE FinishSave(p)
  <2>1. cfgfile' \in {mem[p].cfg, Garbled} /\ stored' = Promise(cmd[p], base[p]).view
    BY <1>6 DEF FinishSave
  <2>2. mem[p] \in Outcomes /\ mem[p].save
    BY <1>1, <1>2, Running
  <2>3. mem[p].cfg \in EbbflowDaemonConfig
    BY ONLY <2>2 DEF Outcomes
  <2>4. View(mem[p].cfg) = stored'
    BY <1>2, <2>1, <2>2 DEF InTurn, MemInTurn, Keeps
  <2>5. CASE cfgfile' = mem[p].cfg
    <3>1. cfgfile' # Empty /\ Loaded' = mem[p].cfg
      BY <2>3, <2>5, CliAssumption DEF Loaded
    <3>2. View(Loaded)' = stored'
      BY ONLY <2>4, <3>1 DEF View, EffectiveIdle, Entry
    <3>3. FileInTurn'
      BY ONLY <3>1, <3>2 DEF FileInTurn
    <3> QED BY <1>4, <1>5, <3>3
  <2>6. CASE cfgfile' = Garbled
    BY <1>4, <1>5, <2>6, CliAssumption DEF FileInTurn
  <2> QED BY <2>1, <2>5, <2>6
<1>7. CASE Die(p) /\ Writing(p)
  <2>1. cfgfile' \in {cfgfile, Garbled} /\ stored' = IF cfgfile = Empty THEN View(New) ELSE stored
    BY <1>7 DEF Die
  <2>2. Garbled # Empty
    BY CliAssumption
  <2>3. ASSUME cfgfile' \notin {Empty, Garbled} PROVE View(Loaded)' = stored'
    <3>1. cfgfile' = cfgfile /\ stored' = stored /\ View(Loaded) = stored
      BY <2>1, <2>3 DEF InTurn, FileInTurn
    <3> QED BY ONLY <3>1 DEF Loaded, View, EffectiveIdle, Entry
  <2>4. cfgfile' = Empty => stored' = View(New)
    BY <2>1, <2>2
  <2>5. FileInTurn'
    BY ONLY <2>3, <2>4 DEF FileInTurn
  <2> QED BY <1>4, <1>5, <2>5
<1> QED BY <1>6, <1>7

\* The key.
LEMMA KeySteps ==
    ASSUME InTurn, NEW p \in Procs, Step(p)
    PROVE  KeyInTurn'
<1>1. Typed
  BY DEF InTurn
<1>2. \A q \in Procs \ {p} : pc'[q] = pc[q]
  BY <1>1, OwnStep
<1>3. pc \in [Procs -> Labels] /\ Garbled \notin {Missing, Empty}
  BY <1>1, CliAssumption DEF Typed
<1>4. ASSUME pc[p] # "keywrite", storedkey' = storedkey,
             keyfile' = keyfile \/ (keyfile = Missing /\ keyfile' = Empty)
      PROVE  KeyInTurn'
  <2>1. (\A q \in Procs : pc'[q] # "keywrite") => \A q \in Procs : pc[q] # "keywrite"
    BY <1>2, <1>4
  <2> QED BY <1>3, <1>4, <2>1 DEF InTurn, KeyInTurn
<1>5. CASE \/ \E c \in Commands : Start(p, c)
           \/ Load(p) \/ BeginSave(p) \/ FinishSave(p) \/ User(p) \/ Remote(p)
  <2>1. UNCHANGED <<keyfile, storedkey>> /\ pc[p] # "keywrite"
    BY <1>5 DEF Start, Load, BeginSave, FinishSave, User, Answer, Prompts, PromptFails, Approve, Remote, RequestKey,
           RequestFails, PollKey, PollFails, Writing, files, history
  <2> QED BY <1>4, <2>1
<1>6. CASE LoadFails(p) \/ SaveFails(p) \/ CheckFails(p) \/ SetKeyFails(p) \/ CheckPermissions(p)
  <2>1. storedkey' = storedkey /\ pc[p] # "keywrite"
        /\ (keyfile' = keyfile \/ (keyfile = Missing /\ keyfile' = Empty))
    BY <1>6 DEF LoadFails, SaveFails, CheckFails, SetKeyFails, CheckPermissions, files, history
  <2> QED BY <1>4, <2>1
<1>7. CASE BeginKey(p)
  <2>1. keyfile' = Empty /\ pc'[p] = "keywrite"
    BY <1>3, <1>7 DEF BeginKey, Goto
  <2> QED BY <2>1 DEF KeyInTurn
<1>8. CASE FinishKey(p)
  <2>1. storedkey' = cmd[p].key /\ keyfile' \in {cmd[p].key, Garbled}
    BY <1>8 DEF FinishKey
  <2> QED BY <1>3, <2>1 DEF KeyInTurn
<1>9. CASE Die(p)
  <2>1. CASE pc[p] = "keywrite"
    <3>1. keyfile' \in {keyfile, Garbled} /\ storedkey' = IF keyfile = Empty THEN Empty ELSE storedkey
      BY <1>9, <2>1 DEF Die
    <3> QED BY <1>3, <3>1 DEF InTurn, KeyInTurn
  <2>2. CASE pc[p] # "keywrite"
    <3>1. keyfile' = keyfile /\ storedkey' = storedkey
      BY <1>9, <2>2 DEF Die
    <3> QED BY <1>4, <2>2, <3>1
  <2> QED BY <2>1, <2>2
<1> QED BY <1>5, <1>6, <1>7, <1>8, <1>9 DEF Step, Local

\* Every step keeps the invariant.
LEMMA InTurnNext == LimitsFit /\ InTurn /\ [Next]_vars => InTurn'
<1> SUFFICES ASSUME LimitsFit, InTurn, [Next]_vars PROVE InTurn'
  OBVIOUS
<1>1. Typed'
  BY TypedNext DEF InTurn
<1>2. CASE UNCHANGED vars
  <2>1. View(Loaded)' = View(Loaded)
    BY <1>2 DEF vars, files, Loaded, View, EffectiveIdle, Entry
  <2>2. UNCHANGED <<cfgfile, keyfile, pc, cmd, mem, base, fresh, stored, storedkey>>
    BY <1>2 DEF vars, files, process, read, history
  <2>3. FileInTurn' /\ FreshInTurn' /\ KeyInTurn'
    BY ONLY InTurn, <2>1, <2>2 DEF InTurn, FileInTurn, FreshInTurn, KeyInTurn, Writing
  <2>4. MemInTurn'
    BY ONLY InTurn, <2>2 DEF InTurn, MemInTurn
  <2> QED BY <1>1, <2>3, <2>4 DEF InTurn
<1>3. ASSUME NEW p \in Procs, Step(p) PROVE InTurn'
  <2>1. KeyInTurn'
    BY <1>3, KeySteps
  <2>2. FileInTurn' /\ MemInTurn' /\ FreshInTurn'
    <3>1. CASE (Die(p) /\ Writing(p)) \/ FinishSave(p)
      BY <3>1, InTurnFinish
    <3>2. CASE Load(p) \/ BeginSave(p)
      BY <3>2, InTurnLoad, InTurnBegin
    <3>3. CASE ~(Die(p) /\ Writing(p)) /\ ~Load(p) /\ ~BeginSave(p) /\ ~FinishSave(p)
      BY <1>3, <3>3, QuietSteps DEF Step, Local
    <3> QED BY <3>1, <3>2, <3>3
  <2> QED BY <1>1, <2>1, <2>2 DEF InTurn
<1> QED BY <1>2, <1>3 DEF Next, Step

\* The exit code of one step.
ExitStep ==
    \A p \in Procs :
        LET found == IF pc[p] = "load" THEN View(Loaded) ELSE base[p]
        IN /\ pc[p] \in {"load", "write"} /\ pc'[p] = "idle"
           /\ result'[p] \in {"ok", "refused"}
           /\ ~EnablesMissing(cmd[p], found)
           => (result'[p] = "ok" <=> Promise(cmd[p], found).ok)

\* Only its own step ends a command, with the code decided when it read.
LEMMA ExitLemma == LimitsFit /\ InTurn /\ [Next]_vars => ExitStep \/ UNCHANGED vars
<1> SUFFICES ASSUME LimitsFit, InTurn, NEW q \in Procs, Step(q), NEW p \in Procs, NEW found,
                    found = IF pc[p] = "load" THEN View(Loaded) ELSE base[p],
                    pc[p] \in {"load", "write"}, pc'[p] = "idle",
                    result'[p] \in {"ok", "refused"}, ~EnablesMissing(cmd[p], found)
             PROVE  result'[p] = "ok" <=> Promise(cmd[p], found).ok
  BY DEF Next, Step, ExitStep
<1>1. Typed
  BY DEF InTurn
<1>2. q = p
  BY <1>1, OwnStep
<1>3. result \in [Procs -> Results] /\ pc \in [Procs -> Labels]
  BY <1>1 DEF Typed
<1>4. Load(p) \/ FinishSave(p)
  <2>1. CASE LoadFails(p) \/ Die(p)
    <3>1. End(p, "failed") \/ End(p, "died")
      BY <2>1 DEF LoadFails, Die
    <3>2. result'[p] \in {"failed", "died"}
      BY <1>3, <3>1 DEF End
    <3> QED BY <3>2
  <2> QED BY <1>2, <2>1
          DEF Step, Local, Remote, User, Start, BeginSave, SaveFails, CheckPermissions, CheckFails, Answer,
              PromptFails, Prompts, RequestKey, RequestFails, PollKey, PollFails, BeginKey, FinishKey, SetKeyFails,
              Approve
<1>5. CASE Load(p)
  <2> DEFINE o == Outcome(cmd[p], Loaded)
  <2>1. /\ cfgfile # Garbled /\ pc[p] = "load"
        /\ pc' = [pc EXCEPT ![p] = "save"] \/ End(p, o.code)
    BY <1>5 DEF Load, Goto
  <2>2. Keeps(o, cmd[p], View(Loaded))
    BY <1>1, <2>1, ReadKeeps
  <2> HIDE DEF o
  <2>3. result'[p] = o.code
    <3>1. pc' # [pc EXCEPT ![p] = "save"]
      BY <1>3
    <3> QED BY <1>3, <2>1, <3>1 DEF End
  <2>4. found = View(Loaded)
    BY <2>1
  <2> QED BY ONLY <2>2, <2>3, <2>4, ~EnablesMissing(cmd[p], found) DEF Keeps
<1>6. CASE FinishSave(p)
  <2>1. pc[p] = "write" /\ End(p, mem[p].code)
    BY <1>6 DEF FinishSave, Writing
  <2>2. Keeps(mem[p], cmd[p], base[p])
    BY <2>1 DEF InTurn, MemInTurn
  <2>3. result'[p] = mem[p].code
    BY <1>3, <2>1 DEF End
  <2>4. found = base[p]
    BY <2>1
  <2> QED BY ONLY <2>2, <2>3, <2>4, ~EnablesMissing(cmd[p], found) DEF Keeps
<1> QED BY <1>4, <1>5, <1>6

-----------------------------------------------------------------------------
(* The theorems.                                                           *)

\* Every variable keeps its type.
THEOREM TypeCorrect == Spec => []TypeOK
BY TypedInitially, TypedNext, TypedImplies, PTL DEF Spec

\* However the commands of any number of shells interleave, fail and die: no
\* file and no configuration about to be written lists a name twice.
THEOREM NamesTheorem == Spec => []UniqueNames
BY TypedInitially, TypedNext, TypedImplies, PTL DEF Spec

\* However commands overlap, fail and die, each takes effect as a whole on what
\* it has read, and only a command that wrote meanwhile is lost.  The hypothesis
\* leaves out the limits of the finding about IdleCapped, for which this is
\* false.
THEOREM SerializableTheorem == LimitsFit => (Spec => []Serializable)
<1> SUFFICES ASSUME LimitsFit PROVE Spec => []Serializable
  OBVIOUS
<1>1. InTurn /\ [Next]_vars => InTurn'
  BY InTurnNext
<1> QED BY <1>1, InTurnInitially, InTurnImplies, PTL DEF Spec

\* A command exits with success exactly if its promise could be kept on what
\* it has read, but for the case of the finding about IdempotentSucceeds.
THEOREM ExitTheorem == LimitsFit => (Spec => ExitHonest)
<1> SUFFICES ASSUME LimitsFit PROVE Spec => [][ExitStep]_vars
  BY DEF ExitHonest, ExitStep
<1>1. InTurn /\ [Next]_vars => InTurn'
  BY InTurnNext
<1>2. InTurn /\ [Next]_vars => [ExitStep]_vars
  BY ExitLemma
<1> QED BY <1>1, <1>2, InTurnInitially, PTL DEF Spec
=============================================================================
