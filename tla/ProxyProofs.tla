----------------------------- MODULE ProxyProofs -----------------------------
(***************************************************************************)
(* For any number of bytes, any buffer and any window: what passes through *)
(* the proxy is neither lost, repeated nor reordered, and the end of a     *)
(* stream is reported only behind its last byte.                           *)
(***************************************************************************)
EXTENDS Proxy, SequenceTheorems, TLAPS

-----------------------------------------------------------------------------
(* Runs of consecutive bytes.                                              *)

\* s holds bytes that follow byte o, in order.
Consecutive(s, o) == \A i \in 1 .. Len(s) : s[i] = o + i

\* Two adjacent runs make one.
LEMMA ConcatAdjacent ==
    ASSUME NEW S, NEW a \in Seq(S), NEW b \in Seq(S), NEW o \in Nat,
           Consecutive(a, o), Consecutive(b, o + Len(a))
    PROVE  a \o b \in Seq(S) /\ Len(a \o b) = Len(a) + Len(b) /\ Consecutive(a \o b, o)
<1>1. Len(a) \in Nat /\ Len(b) \in Nat
  OBVIOUS
<1>2. /\ a \o b \in Seq(S) /\ Len(a \o b) = Len(a) + Len(b)
      /\ \A i \in 1 .. Len(a) + Len(b) : (a \o b)[i] = IF i <= Len(a) THEN a[i] ELSE b[i - Len(a)]
  BY ConcatProperties
<1>3. ASSUME NEW i \in 1 .. Len(a) + Len(b) PROVE (a \o b)[i] = o + i
  <2>1. CASE i <= Len(a)
    BY <1>1, <1>2, <2>1 DEF Consecutive
  <2>2. CASE i > Len(a)
    <3>1. i - Len(a) \in 1 .. Len(b) /\ o + Len(a) + (i - Len(a)) = o + i
      BY <1>1, <2>2
    <3>2. b[i - Len(a)] = o + Len(a) + (i - Len(a))
      BY <3>1 DEF Consecutive
    <3> QED BY <1>1, <1>2, <2>2, <3>1, <3>2
  <2> QED BY <1>1, <2>1, <2>2
<1> QED BY ONLY <1>2, <1>3 DEF Consecutive

\* A run from the first byte on.
LEMMA FromFirst ==
    ASSUME NEW S, NEW s \in Seq(S), Consecutive(s, 0)
    PROVE  s = [i \in 1 .. Len(s) |-> i]
<1>1. Len(s) \in Nat /\ s \in [1 .. Len(s) -> S]
  OBVIOUS
<1>2. \A i \in 1 .. Len(s) : s[i] = i
  BY <1>1 DEF Consecutive
<1> QED BY ONLY <1>1, <1>2

\* The operations of the model on sequences, by name.
Cat(a, b) == a \o b
Take(s, k) == SubSeq(s, 1, k)
Drop(s, k) == SubSeq(s, k + 1, Len(s))

\* s holds the l bytes after byte o.
Run(s, o, l) == s \in Seq(1 .. MaxBytes) /\ Len(s) = l /\ Consecutive(s, o)

\* From here on a sequence is known by the run it holds.  Two adjacent runs.
LEMMA RunConcat ==
    ASSUME NEW a, NEW b, NEW o \in Nat, NEW l \in Nat, NEW m \in Nat,
           Run(a, o, l), Run(b, o + l, m)
    PROVE  Run(Cat(a, b), o, l + m)
BY ConcatAdjacent DEF Run, Cat

\* What the two parts of a cut sequence hold.
LEMMA CutFacts ==
    ASSUME NEW S, NEW s \in Seq(S), NEW k \in 0 .. Len(s)
    PROVE  /\ Take(s, k) \in Seq(S) /\ Len(Take(s, k)) = k
           /\ \A i \in 1 .. k : Take(s, k)[i] = s[i]
           /\ Drop(s, k) \in Seq(S) /\ Len(Drop(s, k)) = Len(s) - k
           /\ \A i \in 1 .. Len(s) - k : Drop(s, k)[i] = s[k + i]
<1>1. /\ Take(s, k) \in Seq(S) /\ Len(Take(s, k)) = k
      /\ \A i \in 1 .. k : Take(s, k)[i] = s[i]
  BY DEF Take
<1>2. /\ Drop(s, k) \in Seq(S) /\ Len(Drop(s, k)) = Len(s) - k
      /\ \A i \in 1 .. Len(s) - k : Drop(s, k)[i] = s[k + i]
  BY DEF Drop
<1> QED BY ONLY <1>1, <1>2

\* A run cut in two is two adjacent runs.
LEMMA RunCut ==
    ASSUME NEW s, NEW o \in Nat, NEW l \in Nat, Run(s, o, l), NEW k \in 0 .. l
    PROVE  Run(Take(s, k), o, k) /\ Run(Drop(s, k), o + k, l - k)
<1>1. /\ s \in Seq(1 .. MaxBytes) /\ Len(s) = l /\ k \in 0 .. Len(s)
      /\ \A i \in 1 .. l : s[i] = o + i
  BY DEF Run, Consecutive
<1>2. /\ Take(s, k) \in Seq(1 .. MaxBytes) /\ Len(Take(s, k)) = k
      /\ \A i \in 1 .. k : Take(s, k)[i] = s[i]
  BY ONLY <1>1, CutFacts
<1>3. /\ Drop(s, k) \in Seq(1 .. MaxBytes) /\ Len(Drop(s, k)) = l - k
      /\ \A i \in 1 .. l - k : Drop(s, k)[i] = s[k + i]
  BY ONLY <1>1, CutFacts
<1>4. \A i \in 1 .. k : s[i] = o + i
  BY <1>1
<1>5. \A i \in 1 .. l - k : s[k + i] = o + k + i
  BY <1>1
<1>6. Run(Take(s, k), o, k)
  BY ONLY <1>2, <1>4 DEF Run, Consecutive
<1>7. Run(Drop(s, k), o + k, l - k)
  BY ONLY <1>3, <1>5 DEF Run, Consecutive
<1> QED BY ONLY <1>6, <1>7

\* A run from the first byte on is determined by its length.
LEMMA RunWhole ==
    ASSUME NEW s, NEW l \in Nat, Run(s, 0, l)
    PROVE  s = [i \in 1 .. l |-> i]
BY FromFirst DEF Run

\* The empty run is the empty sequence.
LEMMA RunEmpty == \A s, o : Run(s, o, 0) <=> s = <<>>
<1>1. \A o : Run(<<>>, o, 0)
  BY DEF Run, Consecutive
<1>2. \A s, o : Run(s, o, 0) => s = <<>>
  BY DEF Run
<1> QED BY <1>1, <1>2

\* A run is a sequence of its length.
LEMMA RunLength == \A s, o, l : Run(s, o, l) => Len(s) = l /\ l \in Nat /\ s \in Seq(1 .. MaxBytes)
BY DEF Run
-----------------------------------------------------------------------------
(* The inductive invariant.                                                *)

Typed ==
    /\ sent \in [Directions -> 0 .. MaxBytes] /\ taken \in [Directions -> 0 .. MaxBytes]
    /\ closed \subseteq Directions /\ broken \subseteq Sockets /\ readers \subseteq Directions
    /\ buf \in [Directions -> Seq(1 .. MaxBytes)]
    /\ staged \in [Directions -> Seq(1 .. MaxBytes)]
    /\ handed \in [Directions -> Seq(1 .. MaxBytes)]
    /\ consumed \in [Directions -> Nat]
    /\ pc \in [Directions -> {"read", "write", "flush", "eof", "failed"}]
    /\ mode \in {"running", "draining", "ended"}

\* What is handed over, what the writer holds and what the buffer holds are
\* adjacent runs, together the bytes taken.
Split(d, h, s, b) ==
    /\ Run(handed[d], 0, h) /\ Run(staged[d], h, s) /\ Run(buf[d], h + s, b)
    /\ taken[d] = h + s + b

InOrder(d) ==
    /\ \E h, s, b \in Nat : Split(d, h, s, b)
    /\ taken[d] <= sent[d]
    /\ consumed[d] <= Len(handed[d])

\* Where the loop reads, or saw the end, nothing is on its way.  Only the TLS
\* writer holds anything back.
Emptied(d) ==
    /\ pc[d] \in {"read", "flush", "eof"} => buf[d] = <<>>
    /\ pc[d] \in {"read", "eof"} \/ ~Buffers(d) => staged[d] = <<>>
    /\ pc[d] = "eof" => d \in closed /\ taken[d] = sent[d]

Inv == Typed /\ \A d \in Directions : InOrder(d) /\ Emptied(d)

\* The invariant and the three properties.
LEMMA InvImplies == Inv => TypeOK /\ NoLossInside /\ EofComplete
<1> SUFFICES ASSUME Inv PROVE TypeOK /\ NoLossInside /\ EofComplete
  OBVIOUS
<1>1. TypeOK
  BY DEF Inv, Typed, InOrder, TypeOK, Bytes
<1>2. ASSUME NEW d \in Directions
      PROVE  handed[d] \o staged[d] \o buf[d] = [i \in 1 .. taken[d] |-> i]
  <2>1. PICK h, s, b \in Nat : Split(d, h, s, b)
    BY DEF Inv, InOrder
  <2>2. /\ Run(handed[d], 0, h) /\ Run(staged[d], 0 + h, s) /\ Run(buf[d], 0 + (h + s), b)
        /\ taken[d] = h + s + b
    BY <2>1 DEF Split
  <2>3. Run(Cat(handed[d], staged[d]), 0, h + s)
    BY <2>2, RunConcat
  <2>4. Run(Cat(Cat(handed[d], staged[d]), buf[d]), 0, taken[d])
    BY <2>2, <2>3, RunConcat
  <2>5. Cat(Cat(handed[d], staged[d]), buf[d]) = [i \in 1 .. taken[d] |-> i]
    BY <2>2, <2>4, RunWhole
  <2> QED BY <2>5 DEF Cat
<1>3. ASSUME NEW d \in Directions, pc[d] = "eof"
      PROVE  handed[d] = [i \in 1 .. sent[d] |-> i]
  <2>1. PICK h, s, b \in Nat : Split(d, h, s, b)
    BY DEF Inv, InOrder
  <2>2. staged[d] = <<>> /\ buf[d] = <<>> /\ taken[d] = sent[d]
    BY <1>3 DEF Inv, Emptied
  <2>3. s = 0 /\ b = 0
    BY <2>1, <2>2, RunLength DEF Split
  <2>4. Run(handed[d], 0, sent[d]) /\ sent[d] \in Nat
    BY <2>1, <2>2, <2>3 DEF Split
  <2> QED BY <2>4, RunWhole
<1> QED BY <1>1, <1>2, <1>3 DEF NoLossInside, EofComplete

\* A new proxy has moved nothing.
LEMMA InvInit == Init => Inv
<1> SUFFICES ASSUME Init PROVE Inv
  OBVIOUS
<1>1. Typed
  BY ProxyAssumption DEF Init, Typed
<1>2. ASSUME NEW d \in Directions PROVE InOrder(d) /\ Emptied(d)
  <2>1. Split(d, 0, 0, 0)
    BY RunEmpty DEF Init, Split
  <2> QED BY <2>1 DEF Init, InOrder, Emptied
<1> QED BY <1>1, <1>2 DEF Inv

\* A step of one direction leaves the other alone.
LEMMA OneDirection ==
    ASSUME Inv, Typed', NEW d \in Directions, InOrder(d)', Emptied(d)', closed \subseteq closed',
           \A e \in Directions \ {d} :
               /\ handed'[e] = handed[e] /\ staged'[e] = staged[e] /\ buf'[e] = buf[e]
               /\ taken'[e] = taken[e] /\ sent'[e] = sent[e] /\ consumed'[e] = consumed[e]
               /\ pc'[e] = pc[e]
    PROVE  Inv'
<1>1. ASSUME NEW e \in Directions \ {d} PROVE InOrder(e)' /\ Emptied(e)'
  <2>1. InOrder(e) /\ Emptied(e)
    BY DEF Inv
  <2>2. /\ handed'[e] = handed[e] /\ staged'[e] = staged[e] /\ buf'[e] = buf[e]
        /\ taken'[e] = taken[e] /\ sent'[e] = sent[e] /\ consumed'[e] = consumed[e]
        /\ pc'[e] = pc[e]
    OBVIOUS
  <2>3. PICK h, s, b \in Nat : Split(e, h, s, b)
    BY <2>1 DEF InOrder
  <2>4. Split(e, h, s, b)'
    BY ONLY <2>2, <2>3 DEF Split
  <2>5. InOrder(e)'
    BY ONLY <2>1, <2>2, <2>3, <2>4 DEF InOrder
  <2>6. Emptied(e)'
    BY ONLY <2>1, <2>2, closed \subseteq closed' DEF Emptied
  <2> QED BY ONLY <2>5, <2>6
<1> QED BY <1>1 DEF Inv

\* The parties send, close, read and break.
LEMMA InvPeers ==
    ASSUME Inv, NEW d \in Directions, Send(d) \/ Close(d) \/ Consume(d)
    PROVE  Inv'
<1>1. Typed /\ InOrder(d) /\ Emptied(d)
  BY DEF Inv
<1>2. UNCHANGED <<broken, readers, taken, buf, staged, handed, pc, mode>>
  BY DEF Send, Close, Consume, stream
<1>3. CASE Send(d)
  <2>1. sent' = [sent EXCEPT ![d] = sent[d] + 1] /\ sent[d] < MaxBytes /\ d \notin closed
        /\ UNCHANGED <<closed, consumed>>
    BY <1>3 DEF Send
  <2>2. Typed'
    BY <1>1, <1>2, <2>1, ProxyAssumption DEF Typed
  <2>3. InOrder(d)' /\ Emptied(d)'
    BY <1>1, <1>2, <2>1 DEF InOrder, Split, Emptied, Typed
  <2> QED BY <1>1, <1>2, <2>1, <2>2, <2>3, OneDirection DEF Typed
<1>4. CASE Close(d)
  <2>1. closed' = closed \cup {d} /\ UNCHANGED <<sent, consumed>>
    BY <1>4 DEF Close
  <2>2. Typed'
    BY <1>1, <1>2, <2>1 DEF Typed
  <2>3. InOrder(d)' /\ Emptied(d)'
    BY <1>1, <1>2, <2>1 DEF InOrder, Split, Emptied
  <2> QED BY <1>1, <1>2, <2>1, <2>2, <2>3, OneDirection
<1>5. CASE Consume(d)
  <2>1. consumed' = [consumed EXCEPT ![d] = consumed[d] + 1] /\ consumed[d] < Len(handed[d])
        /\ UNCHANGED <<closed, sent>>
    BY <1>5 DEF Consume
  <2>2. Typed'
    BY <1>1, <1>2, <2>1 DEF Typed
  <2>3. InOrder(d)' /\ Emptied(d)'
    BY <1>1, <1>2, <2>1 DEF InOrder, Split, Emptied, Typed
  <2> QED BY <1>1, <1>2, <2>1, <2>2, <2>3, OneDirection DEF Typed
<1> QED BY <1>3, <1>4, <1>5

\* A direction ends, by the end of its stream or by an error.
LEMMA InvDone ==
    ASSUME Inv, NEW d \in Directions, ReadEof(d) \/ ReadFails(d) \/ WriteFails(d)
    PROVE  Inv'
<1>1. Typed /\ InOrder(d) /\ Emptied(d)
  BY DEF Inv
<1>2. UNCHANGED <<sent, closed, broken, consumed, readers, taken, buf, staged, handed>>
  BY DEF ReadEof, ReadFails, WriteFails, peers, stream
<1>3. PICK how \in {"eof", "failed"} :
        /\ Done(d, how)
        /\ how = "eof" => pc[d] = "read" /\ d \in closed /\ taken[d] = sent[d]
  BY DEF ReadEof, ReadFails, WriteFails
<1>4. pc' = [pc EXCEPT ![d] = how] /\ mode' = "ended"
  BY <1>3 DEF Done
<1>5. Typed'
  BY <1>1, <1>2, <1>4 DEF Typed
<1>6. InOrder(d)'
  BY <1>1, <1>2 DEF InOrder, Split
<1>7. Emptied(d)'
  BY <1>1, <1>2, <1>3, <1>4 DEF Emptied, Typed
<1>8. \A e \in Directions \ {d} : pc'[e] = pc[e]
  BY <1>1, <1>4 DEF Typed
<1> QED BY <1>2, <1>5, <1>6, <1>7, <1>8, OneDirection

\* read: the buffer and the writer are empty, and the next run is taken.
LEMMA InvRead ==
    ASSUME Inv, NEW d \in Directions, Read(d)
    PROVE  Inv'
<1>1. Typed /\ InOrder(d) /\ Emptied(d)
  BY DEF Inv
<1>2. /\ pc[d] = "read" /\ pc' = [pc EXCEPT ![d] = "write"]
      /\ UNCHANGED <<sent, closed, broken, consumed, readers, staged, handed, mode>>
  BY DEF Read, peers
<1>3. PICK n \in 1 .. BufSize :
        /\ taken[d] + n <= sent[d]
        /\ buf' = [buf EXCEPT ![d] = [i \in 1 .. n |-> taken[d] + i]]
        /\ taken' = [taken EXCEPT ![d] = taken[d] + n]
  BY DEF Read
<1>4. n \in Nat /\ taken[d] \in Nat /\ sent[d] \in 0 .. MaxBytes /\ MaxBytes \in Nat
  BY <1>1, <1>3, ProxyAssumption DEF Typed
<1> DEFINE b == [i \in 1 .. n |-> taken[d] + i]
<1>5. Run(b, taken[d], n)
  <2>1. \A i \in 1 .. n : taken[d] + i \in 1 .. MaxBytes
    BY <1>3, <1>4
  <2>2. b \in Seq(1 .. MaxBytes) /\ Len(b) = n
    BY <1>4, <2>1
  <2> QED BY <2>2 DEF Run, Consecutive
<1>6. buf'[d] = b /\ taken'[d] = taken[d] + n /\ pc'[d] = "write"
  BY <1>1, <1>2, <1>3 DEF Typed
<1>7. buf' \in [Directions -> Seq(1 .. MaxBytes)]
  BY <1>1, <1>3, <1>5, RunLength DEF Typed
<1>8. \A e \in Directions \ {d} : buf'[e] = buf[e] /\ taken'[e] = taken[e] /\ pc'[e] = pc[e]
  BY <1>1, <1>2, <1>3 DEF Typed
<1> HIDE DEF b
<1>9. PICK h \in Nat : Run(handed[d], 0, h) /\ Run(staged[d], h, 0) /\ taken[d] = h + 0 /\ staged[d] = <<>>
  <2>1. PICK h, s, x \in Nat : Split(d, h, s, x)
    BY <1>1 DEF InOrder
  <2>2. staged[d] = <<>> /\ buf[d] = <<>>
    BY <1>1, <1>2 DEF Emptied
  <2>3. s = 0 /\ x = 0
    BY <2>1, <2>2, RunLength DEF Split
  <2> QED BY <2>1, <2>2, <2>3 DEF Split
<1>10. Typed'
  <2>1. taken' \in [Directions -> 0 .. MaxBytes]
    BY <1>1, <1>3, <1>4 DEF Typed
  <2> QED BY <1>1, <1>2, <1>7, <2>1 DEF Typed
<1>11. Split(d, h, 0, n)'
  BY <1>2, <1>5, <1>6, <1>9 DEF Split
<1>12. InOrder(d)'
  BY <1>1, <1>2, <1>3, <1>4, <1>6, <1>11 DEF InOrder
<1>13. Emptied(d)'
  BY <1>2, <1>6, <1>9 DEF Emptied
<1> QED BY <1>2, <1>8, <1>10, <1>12, <1>13, OneDirection

\* A step that passes bytes on: handed over, held and buffered become H, S, B.
LEMMA PassedOn ==
    ASSUME Inv, NEW d \in Directions, NEW H, NEW S, NEW B, NEW p \in {"read", "write", "flush"},
           handed' = [handed EXCEPT ![d] = H], staged' = [staged EXCEPT ![d] = S],
           buf' = [buf EXCEPT ![d] = B], pc' = [pc EXCEPT ![d] = p],
           UNCHANGED <<sent, closed, broken, consumed, readers, taken, mode>>,
           NEW h \in Nat, NEW s \in Nat, NEW b \in Nat,
           Run(H, 0, h), Run(S, h, s), Run(B, h + s, b),
           Len(handed[d]) <= h, taken[d] = h + s + b,
           p # "write" => b = 0, p = "read" \/ ~Buffers(d) => s = 0
    PROVE  Inv'
<1>1. Typed /\ InOrder(d)
  BY DEF Inv
<1>2. /\ H \in Seq(1 .. MaxBytes) /\ S \in Seq(1 .. MaxBytes) /\ B \in Seq(1 .. MaxBytes)
      /\ Len(H) = h /\ (s = 0 => S = <<>>) /\ (b = 0 => B = <<>>)
  BY RunLength, RunEmpty
<1>3. Typed'
  BY <1>1, <1>2 DEF Typed
<1>4. handed'[d] = H /\ staged'[d] = S /\ buf'[d] = B /\ pc'[d] = p
  BY <1>1 DEF Typed
<1>5. Split(d, h, s, b)'
  BY <1>4 DEF Split
<1>6. consumed[d] <= h /\ taken[d] <= sent[d]
  <2>1. Len(handed[d]) \in Nat /\ consumed[d] \in Nat /\ consumed[d] <= Len(handed[d])
    BY <1>1 DEF Typed, InOrder
  <2> QED BY <1>1, <2>1 DEF InOrder
<1>7. InOrder(d)'
  BY <1>2, <1>4, <1>5, <1>6 DEF InOrder
<1>8. Emptied(d)'
  BY <1>2, <1>4 DEF Emptied
<1>9. \A e \in Directions \ {d} : /\ handed'[e] = handed[e] /\ staged'[e] = staged[e]
                                  /\ buf'[e] = buf[e] /\ pc'[e] = pc[e]
  BY <1>1 DEF Typed
<1> QED BY <1>3, <1>7, <1>8, <1>9, OneDirection

\* What the writer accepts joins what it holds, and the first k bytes of both
\* are handed over: all of them if it holds nothing back.
LEMMA AcceptSome ==
    ASSUME Inv, NEW d \in Directions, NEW chunk, NEW m \in Nat, NEW o \in Nat,
           Run(chunk, o, m), Accept(d, chunk)
    PROVE  \E k \in 0 .. Len(Cat(staged[d], chunk)) :
             /\ handed' = [handed EXCEPT ![d] = Cat(handed[d], Take(Cat(staged[d], chunk), k))]
             /\ staged' = [staged EXCEPT ![d] = Drop(Cat(staged[d], chunk), k)]
             /\ ~Buffers(d) => k = Len(Cat(staged[d], chunk))
<1>1. CASE Buffers(d)
  BY <1>1 DEF Accept, Cat, Take, Drop
<1>2. CASE ~Buffers(d)
  <2>1. handed' = [handed EXCEPT ![d] = Cat(handed[d], chunk)] /\ staged' = staged
    BY <1>2 DEF Accept, Cat
  <2>2. staged[d] = <<>> /\ staged \in [Directions -> Seq(1 .. MaxBytes)]
    BY <1>2 DEF Inv, Typed, Emptied
  <2>3. chunk \in Seq(1 .. MaxBytes) /\ Len(chunk) = m
    BY RunLength
  <2>4. Cat(staged[d], chunk) = chunk
    BY <2>2, <2>3, ConcatEmptySeq DEF Cat
  <2>5. Take(chunk, m) = chunk
    BY ONLY <2>3, SubSeqFull DEF Take
  <2>6. Drop(chunk, m) = <<>>
    <3>1. m + 1 \in Int /\ m \in Int /\ m < m + 1
      OBVIOUS
    <3> QED BY ONLY <2>3, <3>1, SubSeqEmpty DEF Drop
  <2>7. staged' = [staged EXCEPT ![d] = <<>>]
    BY <2>1, <2>2
  <2>8. m \in 0 .. m
    OBVIOUS
  <2> QED BY ONLY <2>1, <2>3, <2>4, <2>5, <2>6, <2>7, <2>8
<1> QED BY <1>1, <1>2

\* write_all: a piece of the buffer is accepted by the writer.
LEMMA InvWrite ==
    ASSUME Inv, NEW d \in Directions, Write(d)
    PROVE  Inv'
<1>1. Typed /\ InOrder(d)
  BY DEF Inv
<1>2. UNCHANGED <<sent, closed, broken, consumed, readers, taken, mode>>
  BY DEF Write, peers
<1>3. PICK n \in 1 .. Len(buf[d]) :
        /\ Accept(d, Take(buf[d], n))
        /\ buf' = [buf EXCEPT ![d] = Drop(buf[d], n)]
        /\ pc' = [pc EXCEPT ![d] = IF n = Len(buf[d]) THEN "flush" ELSE "write"]
  BY DEF Write, Take, Drop
<1>4. PICK h, s, b \in Nat : Split(d, h, s, b)
  BY <1>1 DEF InOrder
<1>5. /\ Run(handed[d], 0, h) /\ Run(staged[d], h, s) /\ Run(buf[d], h + s, b)
      /\ taken[d] = h + s + b /\ Len(buf[d]) = b /\ Len(handed[d]) = h
  BY <1>4, RunLength DEF Split
<1>6. n \in 0 .. b /\ n \in Nat /\ h + s \in Nat
  BY <1>4, <1>5
<1>7. Run(Take(buf[d], n), h + s, n) /\ Run(Drop(buf[d], n), h + s + n, b - n)
  BY <1>4, <1>5, <1>6, RunCut
<1> DEFINE held == Cat(staged[d], Take(buf[d], n))
           p == IF n = b THEN "flush" ELSE "write"
<1> HIDE DEF p
<1>8. Run(held, h, s + n) /\ Len(held) = s + n
  <2>1. h \in Nat /\ s \in Nat /\ n \in Nat
    BY <1>4, <1>6
  <2>2. Run(held, h, s + n)
    BY ONLY <1>5, <1>7, <2>1, RunConcat
  <2> QED BY ONLY <2>2, RunLength
<1>9. PICK k \in 0 .. s + n :
        /\ handed' = [handed EXCEPT ![d] = Cat(handed[d], Take(held, k))]
        /\ staged' = [staged EXCEPT ![d] = Drop(held, k)]
        /\ ~Buffers(d) => k = s + n
  BY <1>3, <1>6, <1>7, <1>8, AcceptSome
<1>10. k \in Nat /\ s + n \in Nat /\ s + n - k \in Nat
  BY <1>4, <1>6, <1>9
<1>11. Run(Take(held, k), h, k) /\ Run(Drop(held, k), h + k, s + n - k)
  <2>1. h \in Nat /\ k \in 0 .. s + n
    BY <1>4, <1>9
  <2> HIDE DEF held
  <2>2. \A l \in Nat : Run(held, h, l) /\ k \in 0 .. l
                         => Run(Take(held, k), h, k) /\ Run(Drop(held, k), h + k, l - k)
    BY ONLY <2>1, RunCut
  <2> QED BY ONLY <1>8, <1>10, <2>1, <2>2
<1>12. Run(Cat(handed[d], Take(held, k)), 0, h + k)
  <2>1. Run(Take(held, k), 0 + h, k)
    BY <1>4, <1>11
  <2> QED BY <1>4, <1>5, <1>10, <2>1, RunConcat
<1> HIDE DEF held
<1>13. /\ h + k \in Nat /\ b - n \in Nat /\ h <= h + k
       /\ h + s + n = (h + k) + (s + n - k) /\ h + s + b = (h + k) + (s + n - k) + (b - n)
       /\ p \in {"read", "write", "flush"} /\ (p # "write" => b - n = 0) /\ p # "read"
  BY <1>4, <1>6, <1>10 DEF p
<1>14. pc' = [pc EXCEPT ![d] = p]
  BY <1>3, <1>5 DEF p
<1>15. Run(Drop(buf[d], n), (h + k) + (s + n - k), b - n)
  BY ONLY <1>7, <1>13
<1>16. ~Buffers(d) => s + n - k = 0
  BY <1>9, <1>10
<1>17. Len(handed[d]) <= h + k /\ taken[d] = (h + k) + (s + n - k) + (b - n)
  BY ONLY <1>5, <1>13
<1> QED BY <1>2, <1>3, <1>9, <1>10, <1>11, <1>12, <1>13, <1>14, <1>15, <1>16, <1>17, PassedOn

\* flush: what the writer holds is handed over, in pieces.
LEMMA InvFlush ==
    ASSUME Inv, NEW d \in Directions, Flush(d)
    PROVE  Inv'
<1>1. Typed /\ InOrder(d) /\ Emptied(d)
  BY DEF Inv
<1>2. pc[d] = "flush" /\ UNCHANGED <<sent, closed, broken, consumed, readers, taken, buf, mode>>
  BY DEF Flush, peers
<1>3. PICK h, s, b \in Nat : Split(d, h, s, b)
  BY <1>1 DEF InOrder
<1>4. /\ Run(handed[d], 0, h) /\ Run(staged[d], h, s) /\ Run(buf[d], h + s, b)
      /\ taken[d] = h + s + b /\ Len(handed[d]) = h /\ Len(staged[d]) = s
  BY <1>3, RunLength DEF Split
<1>5. b = 0 /\ buf' = [buf EXCEPT ![d] = buf[d]]
  BY <1>1, <1>2, <1>4, RunLength DEF Typed, Emptied
<1>6. CASE staged[d] = <<>> /\ pc' = [pc EXCEPT ![d] = "read"] /\ UNCHANGED <<staged, handed>>
  <2>1. handed' = [handed EXCEPT ![d] = handed[d]] /\ staged' = [staged EXCEPT ![d] = staged[d]]
    BY <1>1, <1>6 DEF Typed
  <2>2. s = 0 /\ h <= h
    BY <1>3, <1>4, <1>6
  <2> QED BY <1>2, <1>3, <1>4, <1>5, <1>6, <2>1, <2>2, PassedOn
<1>7. ASSUME NEW n \in 1 .. Len(staged[d]), UNCHANGED pc,
             handed' = [handed EXCEPT ![d] = Cat(handed[d], Take(staged[d], n))],
             staged' = [staged EXCEPT ![d] = Drop(staged[d], n)]
      PROVE  Inv'
  <2>1. n \in 1 .. s /\ n \in 0 .. s /\ n \in Nat
    BY <1>3, <1>4, <1>7
  <2>2. Buffers(d)
    <3>1. staged[d] # <<>>
      BY <1>7
    <3> QED BY <1>1, <3>1 DEF Emptied
  <2>3. Run(Take(staged[d], n), 0 + h, n) /\ Run(Drop(staged[d], n), h + n, s - n)
    BY <1>3, <1>4, <2>1, RunCut
  <2>4. Run(Cat(handed[d], Take(staged[d], n)), 0, h + n)
    BY <1>3, <1>4, <2>1, <2>3, RunConcat
  <2>5. /\ h + n \in Nat /\ s - n \in Nat /\ h <= h + n
        /\ h + s = (h + n) + (s - n) /\ h + s + b = (h + n) + (s - n) + b
    BY <1>3, <2>1
  <2>6. Run(buf[d], (h + n) + (s - n), b) /\ taken[d] = (h + n) + (s - n) + b
    BY ONLY <1>4, <2>5
  <2>7. Len(handed[d]) <= h + n
    BY ONLY <1>4, <2>5
  <2>8. pc' = [pc EXCEPT ![d] = "flush"]
    BY <1>1, <1>2, <1>7 DEF Typed
  <2> QED BY <1>2, <1>3, <1>5, <1>7, <2>2, <2>3, <2>4, <2>5, <2>6, <2>7, <2>8, PassedOn
<1> QED BY <1>6, <1>7 DEF Flush, Cat, Take, Drop

\* Every step of the proxy and its parties keeps the invariant.
LEMMA InvNext == Inv /\ [Next]_vars => Inv'
<1> SUFFICES ASSUME Inv, [Next]_vars PROVE Inv'
  OBVIOUS
<1>1. CASE (\E s \in Sockets : Break(s)) \/ Signalled \/ Abort \/ UNCHANGED vars
  <2>1. UNCHANGED <<sent, closed, consumed, readers, taken, buf, staged, handed, pc>>
    BY <1>1 DEF Break, Signalled, Abort, vars, peers, stream
  <2>2. broken' \subseteq Sockets /\ mode' \in {"running", "draining", "ended"}
    BY <1>1 DEF Break, Signalled, Abort, vars, peers, Inv, Typed
  <2>3. Typed'
    BY <2>1, <2>2 DEF Inv, Typed
  <2> QED BY <2>1, <2>3 DEF Inv, InOrder, Split, Emptied
<1> QED BY <1>1, InvPeers, InvDone, InvRead, InvWrite, InvFlush DEF Next, Copy

-----------------------------------------------------------------------------
(* The theorems.                                                           *)

\* The invariant holds in every reachable state of the proxy.
THEOREM Invariant == Spec => []Inv
BY InvInit, InvNext, PTL DEF Spec

\* Every variable of the proxy keeps its type.
THEOREM TypeCorrect == Spec => []TypeOK
BY Invariant, InvImplies, PTL

\* However the reads, the writes and the flushes cut the stream, and wherever
\* the proxy is stopped: handed over, held by the writer and buffered are
\* exactly the bytes read, each once and in order.
THEOREM NoLossTheorem == Spec => []NoLossInside
BY Invariant, InvImplies, PTL

\* A direction that ended at the end of its stream had handed over all that
\* its source ever sent.
THEOREM EofTheorem == Spec => []EofComplete
BY Invariant, InvImplies, PTL
=============================================================================
