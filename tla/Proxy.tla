-------------------------------- MODULE Proxy --------------------------------
(***************************************************************************)
(* The bytes of one proxied connection: proxy, copy_bytes_ez and           *)
(* proxy_data of src/daemon/connection.rs.                                 *)
(*                                                                         *)
(* Two futures copy, one per direction: read into a buffer, write all of   *)
(* it, flush, again.  The first one that ends, by end of file or an error, *)
(* ends the proxy and drops both sockets; so does the abort that follows a *)
(* stop signal after a delay.  The TLS writer to Ebbflow may keep what it  *)
(* accepts until it is flushed; the TCP writer does not.  What is handed   *)
(* over to the kernel is the destination's to read.                        *)
(*                                                                         *)
(* A byte is its position in the stream of its source.                     *)
(***************************************************************************)
EXTENDS Integers, Sequences

CONSTANTS
    MaxBytes,   \* bytes a source sends at most
    BufSize,    \* bytes read at once
    Window      \* bytes handed over that the destination has not read yet

ASSUME ProxyAssumption ==
    MaxBytes \in Nat /\ BufSize \in Nat \ {0} /\ Window \in Nat \ {0}

Directions == {"local2ebb", "ebb2local"}
Sockets == {"local", "ebbflow"}
Source(d) == IF d = "local2ebb" THEN "local" ELSE "ebbflow"
Destination(d) == IF d = "local2ebb" THEN "ebbflow" ELSE "local"

VARIABLES
    sent, closed,   \* per direction: bytes sent so far; the source is finished
    broken,         \* sockets whose connection is reset
    taken,          \* bytes read from the source
    buf,            \* read and not yet accepted by the writer
    staged,         \* accepted by the writer and not flushed
    handed,         \* handed over to the kernel
    consumed,       \* bytes the destination has read
    pc,             \* per direction: read, write, flush, eof or failed
    mode,           \* running, draining (signalled) or ended
    readers         \* directions whose destination keeps reading

stream == <<taken, buf, staged, handed>>
peers == <<sent, closed, broken, consumed, readers>>
vars == <<peers, stream, pc, mode>>

Init ==
    /\ sent = [d \in Directions |-> 0] /\ closed = {} /\ broken = {}
    /\ taken = [d \in Directions |-> 0]
    /\ buf = [d \in Directions |-> <<>>] /\ staged = [d \in Directions |-> <<>>]
    /\ handed = [d \in Directions |-> <<>>] /\ consumed = [d \in Directions |-> 0]
    /\ pc = [d \in Directions |-> "read"]
    /\ mode = "running"
    /\ readers \in SUBSET Directions

-----------------------------------------------------------------------------
(* The two parties.                                                        *)

Send(d) ==
    /\ d \notin closed /\ Source(d) \notin broken /\ sent[d] < MaxBytes
    /\ sent' = [sent EXCEPT ![d] = @ + 1]
    /\ UNCHANGED <<closed, broken, consumed, readers, stream, pc, mode>>

Close(d) ==
    /\ d \notin closed
    /\ closed' = closed \cup {d}
    /\ UNCHANGED <<sent, broken, consumed, readers, stream, pc, mode>>

Consume(d) ==
    /\ d \in readers
    /\ consumed[d] < Len(handed[d])
    /\ consumed' = [consumed EXCEPT ![d] = @ + 1]
    /\ UNCHANGED <<sent, closed, broken, readers, stream, pc, mode>>

\* A peer resets its connection or vanishes (keepalive).
Break(s) ==
    /\ s \notin broken
    /\ broken' = broken \cup {s}
    /\ UNCHANGED <<sent, closed, consumed, readers, stream, pc, mode>>

-----------------------------------------------------------------------------
(* copy_bytes_ez, one direction.                                           *)

Running == mode # "ended"

\* The proxy ends when both directions are done.
Bug_WaitForBoth(d, how) ==
    /\ pc' = [pc EXCEPT ![d] = how]
    /\ mode' = IF \A e \in Directions \ {d} : pc[e] \in {"eof", "failed"} THEN "ended" ELSE mode

\* A direction that is done ends the select, and with it the other one.
Done(d, how) ==
    /\ pc' = [pc EXCEPT ![d] = how]
    /\ mode' = "ended"

\* The whole buffer is written, however much was read.
Bug_WholeBuffer(d) ==
    /\ Running /\ pc[d] = "read" /\ Source(d) \notin broken
    /\ \E n \in 1 .. BufSize :
         /\ taken[d] + n <= sent[d]
         /\ buf' = [buf EXCEPT ![d] = [i \in 1 .. BufSize |-> taken[d] + i]]
         /\ taken' = [taken EXCEPT ![d] = @ + n]
    /\ pc' = [pc EXCEPT ![d] = "write"]
    /\ UNCHANGED <<peers, staged, handed, mode>>

\* r.read(&mut buf): some of what has arrived
Read(d) ==
    /\ Running /\ pc[d] = "read" /\ Source(d) \notin broken
    /\ \E n \in 1 .. BufSize :
         /\ taken[d] + n <= sent[d]
         /\ buf' = [buf EXCEPT ![d] = [i \in 1 .. n |-> taken[d] + i]]
         /\ taken' = [taken EXCEPT ![d] = @ + n]
    /\ pc' = [pc EXCEPT ![d] = "write"]
    /\ UNCHANGED <<peers, staged, handed, mode>>

\* End of file as soon as the source has closed.
Bug_EofBeforeData(d) ==
    /\ Running /\ pc[d] = "read" /\ d \in closed /\ Source(d) \notin broken
    /\ Done(d, "eof")
    /\ UNCHANGED <<peers, stream>>

\* ... or n = 0, the end of the stream: return Ok
ReadEof(d) ==
    /\ Running /\ pc[d] = "read" /\ Source(d) \notin broken
    /\ d \in closed /\ taken[d] = sent[d]
    /\ Done(d, "eof")
    /\ UNCHANGED <<peers, stream>>

\* ... or an error, which loses what had arrived
ReadFails(d) ==
    /\ Running /\ pc[d] = "read" /\ Source(d) \in broken
    /\ Done(d, "failed")
    /\ UNCHANGED <<peers, stream>>

\* Room in the window of the destination.
Room(d) == Window - (Len(handed[d]) - consumed[d])

Buffers(d) == d = "local2ebb"

\* The writer accepts chunk.  The TLS writer passes on some of what it holds.
Accept(d, chunk) ==
    IF Buffers(d)
    THEN LET held == staged[d] \o chunk
         IN \E k \in 0 .. Len(held) :
              /\ k <= Room(d)
              /\ handed' = [handed EXCEPT ![d] = @ \o SubSeq(held, 1, k)]
              /\ staged' = [staged EXCEPT ![d] = SubSeq(held, k + 1, Len(held))]
    ELSE /\ Len(chunk) <= Room(d)
         /\ handed' = [handed EXCEPT ![d] = @ \o chunk]
         /\ UNCHANGED staged

\* A single write, which need not accept the whole buffer.
Bug_WriteOnce(d) ==
    /\ Running /\ pc[d] = "write" /\ Destination(d) \notin broken
    /\ \E n \in 1 .. Len(buf[d]) : Accept(d, SubSeq(buf[d], 1, n))
    /\ buf' = [buf EXCEPT ![d] = <<>>]
    /\ pc' = [pc EXCEPT ![d] = "flush"]
    /\ UNCHANGED <<peers, taken, mode>>

\* w.write_all(&buf[0..n]): as many writes as it takes
Write(d) ==
    /\ Running /\ pc[d] = "write" /\ Destination(d) \notin broken
    /\ \E n \in 1 .. Len(buf[d]) :
         /\ Accept(d, SubSeq(buf[d], 1, n))
         /\ buf' = [buf EXCEPT ![d] = SubSeq(@, n + 1, Len(@))]
         /\ pc' = [pc EXCEPT ![d] = IF n = Len(buf[d]) THEN "flush" ELSE "write"]
    /\ UNCHANGED <<peers, taken, mode>>

\* No flush: the writer keeps what it accepted until it is written to again.
Bug_NoFlush(d) ==
    /\ Running /\ pc[d] = "flush"
    /\ pc' = [pc EXCEPT ![d] = "read"]
    /\ UNCHANGED <<peers, stream, mode>>

\* w.flush()
Flush(d) ==
    /\ Running /\ pc[d] = "flush"
    /\ \/ /\ staged[d] = <<>>
          /\ pc' = [pc EXCEPT ![d] = "read"]
          /\ UNCHANGED <<staged, handed>>
       \/ /\ Destination(d) \notin broken
          /\ \E n \in 1 .. Len(staged[d]) :
               /\ n <= Room(d)
               /\ handed' = [handed EXCEPT ![d] = @ \o SubSeq(staged[d], 1, n)]
               /\ staged' = [staged EXCEPT ![d] = SubSeq(@, n + 1, Len(@))]
          /\ UNCHANGED pc
    /\ UNCHANGED <<peers, taken, buf, mode>>

WriteFails(d) ==
    /\ Running /\ pc[d] \in {"write", "flush"} /\ Destination(d) \in broken
    /\ Done(d, "failed")
    /\ UNCHANGED <<peers, stream>>

-----------------------------------------------------------------------------
(* proxy_data.                                                             *)

\* receiver.wait() wins the select: the copying goes on in a task of its own
Signalled ==
    /\ mode = "running"
    /\ mode' = "draining"
    /\ UNCHANGED <<peers, stream, pc>>

\* handle.abort() after KILL_ACTIVE_DELAY
Abort ==
    /\ mode = "draining"
    /\ mode' = "ended"
    /\ UNCHANGED <<peers, stream, pc>>

-----------------------------------------------------------------------------

Copy(d) == Read(d) \/ ReadEof(d) \/ ReadFails(d) \/ Write(d) \/ Flush(d) \/ WriteFails(d)

Next ==
    \/ \E d \in Directions : Send(d) \/ Close(d) \/ Consume(d) \/ Copy(d)
    \/ \E s \in Sockets : Break(s)
    \/ Signalled \/ Abort

Spec == Init /\ [][Next]_vars

(* Fairness: the executor polls a direction that can go on, the delay of a *)
(* kill ends, and the destinations in `readers` read what they are handed. *)
(* Nothing is assumed of the others.                                       *)
FairSpec ==
    /\ Spec
    /\ \A d \in Directions : WF_vars(Copy(d)) /\ WF_vars(Consume(d))
    /\ WF_vars(Abort)

-----------------------------------------------------------------------------
(* Properties.                                                             *)

Bytes(d) == Seq(1 .. MaxBytes)

\* Every variable has its type.
TypeOK ==
    /\ sent \in [Directions -> 0 .. MaxBytes] /\ taken \in [Directions -> 0 .. MaxBytes]
    /\ closed \subseteq Directions /\ broken \subseteq Sockets /\ readers \subseteq Directions
    /\ \A d \in Directions :
          /\ buf[d] \in Bytes(d) /\ staged[d] \in Bytes(d) /\ handed[d] \in Bytes(d)
          /\ consumed[d] \in 0 .. Len(handed[d])
          /\ pc[d] \in {"read", "write", "flush", "eof", "failed"}
    /\ mode \in {"running", "draining", "ended"}

\* What is on its way through the proxy is exactly what was read, each byte
\* once and in order, wherever a write was cut or the proxy was stopped.
NoLossInside ==
    \A d \in Directions :
       handed[d] \o staged[d] \o buf[d] = [i \in 1 .. taken[d] |-> i]

\* A party that closes has had all its bytes handed over before the proxy ends
\* on its account: the proxy does not cut an answer at its end.  (What the
\* kernels do with it then is up to them.)
EofComplete ==
    \A d \in Directions : pc[d] = "eof" => handed[d] = [i \in 1 .. sent[d] |-> i]

\* A direction does not wait for the other: what a party sent is handed over
\* if its own destination reads, even if the other destination never does, or
\* else the proxy ends.
Delivers ==
    \A d \in Directions, n \in 1 .. MaxBytes :
       (sent[d] >= n /\ d \in readers) ~> (Len(handed[d]) >= n \/ mode = "ended")

\* The proxy ends when a party that is heard closes, and in any case, readers
\* or not, after a stop signal.
Ends ==
    /\ \A d \in Directions : (d \in closed /\ d \in readers) ~> (mode = "ended")
    /\ (mode = "draining") ~> (mode = "ended")
=============================================================================
