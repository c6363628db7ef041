-------------------------------- MODULE Wire ---------------------------------
(***************************************************************************)
(* Frames on the stream from Ebbflow and the handshake that reads them:    *)
(* Message (src/messaging.rs), await_message, await_traffic_start and the  *)
(* two functions of src/daemon/connection.rs that call them.               *)
(*                                                                         *)
(* A frame is the length of what follows, the id of the message and its    *)
(* payload.  Bytes arrive in pieces of any size.  The reader must take the *)
(* bytes of a frame and no more: what follows StartTraffic belongs to the  *)
(* proxied connection.  Ebbflow may send any frame, well formed or not.    *)
(***************************************************************************)
EXTENDS Integers, Sequences, SequencesExt

CONSTANTS
    Base,      \* number of byte values, 256 in the code
    Width,     \* bytes of a length or an id, 4 in the code
    Limit,     \* longest frame accepted, 200 * 1024 in the code
    Junk,      \* byte sequences Ebbflow may send that are no messages
    Traffic,   \* byte sequences of the proxied connection
    MaxItems   \* bound on what Ebbflow sends

\* The number of values that k bytes can have.
Pow[k \in 0 .. Width] == IF k = 0 THEN 1 ELSE Base * Pow[k - 1]

\* The codes of an issue fit a byte, the ids and the accepted lengths fit their
\* fields, and no message is too long to be accepted.
ASSUME WireAssumption ==
    /\ Base \in Nat /\ Base > 3 /\ Width \in Nat \ {0} /\ MaxItems \in Nat
    /\ Limit \in Nat /\ Width < Limit /\ Limit < Pow[Width] /\ 8 < Pow[Width]
    /\ Junk \subseteq Seq(0 .. Base - 1) /\ Traffic \subseteq Seq(0 .. Base - 1)

-----------------------------------------------------------------------------
(* Message.                                                                *)

Issues == {"none", "NotFound", "Forbidden", "BadRequest"}

\* The messages by their id; of the fields, those the handshake looks at.
Message == [id : {2, 5, 7}] \cup [id : {1, 3, 4}, fields : {0}]
           \cup [id : {6}, issue : Issues] \cup [id : {8}, ready : BOOLEAN]

IssueCode == [none |-> 0, NotFound |-> 1, Forbidden |-> 2, BadRequest |-> 3]

\* CBOR of the fields, external; here one byte per field.
Payload(m) == CASE m.id = 6 -> <<IssueCode[m.issue]>>
                [] m.id = 8 -> <<IF m.ready THEN 1 ELSE 0>>
                [] m.id \in {1, 3, 4} -> <<m.fields>>
                [] OTHER -> <<>>

\* u32::to_be_bytes and from_be_bytes
ToBytes(n) ==
    LET q[i \in 0 .. Width] == IF i = 0 THEN n ELSE q[i - 1] \div Base
    IN [i \in 1 .. Width |-> q[Width - i] % Base]
FromBytes(s) ==
    LET v[i \in 0 .. Len(s)] == IF i = 0 THEN 0 ELSE v[i - 1] * Base + s[i] IN v[Len(s)]

\* The first n bytes of s and the others, and the number at the start of s.
First(s, n) == SubSeq(s, 1, n)
Drop(s, n) == SubSeq(s, n + 1, Len(s))
Word(s) == FromBytes(First(s, Width))

\* The length leaves out the id.
Bug_LengthOfPayload(m) ==
    ToBytes(Len(Payload(m))) \o ToBytes(m.id) \o Payload(m)

ToWire(m) == ToBytes(Width + Len(Payload(m))) \o ToBytes(m.id) \o Payload(m)

Error(e) == [error |-> e]
IsError(r) == "error" \in DOMAIN r

\* from_wire_without_the_length_prefix; messages without fields ignore a payload
FromWire(s) ==
    LET id == Word(s)
        payload == Drop(s, Width)
        decoded == {m \in Message : m.id = id /\ Payload(m) = payload}
    IN IF Len(s) < Width THEN Error("Parse")
       ELSE CASE id \in {2, 5, 7} -> [id |-> id]
              [] id \in {1, 3, 4, 6, 8} ->
                   IF decoded = {} THEN Error("Parse") ELSE CHOOSE m \in decoded : TRUE
              [] OTHER -> Error("UnknownMessage")

-----------------------------------------------------------------------------

VARIABLES
    items,      \* what Ebbflow has sent: messages, junk and traffic
    arrived,    \* bytes that have arrived, not yet read
    coming,     \* bytes on their way
    finished,   \* Ebbflow closes the stream after them
    pc,         \* hello, traffic, local, proxy or failed
    want,       \* length of the frame being read, or none yet
    heard,      \* the frames read
    out         \* what was sent to Ebbflow

network == <<items, arrived, coming, finished>>
vars == <<network, pc, want, heard, out>>

NoLength == -1

\* connect_ebbflow succeeded and the hello is written and flushed
Init ==
    /\ items = <<>> /\ arrived = <<>> /\ coming = <<>> /\ finished = FALSE
    /\ pc = "hello" /\ want = NoLength /\ heard = <<>>
    /\ out = <<"hello">>

-----------------------------------------------------------------------------
(* Ebbflow and the network.                                                *)

Item == [tag : {"message"}, message : Message]
        \cup [tag : {"junk"}, bytes : Junk] \cup [tag : {"traffic"}, bytes : Traffic]

BytesOf(i) == IF i.tag = "message" THEN ToWire(i.message) ELSE i.bytes

Open == pc # "failed"

\* The proxied connection begins after StartTraffic and is all that follows.
InTraffic == \E n \in DOMAIN items : IF items[n].tag = "message" THEN items[n].message.id = 7 ELSE FALSE

EbbflowSends(i) ==
    /\ Open /\ ~finished /\ Len(items) < MaxItems
    /\ i.tag = "traffic" <=> InTraffic
    /\ items' = Append(items, i)
    /\ coming' = coming \o BytesOf(i)
    /\ UNCHANGED <<arrived, finished, pc, want, heard, out>>

EbbflowCloses ==
    /\ Open /\ ~finished
    /\ finished' = TRUE
    /\ UNCHANGED <<items, arrived, coming, pc, want, heard, out>>

Arrive(n) ==
    /\ Open /\ n <= Len(coming)
    /\ arrived' = arrived \o First(coming, n)
    /\ coming' = Drop(coming, n)
    /\ UNCHANGED <<items, finished, pc, want, heard, out>>

-----------------------------------------------------------------------------
(* await_message.                                                          *)

Awaiting == pc \in {"hello", "traffic"}

Take(n) == arrived' = Drop(arrived, n)

Fail == pc' = "failed" /\ want' = NoLength

\* Any length is believed.
Bug_NoSafeguard ==
    /\ Awaiting /\ want = NoLength /\ Len(arrived) >= Width
    /\ Take(Width)
    /\ want' = Word(arrived)
    /\ UNCHANGED <<items, coming, finished, pc, heard, out>>

\* read_exact of the length, and the safeguard
ReadLength ==
    /\ Awaiting /\ want = NoLength /\ Len(arrived) >= Width
    /\ Take(Width)
    /\ LET len == Word(arrived)
       IN IF len > Limit THEN Fail ELSE want' = len /\ UNCHANGED pc
    /\ UNCHANGED <<items, coming, finished, heard, out>>

\* establish_ebbflow_connection_and_await_traffic_signal goes on after a hello
\* response without issue ...
AfterHello(m) == IF m.id = 6 THEN IF m.issue = "none" THEN "traffic" ELSE "failed" ELSE "failed"

\* ... and await_traffic_start after StartTraffic; all else is an error.
AfterStart(m) == IF m.id = 7 THEN "local" ELSE "failed"

Advance(m) ==
    IF IsError(m) THEN "failed"
    ELSE CASE pc = "hello" -> AfterHello(m)
           [] pc = "traffic" -> AfterStart(m)

\* All that has arrived is read.
Bug_ReadAvailable ==
    /\ Awaiting /\ want # NoLength /\ Len(arrived) >= want
    /\ Take(Len(arrived))
    /\ LET m == FromWire(First(arrived, want))
       IN heard' = Append(heard, m) /\ pc' = Advance(m)
    /\ want' = NoLength
    /\ UNCHANGED <<items, coming, finished, out>>

\* read_exact of the frame, then from_wire
ReadFrame ==
    /\ Awaiting /\ want # NoLength /\ Len(arrived) >= want
    /\ Take(want)
    /\ LET m == FromWire(First(arrived, want))
       IN heard' = Append(heard, m) /\ pc' = Advance(m)
    /\ want' = NoLength
    /\ UNCHANGED <<items, coming, finished, out>>

\* read_exact reaches the end of the stream too early
ReadEof ==
    /\ Awaiting /\ finished /\ coming = <<>>
    /\ Len(arrived) < (IF want = NoLength THEN Width ELSE want)
    /\ Fail
    /\ UNCHANGED <<network, heard, out>>

\* A timeout (hello response or maximum idle time) or the stop signal drops
\* the future wherever it is, and the stream with it.
GiveUp ==
    /\ Awaiting
    /\ Fail
    /\ UNCHANGED <<network, heard, out>>

-----------------------------------------------------------------------------
(* connect_local_with_ebbflow_communication.                               *)

\* starttrafficresponse tells Ebbflow how connect_local ended, unless it cannot
\* be written.
ConnectLocal ==
    /\ pc = "local"
    /\ \/ \E ready \in BOOLEAN :
            /\ out' = Append(out, IF ready THEN "ready" ELSE "not ready")
            /\ pc' = IF ready THEN "proxy" ELSE "failed"
       \/ pc' = "failed" /\ UNCHANGED out
    /\ UNCHANGED <<network, want, heard>>

\* create_hello and starttrafficresponse are the only frames this side sends.
Next ==
    \/ \E i \in Item : EbbflowSends(i)
    \/ EbbflowCloses
    \/ \E n \in 1 .. Len(coming) : Arrive(n)
    \/ ReadLength \/ ReadFrame \/ ReadEof \/ GiveUp \/ ConnectLocal

Spec == Init /\ [][Next]_vars

-----------------------------------------------------------------------------
(* Properties.                                                             *)

\* Every variable has its type.
TypeOK ==
    /\ items \in Seq(Item) /\ Len(items) <= MaxItems /\ finished \in BOOLEAN
    /\ arrived \in Seq(0 .. Base - 1) /\ coming \in Seq(0 .. Base - 1)
    /\ pc \in {"hello", "traffic", "local", "proxy", "failed"}
    /\ want \in {NoLength} \cup 0 .. Limit
    /\ Len(heard) <= 2 /\ Len(out) <= 2

\* The bytes of items from the n-th on.
BytesFrom(n) ==
    FlattenSeq([i \in 1 .. Len(items) - n + 1 |-> BytesOf(items[n - 1 + i])])

\* As long as Ebbflow sends well-formed frames, the reader hears exactly them,
\* and stays at the start of a frame, wherever the network cuts the stream.
Aligned ==
    LET n == Len(heard)
    IN (n <= Len(items) /\ \A i \in 1 .. n : items[i].tag = "message") =>
         /\ \A i \in 1 .. n : heard[i] = items[i].message
         /\ pc # "failed" =>
              arrived \o coming =
                IF want = NoLength THEN BytesFrom(n + 1) ELSE Drop(BytesFrom(n + 1), Width)

\* The frame at the start of a complete stream, and what follows it.
FrameOf(s) == First(Drop(s, Width), Word(s))
After(s) == Drop(Drop(s, Width), Word(s))

\* Only a hello response without issue followed by StartTraffic leads to the
\* proxy, whatever junk Ebbflow sends, and the proxy finds the stream as Ebbflow
\* left it after them: no byte of the proxied connection was taken by the
\* handshake and none of the handshake is left over.
TrafficIntact ==
    pc \in {"local", "proxy"} =>
       /\ FromWire(FrameOf(BytesFrom(1))) = [id |-> 6, issue |-> "none"]
       /\ FromWire(FrameOf(After(BytesFrom(1)))) = [id |-> 7]
       /\ arrived \o coming = After(After(BytesFrom(1)))
=============================================================================
