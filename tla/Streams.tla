------------------------------ MODULE Streams ------------------------------
(***************************************************************************)
(* The workers that carry messages over a byte stream: Serial, STDIO and   *)
(* Process (BinaryWorker) and the two ends of a local socket.  Bytes       *)
(* arrive in chunks of any size; a byte of a frame may be lost on a serial *)
(* line or by a short write, and a local connection may be cut.            *)
(***************************************************************************)
EXTENDS Framing

CONSTANTS
  Receivers,   \* kinds of workers that receive
  Bodies,      \* contents, each sent at most once
  MaxFaults    \* bound on lost bytes and cut connections

ASSUME StreamsAssumption ==
  /\ Receivers \subseteq {"serial", "stdio", "process", "local_server", "local_client"}
  /\ Bodies \subseteq Seq(Nat)
  /\ MaxFaults \in Nat

VARIABLES
  receiver,    \* the kind of the receiving worker
  framing,     \* BinaryConfig::framing; "length" for local sockets
  protocol,    \* BinaryConfig::protocol
  crc,         \* BinaryConfig::crc is set
  wire,        \* bytes on their way
  buffer,      \* of the receiver
  ended,       \* an exception left the receiver's event loop: main() returned
  accepted,    \* messages given to the sender and not refused (history)
  hurt,        \* indices in accepted of those whose bytes were damaged (history)
  decoded,     \* messages the receiver emitted (history)
  faults

streamsVars ==
  <<receiver, framing, protocol, crc, wire, buffer, ended, accepted, hurt, decoded, faults>>
binaryConfig == <<receiver, framing, protocol, crc>>

IsLocal(r) == r \in {"local_server", "local_client"}

StreamsInit ==
  /\ receiver \in Receivers
  /\ framing \in IF IsLocal(receiver) THEN {"length"} ELSE {"slip", "line"}
  /\ protocol \in IF IsLocal(receiver) THEN {"msgpack"} ELSE {"msgpack", "text"}
  /\ crc \in IF framing = "slip" THEN BOOLEAN ELSE {FALSE}
  /\ wire = <<>> /\ buffer = <<>> /\ ended = FALSE
  /\ accepted = <<>> /\ hurt = {} /\ decoded = <<>>
  /\ faults = 0

\* What dumpTextProto and dumpLineFrames do not raise for.
Sendable(msg) ==
  /\ protocol = "text" => IsString(msg)
  /\ framing = "line" => ~Contains(DumpProto(protocol, msg), NL)

\* BinaryWorker::OnMsg up to SendBinary, and OnMsg of the local workers.
Framed(msg, checksum) ==
  IF framing = "slip" THEN SlipFramed(DumpProto(protocol, msg) \o checksum)
  ELSE IF framing = "line" THEN LineFramed(DumpProto(protocol, msg))
  ELSE Frame(Encode(msg))
Frames(msg) == {Framed(msg, checksum) : checksum \in IF crc THEN Crc ELSE {<<>>}}

New(msg) == ~Contains(accepted, msg)

SendBinary(msg) ==
  /\ ~ended
  /\ New(msg)
  /\ Sendable(msg)
  /\ \E f \in Frames(msg) : wire' = wire \o f
  /\ accepted' = Append(accepted, msg)
  /\ UNCHANGED <<binaryConfig, buffer, ended, hurt, decoded, faults>>

\* A byte is lost on the line, or write() takes a part of the frame and the
\* rest is given up with a warning.
SendDamaged(msg) ==
  /\ ~ended
  /\ ~IsLocal(receiver)
  /\ New(msg)
  /\ Sendable(msg)
  /\ faults < MaxFaults
  /\ faults' = faults + 1
  /\ \E f \in Frames(msg) :
       \/ \E i \in 1..Len(f) : wire' = wire \o RemoveAt(f, i)
       \/ \E n \in 0..(Len(f) - 1) : wire' = wire \o SubSeq(f, 1, n)
  /\ accepted' = Append(accepted, msg)
  /\ hurt' = hurt \union {Len(accepted')}
  /\ UNCHANGED <<binaryConfig, buffer, ended, decoded>>

\* The connection of a local socket is cut: bytes on their way are lost, and so
\* are the messages they belong to.  The server drops the buffer with the
\* socket; the client keeps its own.
Cutoff ==
  /\ IsLocal(receiver)
  /\ faults < MaxFaults
  /\ faults' = faults + 1
  /\ hurt' = hurt \union {i \in 1..Len(accepted) : ~Contains(decoded, accepted[i])}
  /\ wire' = <<>>
  /\ buffer' = IF receiver = "local_server" THEN <<>> ELSE buffer
  /\ UNCHANGED <<binaryConfig, ended, accepted, decoded>>

\* ReceiveBinary and DrainFrames: the messages of a buffer are emitted and the
\* rest is kept; an exception takes the messages in front of it along.
Receive(buf) ==
  LET parsed == ParseFrames(framing, protocol, buf) IN
  /\ buffer' = IF receiver = "process" THEN <<>> ELSE Kept(framing, parsed.rest)
  /\ decoded' = IF parsed.raised THEN decoded ELSE decoded \o parsed.msgs
  /\ ended' = parsed.raised

\* Mutant of ReadyRead: a chunk is parsed on its own.
ReadyReadForgets(n) ==
  /\ ~ended
  /\ n \in 1..Len(wire)
  /\ Receive(SubSeq(wire, 1, n))
  /\ wire' = SubSeq(wire, n + 1, Len(wire))
  /\ UNCHANGED <<binaryConfig, accepted, hurt, faults>>

\* readyRead with n bytes.  Process parses the chunk alone; the others append
\* it to what was left.
ReadyRead(n) ==
  /\ ~ended
  /\ n \in 1..Len(wire)
  /\ Receive(buffer \o SubSeq(wire, 1, n))
  /\ wire' = SubSeq(wire, n + 1, Len(wire))
  /\ UNCHANGED <<binaryConfig, accepted, hurt, faults>>

StreamsNext ==
  \/ \E msg \in Bodies : SendBinary(msg) \/ SendDamaged(msg)
  \/ \E n \in 1..Len(wire) : ReadyRead(n)
  \/ Cutoff

StreamsSpec == StreamsInit /\ [][StreamsNext]_streamsVars

-----------------------------------------------------------------------------
(* Properties                                                              *)

\* A line may carry the message: it is not given up as too long, and it has no
\* CR at its end for parseLineFrames to take off.
Fits(msg) ==
  LET payload == DumpProto(protocol, msg)
  IN framing = "line" =>
       Len(payload) <= MaxLineBytes /\ (payload # <<>> => payload[Len(payload)] # CR)

\* Messages sent undamaged, behind a frame that was not damaged either.
Survivors ==
  {i \in 1..Len(accepted) : i \notin hurt /\ (i - 1) \notin hurt /\ Fits(accepted[i])}

\* However the bytes are cut into chunks, what was sent is received in the order
\* it was sent, and a damaged frame takes at most the frame behind it along:
\* the parsers of ReceiveBinary and DrainFrames find the next frame again, unless
\* a damaged line has ended the receiver.  The receivers do not know of the crc,
\* so nothing is said of a sender that adds it.
Resync ==
  ~crc =>
    /\ (faults = 0 /\ \A i \in 1..Len(accepted) : Fits(accepted[i])) =>
         ~ended /\ IsPrefix(decoded, accepted)
    /\ (wire = <<>> /\ ~ended) =>
         \E place \in [Survivors -> 1..Len(decoded)] :
           /\ \A i \in Survivors : decoded[place[i]] = accepted[i]
           /\ \A i, j \in Survivors : i < j => place[i] < place[j]
=============================================================================
