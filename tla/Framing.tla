------------------------------ MODULE Framing ------------------------------
(***************************************************************************)
(* How messages become bytes and bytes become messages again: SLIP         *)
(* (slipa.hpp), lines (binary_worker.cpp) and length prefixes (wire.hpp).  *)
(* A message is the sequence of bytes of its content.  A parser that may   *)
(* refuse its input returns the sequence of its result, empty on an error. *)
(***************************************************************************)
EXTENDS Integers, Sequences, SequencesExt

CONSTANTS
  MaxLineBytes,   \* MAX_LINE_BYTES
  Compressed      \* config.compression is zlib

ASSUME FramingAssumption == MaxLineBytes \in Nat /\ Compressed \in BOOLEAN

END == 192
ESC == 219
ESC_END == 220
ESC_ESC == 221
NL == 10
CR == 13
Replacement == 65533   \* what fromUtf8 makes of a byte that is not UTF-8

\* dumpMsgpackProto / parseMsgpackProto: a head that tells the length, then the
\* content; bytes behind the content are an error.
DumpMsgpack(msg) == <<Len(msg)>> \o msg
ParseMsgpack(frame) ==
  IF frame # <<>> /\ Head(frame) = Len(frame) - 1 THEN <<Tail(frame)>> ELSE <<>>

\* dumpTextProto / parseTextProto: only strings are sent.
IsString(msg) == \A i \in 1..Len(msg) : msg[i] < 128
ParseText(frame) ==
  <<[i \in 1..Len(frame) |-> IF frame[i] < 128 THEN frame[i] ELSE Replacement]>>

DumpProto(protocol, msg) == IF protocol = "text" THEN msg ELSE DumpMsgpack(msg)
ParseProto(protocol, frame) ==
  IF protocol = "text" THEN ParseText(frame) ELSE ParseMsgpack(frame)

\* slipa::Write.
Escaped(byte) ==
  IF byte = ESC THEN <<ESC, ESC_ESC>> ELSE IF byte = END THEN <<ESC, ESC_END>> ELSE <<byte>>
SlipWrite(payload) ==
  LET out[n \in 0..Len(payload)] == IF n = 0 THEN <<>> ELSE out[n - 1] \o Escaped(payload[n])
  IN out[Len(payload)]

\* slipa::Read, of a frame that was cut in front of its END: an escape that is
\* not one, or that the frame ends in, is an error.
Unescaping(state, out) == [state |-> state, out |-> out]
ReadByte(sofar, byte) ==
  IF sofar.state = "invalid" THEN sofar
  ELSE IF sofar.state = "plain"
    THEN IF byte = ESC THEN Unescaping("escape", sofar.out)
         ELSE Unescaping("plain", Append(sofar.out, byte))
    ELSE IF byte = ESC_END THEN Unescaping("plain", Append(sofar.out, END))
         ELSE IF byte = ESC_ESC THEN Unescaping("plain", Append(sofar.out, ESC))
         ELSE Unescaping("invalid", <<>>)
Unescaped(frame) ==
  LET read[n \in 0..Len(frame)] ==
        IF n = 0 THEN Unescaping("plain", <<>>) ELSE ReadByte(read[n - 1], frame[n])
  IN read[Len(frame)]
SlipRead(frame) ==
  IF Unescaped(frame).state = "plain" THEN <<Unescaped(frame).out>> ELSE <<>>

\* CRC16_Modbus looks its table up with an index that was never cut to a byte:
\* past the table, so the two bytes appended may be any.
Crc == {<<0, 0>>, <<END, 1>>}

\* wire::Encode and wire::Decode: qCompress puts the length in front; bytes
\* behind the content are not looked at.
Encode(msg) == IF Compressed THEN <<Len(msg)>> \o DumpMsgpack(msg) ELSE DumpMsgpack(msg)
Unpack(packed) ==
  IF packed # <<>> /\ Head(packed) < Len(packed) THEN <<SubSeq(packed, 2, 1 + Head(packed))>> ELSE <<>>
Decode(packed) ==
  IF ~Compressed THEN Unpack(packed)
  ELSE IF packed # <<>> /\ Head(packed) = Len(packed) - 2 THEN Unpack(Tail(packed)) ELSE <<>>

\* dumpSlipFrames, dumpLineFrames and wire::Frame: what a payload is sent as.
SlipFramed(payload) == Append(SlipWrite(payload), END)
LineFramed(payload) == Append(payload, NL)
Frame(payload) == <<Len(payload) \div 256, Len(payload) % 256>> \o payload

\* The beginning of a buffer is a frame: its terminator was met, or as many
\* bytes as its length (two digits here) says.
Whole(framing, piece) ==
  IF framing = "slip" THEN piece # <<>> /\ Last(piece) = END
  ELSE IF framing = "line" THEN piece # <<>> /\ Last(piece) = NL
  ELSE Len(piece) >= 2 /\ Len(piece) >= 2 + piece[1] * 256 + piece[2]

\* What parseSlipFrames, parseLineFrames and DrainFrames make of a frame.
SlipContents(protocol, piece) ==
  LET read == SlipRead(Front(piece)) IN IF read = <<>> THEN <<>> ELSE ParseProto(protocol, read[1])
LineContents(protocol, piece) ==
  LET line == Front(piece)
  IN ParseProto(protocol, IF line # <<>> /\ Last(line) = CR THEN Front(line) ELSE line)
LengthContents(piece) == Decode(SubSeq(piece, 3, Len(piece)))
Contents(framing, protocol, piece) ==
  IF framing = "slip" THEN SlipContents(protocol, piece)
  ELSE IF framing = "line" THEN LineContents(protocol, piece)
  ELSE LengthContents(piece)

\* Every whole frame of a buffer: the messages and what is left.  An error is
\* logged and the frame skipped; only parseLineFrames has no handler.
Parsed(msgs, rest, raised) == [msgs |-> msgs, rest |-> rest, raised |-> raised]
ParseByte(framing, protocol, sofar, byte) ==
  LET piece == Append(sofar.rest, byte)
      found == Contents(framing, protocol, piece)
  IN IF sofar.raised THEN sofar
     ELSE IF Whole(framing, piece)
       THEN Parsed(sofar.msgs \o found, <<>>, framing = "line" /\ found = <<>>)
       ELSE Parsed(sofar.msgs, piece, FALSE)
ParseFrames(framing, protocol, buf) ==
  LET parsed[n \in 0..Len(buf)] ==
        IF n = 0 THEN Parsed(<<>>, <<>>, FALSE)
        ELSE ParseByte(framing, protocol, parsed[n - 1], buf[n])
  IN parsed[Len(buf)]

\* parseLineFrames gives up a line that has become too long.
Kept(framing, rest) == IF framing = "line" /\ Len(rest) > MaxLineBytes THEN <<>> ELSE rest
=============================================================================
