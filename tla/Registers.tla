----------------------------- MODULE Registers -----------------------------
(***************************************************************************)
(* The register maps of the Modbus workers (modbus_units.hpp): validation, *)
(* the sorted and merged read requests, and the codec of a register.  A    *)
(* word is the pair of its bytes as they lie in memory on a little-endian  *)
(* host, the value of a register the sequence of its bytes.  What scripts  *)
(* write is a QVariant, whose conversions (external) give the four bytes   *)
(* of a number, or none where there is no conversion.                      *)
(***************************************************************************)
EXTENDS Naturals, Sequences, SequencesExt, FiniteSets

CONSTANTS ToBool(_), ToUInt(_), ToFloat(_)

Refused == [ok |-> FALSE, regs |-> <<>>]
Prepared(regs) == [ok |-> TRUE, regs |-> regs]

(* getSizeOf(), in bytes *)
SizeOf(type) == IF type \in {"uint32", "float32"} THEN 4 ELSE 2
Words(reg) == SizeOf(reg.type) \div 2
Behind(reg) == reg.index + Words(reg)

Default(v, d) == IF v = "default" THEN d ELSE v

(* validateRegisters() for one register of a kind, where it does not raise *)
(* (Valid).  Input registers leave it with the mode read_write.            *)
Valid(kind, reg) ==
  /\ kind \in {"di", "input"} => reg.mode \notin {"write", "read_write"}
  /\ kind \in {"di", "coils"} => reg.type \in {"default", "bit"}

Validated(kind, reg) ==
  CASE kind = "di" -> [reg EXCEPT !.mode = "read", !.type = "bit", !.byte = "little",
                                  !.word = "little"]
    [] kind = "coils" -> [reg EXCEPT !.type = "bit", !.byte = "little", !.word = "little"]
    [] OTHER -> [reg EXCEPT !.mode = Default(@, "read_write"), !.type = Default(@, "uint16")]

-----------------------------------------------------------------------------
(* Insertion by index with std::lower_bound.  An overlap is looked for     *)
(* only with the register that follows.                                    *)
LowerBound(sorted, reg) == 1 + Cardinality({i \in 1..Len(sorted) : sorted[i].index < reg.index})

Inserted(acc, reg) ==
  LET at == LowerBound(acc.regs, reg) IN
  IF ~acc.ok THEN acc
  ELSE IF at > Len(acc.regs) THEN Prepared(Append(acc.regs, reg))
  ELSE IF Behind(reg) > acc.regs[at].index THEN Refused
  ELSE Prepared(InsertAt(acc.regs, at, reg))

(* The registers come in the order of their keys; those with a mode in     *)
(* left_out are skipped.                                                   *)
Sorted(regs, left_out) ==
  LET upTo[n \in 0..Len(regs)] ==
        IF n = 0 THEN Prepared(<<>>)
        ELSE IF regs[n].mode \in left_out THEN upTo[n - 1]
        ELSE Inserted(upTo[n - 1], regs[n])
  IN upTo[Len(regs)]

(* prepareReadableSorted() *)
PrepareReadableSorted(regs, include_write_only) ==
  Sorted(regs, IF include_write_only THEN {} ELSE {"write"})

(* prepareWrites(): the same insertion, over what may be written. *)
PrepareWrites(regs, include_read_only) ==
  Sorted(regs, IF include_read_only THEN {} ELSE {"read"})

(* A request over count words from start on, and the registers in it. *)
Request(start, count, regs) == [start |-> start, count |-> count, regs |-> regs]

(* Mutant: the merged request keeps the count of its first register. *)
MergeShort(unit, reg) == Request(unit.start, unit.count, Append(unit.regs, reg))

Merge(unit, reg) == Request(unit.start, unit.count + Words(reg), Append(unit.regs, reg))

(* mergeSingle(): neighbours without a gap share one request. *)
Merged(units, reg) ==
  IF units # <<>> /\ reg.index = Behind(Last(Last(units).regs))
    THEN Append(Front(units), Merge(Last(units), reg))
    ELSE Append(units, Request(reg.index, Words(reg), <<reg>>))

MergeSingle(sorted) ==
  LET upTo[n \in 0..Len(sorted)] ==
        IF n = 0 THEN <<>> ELSE Merged(upTo[n - 1], sorted[n])
  IN upTo[Len(sorted)]

(* prepareSingleManual(): the end of a register is taken in bytes.         *)
RegEnd(reg) == reg.index + SizeOf(reg.type)

Within(q, reg) == reg.index >= q.index /\ reg.index < q.index + q.count

Inside(q, sorted) ==
  LET upTo[n \in 0..Len(sorted)] ==
        IF n = 0 THEN <<>>
        ELSE IF Within(q, sorted[n]) THEN Append(upTo[n - 1], sorted[n])
        ELSE upTo[n - 1]
  IN upTo[Len(sorted)]

Manual(q, sorted) ==
  LET inside == Inside(q, sorted)
  IN [ok |-> \A i \in 1..Len(inside) : RegEnd(inside[i]) <= q.index + q.count,
      unit |-> Request(q.index, q.count, inside)]

-----------------------------------------------------------------------------
Swap(pair) == <<pair[2], pair[1]>>

(* applyPacking(): the order of two words, then the bytes of each. *)
ApplyPacking(words, reg) ==
  LET ordered == IF Len(words) = 2 /\ reg.word # "little" THEN Swap(words) ELSE words
  IN [i \in 1..Len(ordered) |-> IF reg.byte = "little" THEN ordered[i] ELSE Swap(ordered[i])]

(* The value of a variant in a register of a type, the empty sequence      *)
(* where encodeRegister() refuses it: 2.7 is 3 in a register of 16 bits,   *)
(* and what does not fit in one is refused.                                *)
InRegister(type, v) ==
  LET number == IF type = "float32" THEN ToFloat(v) ELSE ToUInt(v)
      fits == SizeOf(type) = 4 \/ (number[3] = 0 /\ number[4] = 0)
  IN IF type = "bit" THEN <<IF ToBool(v) THEN 1 ELSE 0, 0>>
     ELSE IF number # <<>> /\ fits THEN SubSeq(number, 1, SizeOf(type))
     ELSE <<>>

(* The words of a value. *)
EncodedBytes(reg, bytes) ==
  IF reg.type = "bit" THEN <<bytes>>
  ELSE ApplyPacking([i \in 1..Words(reg) |-> <<bytes[2 * i - 1], bytes[2 * i]>>], reg)

(* encodeRegister(); the empty sequence where it refuses the value. *)
EncodeRegister(reg, v) ==
  LET bytes == InRegister(reg.type, v)
  IN IF bytes = <<>> THEN <<>> ELSE EncodedBytes(reg, bytes)

(* A register of one bit reads as 0 or 1. *)
Truth(word) == IF word = <<0, 0>> THEN word ELSE <<1, 0>>

(* parseWords(): the bytes of the whole value, in one order. *)
ParseWords(reg, bytes) == IF reg.byte = "big" THEN Reverse(bytes) ELSE bytes

(* decodeRegister() of the two words in its buffer. *)
DecodeRegister(reg, data) ==
  LET ordered == IF reg.word # "little" THEN Swap(data) ELSE data
      bytes   == [i \in 1..SizeOf(reg.type) |-> ordered[(i + 1) \div 2][2 - (i % 2)]]
  IN IF reg.type = "bit" THEN Truth(ordered[1]) ELSE ParseWords(reg, bytes)
=============================================================================
