------------------------------ MODULE Loopback ------------------------------
(***************************************************************************)
(* A ModbusSlave and a ModbusMaster with the same holding registers: the   *)
(* slave's table of words (QModbusServer, external), the values the slave  *)
(* and the master last saw (currentState in both), the master's polls.     *)
(* Requests and retries of the master are the subject of module Modbus.    *)
(***************************************************************************)
EXTENDS Registers

CONSTANTS Keys,          \* names of registers, in their order: a sequence
          MaxIndex,      \* bound: highest index of a register
          Kinds,         \* kinds of registers: "holding", "coils"
          Types,         \* value types to choose from
          Packings,      \* byte and word orders to choose from
          Queries,       \* queries to choose from, the one without a count for none
          Words16,       \* words other clients write
          ScriptValues,  \* values scripts write
          MaxWrites      \* bound: values written

VARIABLES
  regs,                  \* the register map of both workers, one per key
  reads,                 \* the master's prepared requests
  data,                  \* the server's words, by address
  slaveState,            \* currentState: a variant a script gave, bytes decoded, or Unknown
  masterState,           \* currentState: the bytes polled, or none
  fresh,                 \* keys polled since the server's words last changed
  listening,             \* the server device listens
  reconnect,             \* the device's reconnect timer runs
  writes

loopbackVars == <<regs, reads, data, slaveState, masterState, fresh, listening, reconnect, writes>>

Given(v) == [how |-> "given", v |-> v]
Decoded(bytes) == [how |-> "decoded", v |-> bytes]
Unknown == [how |-> "unknown", v |-> <<>>]
Unpolled == <<>>
KeySet == {Keys[i] : i \in 1..Len(Keys)}
Register == [key : KeySet, index : 0..MaxIndex, type : Types,
             mode : {"default", "write"}, byte : {"big", "little"}, word : {"big", "little"}]

Packing == [byte : {"big", "little"}, word : {"big", "little"}]

ASSUME LoopbackAssumption ==
  /\ Keys \in Seq(KeySet) /\ MaxIndex \in Nat
  /\ Packings \subseteq Packing
  /\ Queries \subseteq [index : Nat, count : Nat]
  /\ \A v \in ScriptValues :
       /\ ToBool(v) \in BOOLEAN
       /\ ToUInt(v) \in Seq(0..255) /\ Len(ToUInt(v)) \in {0, 4}
       /\ ToFloat(v) \in Seq(0..255) /\ Len(ToFloat(v)) \in {0, 4}

Layouts == {f \in [KeySet -> Register] :
              \A k \in KeySet : f[k].key = k /\ [byte |-> f[k].byte, word |-> f[k].word] \in Packings}

(* The packings whose encoding and decoding are inverse: decodeRegister()  *)
(* swaps the two words of its buffer also for a value of one word, and     *)
(* reverses all four bytes of two words for the byte order "big".          *)
Sound(reg) == IF Words(reg) = 2 THEN reg.byte = "little" ELSE reg.word = "little"

Disjoint(f) ==
  \A j, k \in KeySet : j # k => Behind(f[j]) <= f[k].index \/ Behind(f[k]) <= f[j].index

(* prepareReads() and prepareManualReads() with one query. *)
Prepare(sorted, q) ==
  IF q.count = 0 THEN MergeSingle(sorted) ELSE <<Manual(q, sorted).unit>>

(* The constructors of the master and the slave. *)
LoopbackInit ==
  /\ \E f \in Layouts, q \in Queries, kind \in Kinds :
       /\ \A k \in KeySet : Valid(kind, f[k])
       /\ regs = [k \in KeySet |-> Validated(kind, f[k])]
       /\ Disjoint(regs)
       /\ LET all == [i \in 1..Len(Keys) |-> regs[Keys[i]]]
              sorted == PrepareReadableSorted(all, FALSE) IN
          /\ sorted.ok /\ PrepareWrites(all, FALSE).ok
          /\ PrepareReadableSorted(all, TRUE).ok /\ PrepareWrites(all, TRUE).ok
          /\ q.count # 0 => Manual(q, sorted.regs).ok
          /\ reads = Prepare(sorted.regs, q)
  /\ data = [a \in 0..MaxIndex + 1 |-> <<0, 0>>]
  /\ slaveState = [k \in KeySet |-> Unknown] /\ masterState = [k \in KeySet |-> Unpolled]
  /\ fresh = {} /\ listening = FALSE /\ reconnect = FALSE /\ writes = 0

WordsStored(reg, words, d) ==
  [a \in DOMAIN d |-> IF a - reg.index + 1 \in 1..Len(words) THEN words[a - reg.index + 1] ELSE d[a]]

(* The buffer of two words a register is decoded from; rest is what is in  *)
(* its second word when the register has one.                              *)
Buffer(reg, d, rest) == <<d[reg.index], IF Words(reg) = 2 THEN d[reg.index + 1] ELSE rest>>

Write == writes < MaxWrites /\ writes' = writes + 1

(* Slave::OnMsg for one field: setData() emits dataWritten, which the flag *)
(* applying keeps from onDataWritten().  The slave keeps what it was       *)
(* given, and the table has what that is in the register.                  *)
SlaveOnMsg(k, v) ==
  LET words == EncodeRegister(regs[k], v) IN
  /\ Write /\ words # <<>>
  /\ data' = WordsStored(regs[k], words, data)
  /\ slaveState' = [slaveState EXCEPT ![k] = Given(v)]
  /\ fresh' = {}
  /\ UNCHANGED <<regs, reads, masterState, listening, reconnect>>

(* The registers onDataWritten() does not skip. *)
Touches(reg, address, size) ==
  Behind(reg) > address /\ reg.index < address + size

(* Another client writes one word, or the master a register: the server    *)
(* stores it and Slave::onDataWritten decodes what was touched.            *)
OnDataWritten(d, address, size) ==
  /\ Write /\ listening
  /\ data' = d /\ fresh' = {}
  /\ slaveState' = [k \in KeySet |->
       IF Touches(regs[k], address, size)
         THEN Decoded(DecodeRegister(regs[k], Buffer(regs[k], d, <<0, 0>>)))
         ELSE slaveState[k]]
  /\ UNCHANGED <<regs, reads, masterState, listening, reconnect>>

RemoteWrite(a, word) == OnDataWritten([data EXCEPT ![a] = word], a, 1)

MasterWrite(k, v) ==
  LET words == EncodeRegister(regs[k], v) IN
  /\ words # <<>>
  /\ OnDataWritten(WordsStored(regs[k], words, data), regs[k].index, Len(words))

(* Master::poll of one request and parsePoll: the words of the response by *)
(* their offset, 0 behind its end.  parsePoll leaves the second word of    *)
(* its buffer uninitialized (rest) for a register of one word.             *)
Response(unit, a) == IF a - unit.start < unit.count THEN data[a] ELSE <<0, 0>>

Poll(unit, rest) ==
  LET polled == {unit.regs[i].key : i \in 1..Len(unit.regs)}
      seen == [a \in DOMAIN data |-> IF a >= unit.start THEN Response(unit, a) ELSE <<0, 0>>]
  IN
  /\ listening /\ polled # {}
  /\ masterState' = [k \in KeySet |->
       IF k \in polled THEN DecodeRegister(regs[k], Buffer(regs[k], seen, rest)) ELSE masterState[k]]
  /\ fresh' = fresh \cup polled
  /\ UNCHANGED <<regs, reads, data, slaveState, listening, reconnect, writes>>

(* SlaveDevice::doListen and its timer. *)
Listen(ok) ==
  /\ ~listening
  /\ listening' = ok /\ reconnect' = ~ok
  /\ UNCHANGED <<regs, reads, data, slaveState, masterState, fresh, writes>>

Stopped ==
  /\ listening /\ listening' = FALSE /\ reconnect' = TRUE
  /\ UNCHANGED <<regs, reads, data, slaveState, masterState, fresh, writes>>

LoopbackNext ==
  \/ \E k \in KeySet, v \in ScriptValues : SlaveOnMsg(k, v) \/ MasterWrite(k, v)
  \/ \E a \in DOMAIN data, word \in Words16 : RemoteWrite(a, word)
  \/ \E i \in 1..Len(reads), rest \in Words16 : Poll(reads[i], rest)
  \/ \E ok \in BOOLEAN : Listen(ok)
  \/ Stopped

LoopbackSpec == LoopbackInit /\ [][LoopbackNext]_loopbackVars

-----------------------------------------------------------------------------
(***************************************************************************)
(* What a script wrote on one side is what a script sees on the other, as  *)
(* the type of the register holds it: a register the master has polled     *)
(* since the last change has the value the slave holds for it, converted   *)
(* once, through the codec, the merged or manual requests and partial      *)
(* writes of other clients, for the packings that are Sound.               *)
(***************************************************************************)
SlaveValue(k) ==
  IF slaveState[k].how = "given" THEN InRegister(regs[k].type, slaveState[k].v) ELSE slaveState[k].v

LoopbackAgrees ==
  \A k \in fresh : Sound(regs[k]) /\ slaveState[k] # Unknown => masterState[k] = SlaveValue(k)

(***************************************************************************)
(* What it rests on.  A register has one meaning for the words in the      *)
(* server's table; the slave's values, and those the master has polled     *)
(* since the last change, are that meaning, and each request has all words *)
(* of its registers.                                                       *)
(***************************************************************************)
Held(k) == DecodeRegister(regs[k], Buffer(regs[k], data, <<0, 0>>))

LoopbackTypeOK ==
  /\ \A k \in KeySet : regs[k].key = k /\ regs[k].index \in 0..MaxIndex /\ regs[k].byte \in {"big", "little"}
  /\ DOMAIN data = 0..MaxIndex + 1
  /\ DOMAIN slaveState = KeySet /\ DOMAIN masterState = KeySet /\ fresh \subseteq KeySet

Covered(unit, reg) ==
  /\ reg.key \in KeySet /\ reg = regs[reg.key]
  /\ unit.start <= reg.index /\ Behind(reg) <= unit.start + unit.count

RequestsCover ==
  \A i \in 1..Len(reads) :
    /\ reads[i].start \in Nat /\ reads[i].count \in Nat
    /\ \A j \in 1..Len(reads[i].regs) : Covered(reads[i], reads[i].regs[j])

SlaveHolds ==
  \A k \in KeySet : Sound(regs[k]) /\ slaveState[k] # Unknown => SlaveValue(k) = Held(k)
MasterHolds == \A k \in fresh : Sound(regs[k]) => masterState[k] = Held(k)

LoopbackInv == LoopbackTypeOK /\ Disjoint(regs) /\ RequestsCover /\ SlaveHolds /\ MasterHolds
=============================================================================
