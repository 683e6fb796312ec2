------------------------------ MODULE MCSafety ------------------------------
(***************************************************************************)
(* The parts that are checked for safety only, in one model: the end of an *)
(* Instance, pipes, tags, child processes, lazy messages, Cyphal messages, *)
(* Modbus registers and byte streams (extended), maps and Lua tables. The  *)
(* initial state says which of them a behaviour is about; the others stay  *)
(* as they are.                                                            *)
(***************************************************************************)
EXTENDS Lifecycle, Pipes, Tags, Process, Lazy, CyphalCodec, Loopback, Streams, TLC

CONSTANTS
  f1, f2, f3, h, c, s, w1,    \* fibers, entries, a worker
  a, x, y, m1, m2,            \* a listener, matchers, messages
  Leaves,
  MaxSets

VARIABLES
  part,   \* the part this behaviour is about
  doc, patch, prev, diff, merged,
  root, sets, message

MCFiber == {f1, f2, f3}
MCEntry == {h, c, s}
MCBoundary == {h, s}
MCCallback == {c}
MCWorker == {w1}
MCHandlers == <<h>>
FiberSymmetry == Permutations(MCFiber)

\* A matcher is like any other listener for what it does not accept.
MCListener == {a, x, y}
MCMatcher == {x, y}
MCMessage == {m1, m2}
MCMatch(l) == IF l = x THEN {m1, m2} ELSE {m2}

\* Names of which one is the beginning of the other.
MCNames == {<<"m">>, <<"m", "2">>}

\* A message {a = {a = {b = 1}, b = 1}, b = null, materialize = {b = 1}}.
MCTable == {"Root", "Sub", "Deep", "Other", "Fresh"}
MCRetained ==
  [t \in MCTable |-> [k \in {"a", "b", "materialize"} |->
     CASE t = "Root" /\ k = "a" -> "Sub"
       [] t = "Root" /\ k = "b" -> "null"
       [] t = "Root" /\ k = "materialize" -> "Other"
       [] t = "Sub" /\ k = "a" -> "Deep"
       [] t # "Fresh" /\ k = "b" -> "1"
       [] OTHER -> "nil"]]
MCMapOrder == <<"a", "b", "materialize">>

\* Cells of a field, a byte shortened to 3 bits; a bit array has one bit more than
\* a list may set, of which the last is out of a pointer's reach.
MCCells(kind) == CASE kind = "bit_array" -> 4
                   [] kind = "bitmask" -> 3
                   [] kind \in {"dyn_string", "dyn_array", "fixed_array", "unique_id"} -> 2
                   [] OTHER -> 1
MCEnumNames == <<<<120>>, <<121>>>>
MCMemory == {[i \in 0..4 |-> 0], [i \in 0..4 |-> 1], [i \in 0..4 |-> i % 2]}

\* One number is not whole: 5 stands for 2.7, and is rounded to 3.
MCRounded(n) == IF n = 5 THEN 3 ELSE n

\* Values at and behind every limit, and of other types.
MCVariants ==
  {Num(2), Num(5), Str(<<>>), Str(<<120>>), Str(<<120, 121>>), Uuid(<<200, 16>>), Uuid(<<7, 0>>)}
    \cup {List(l) : l \in {<<>>, <<1>>, <<2, 0>>, <<5, 4>>, <<0, 2, 1>>, <<1, 0, 1, 1>>}}

\* A master without a query, and one whose query has all registers.
MCKeys == <<"a", "b">>
MCQueries == {[index |-> 0, count |-> n] : n \in {0, MaxIndex + 4}}

\* Sound for one word and not for two, and the other way round.
MCPackings == {p \in Packing : p.byte # p.word}

\* Bytes that tell every order of them apart.
MCWords == {<<5, 6>>}

\* Numbers, one of them not whole (0.4), and a text; a float has other bytes.
Number(bytes, whole) == [bytes |-> bytes, whole |-> whole]
MCValues == {Number(bytes, TRUE) : bytes \in {<<1, 2, 0, 0>>, <<1, 2, 3, 4>>, <<>>}}
              \cup {Number(<<0, 0, 0, 0>>, FALSE)}
MCToUInt(v) == v.bytes
MCToBool(v) == v.bytes # <<0, 0, 0, 0>> \/ ~v.whole
MCToFloat(v) == Reverse(v.bytes)

\* Contents with the bytes framing treats specially: END and ESC, and CR at the
\* end.
MCBodies == {<<192, 219>>, <<120>>, <<13>>}

Patch == INSTANCE Maps WITH Keys <- {<<"a">>, <<"b">>}, result <- merged

\* Below a name, below an element, with a leading and a lone separator.
MCPaths ==
  LET k == <<"s", "k">>  l == <<"s", "l">>  one == <<"n", "1">>  two == <<"n", "2">>  blank == <<"s", "">>
  IN {<<k>>, <<k, l>>, <<k, one>>, <<k, two>>, <<blank, k, l>>, <<blank>>, <<one, k>>}
Glue == INSTANCE LuaValues WITH Paths <- MCPaths

ofPatch == <<doc, patch, prev, diff, merged>>
ofGlue == <<root, sets, message>>
safetyVars ==
  <<part, vars, pipeVars, streamsVars, lazyVars, tagsVars, loopbackVars, ofPatch, processVars, codecVars, ofGlue>>

SafetyInit ==
  /\ part \in {"instance", "pipe", "bytes", "messages", "tags", "bus", "poll", "child", "codec",
              "values"}
  /\ LifeInit
  /\ PipesInit
  /\ StreamsInit /\ (part # "bytes" => receiver = "serial" /\ framing = "slip" /\ protocol = "text" /\ ~crc)
  /\ LazyInit /\ (part # "messages" => hashOrder = CHOOSE o \in SetToSeqs(Key) : TRUE)
  /\ TagsInit
  /\ IF part = "bus" THEN LoopbackInit
     ELSE /\ regs = <<>> /\ reads = <<>> /\ data = <<>> /\ slaveState = <<>> /\ masterState = <<>>
          /\ fresh = {} /\ listening = FALSE /\ reconnect = FALSE /\ writes = 0
  /\ IF part = "poll" THEN Patch!Init
     ELSE doc = <<>> /\ patch = <<>> /\ prev = <<>> /\ diff = <<>> /\ merged = 0
  /\ ProcessInit /\ (part # "child" => starts = 0)
  /\ IF part = "codec" THEN CodecInit
     ELSE msgType = <<>> /\ input = <<>> /\ payload = Empty /\ output = Output("none", Empty)
  /\ Glue!LuaInit

SafetyNext ==
  \/ part = "instance" /\ LifeNext
     /\ UNCHANGED <<part, pipeVars, streamsVars, lazyVars, tagsVars, loopbackVars, ofPatch, processVars, codecVars, ofGlue>>
  \/ part = "pipe" /\ PipesNext
     /\ UNCHANGED <<part, vars, streamsVars, lazyVars, tagsVars, loopbackVars, ofPatch, processVars, codecVars, ofGlue>>
  \/ part = "bytes" /\ StreamsNext
     /\ UNCHANGED <<part, vars, pipeVars, lazyVars, tagsVars, loopbackVars, ofPatch, processVars, codecVars, ofGlue>>
  \/ part = "messages" /\ LazyNext
     /\ UNCHANGED <<part, vars, pipeVars, streamsVars, tagsVars, loopbackVars, ofPatch, processVars, codecVars, ofGlue>>
  \/ part = "tags" /\ TagsNext
     /\ UNCHANGED <<part, vars, pipeVars, streamsVars, lazyVars, loopbackVars, ofPatch, processVars, codecVars, ofGlue>>
  \/ part = "bus" /\ LoopbackNext
     /\ UNCHANGED <<part, vars, pipeVars, streamsVars, lazyVars, tagsVars, ofPatch, processVars, codecVars, ofGlue>>
  \/ part = "poll" /\ Patch!Next
     /\ UNCHANGED <<part, vars, pipeVars, streamsVars, lazyVars, tagsVars, loopbackVars, processVars, codecVars, ofGlue>>
  \/ part = "child" /\ ProcessNext
     /\ UNCHANGED <<part, vars, pipeVars, streamsVars, lazyVars, tagsVars, loopbackVars, ofPatch, codecVars, ofGlue>>
  \/ part = "codec" /\ CodecNext
     /\ UNCHANGED <<part, vars, pipeVars, streamsVars, lazyVars, tagsVars, loopbackVars, ofPatch, processVars, ofGlue>>
  \/ part = "values" /\ Glue!LuaNext
     /\ UNCHANGED <<part, vars, pipeVars, streamsVars, lazyVars, tagsVars, loopbackVars, ofPatch, processVars, codecVars>>

SafetySpec ==
  SafetyInit /\ [][SafetyNext]_safetyVars

\* Maps: what a poll merges into a state is what the fields say.
MapsAgree == part = "poll" => Patch!MapsAgree

\* LuaValues: get() reads what set() wrote, and messages keep their shape.
ValuesTravel == Glue!ValuesTravel
=============================================================================
