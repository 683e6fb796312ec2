-------------------------------- MODULE Maps --------------------------------
(***************************************************************************)
(* Nested messages as flat maps and back, and the merge of a patch into a  *)
(* state (utils.cpp).  A message is a leaf, the null value, a list, or a   *)
(* map as the sequence of its <<key, value>> pairs in the order of the     *)
(* keys; a key and a path are sequences of characters, because flatten()   *)
(* cuts its path by lengths.                                               *)
(***************************************************************************)
EXTENDS Naturals, Sequences, SequencesExt, FiniteSets

CONSTANTS Keys,          \* keys of maps: set of sequences of characters
          Leaves         \* scalar values

VARIABLES doc, patch, prev,    \* the state, the last patch and the state before it
          diff, result         \* what the merge reports

vars == <<doc, patch, prev, diff, result>>

Leaf(v) == [type |-> "leaf", value |-> v, items |-> <<>>]
Null == [type |-> "null", value |-> 0, items |-> <<>>]
Map(pairs) == [type |-> "map", value |-> 0, items |-> pairs]
List(seq) == [type |-> "list", value |-> 0, items |-> [i \in 1..Len(seq) |-> << <<>>, seq[i]>>]]

-----------------------------------------------------------------------------
Digit(n) == CHOOSE d \in {"0", "1", "2"} : <<n, d>> \in {<<0, "0">>, <<1, "1">>, <<2, "2">>}

(* The part of the path of item i, with the colon behind it. *)
Part(input, i) ==
  IF input.type = "map" THEN Append(input.items[i][1], ":")
                        ELSE <<"[", Digit(i - 1), "]", ":">>

(* path.resize(path.size() - part.size() + 1): one less than the part,     *)
(* because the leaf below has taken the colon away.                        *)
Cut(path, part) == SubSeq(path, 1, Len(path) - Len(part) + 1)

RECURSIVE FlattenAt(_, _)
FlattenAt(input, acc) ==
  IF input.type \in {"leaf", "null"}
    THEN LET path == IF acc.path = <<>> THEN <<>> ELSE Front(acc.path)
         IN [out |-> Append(acc.out, <<path, input>>), path |-> path]
    ELSE LET Item(a, i) == LET part == Part(input, i)
                               r == FlattenAt(input.items[i][2], [a EXCEPT !.path = @ \o part])
                           IN [r EXCEPT !.path = Cut(@, part)]
         IN FoldLeft(Item, acc, [i \in 1..Len(input.items) |-> i])

Flatten(input) == FlattenAt(input, [out |-> <<>>, path |-> <<>>]).out

-----------------------------------------------------------------------------
(* walkParts(): the parts between the colons of a key, which may begin     *)
(* with one.                                                               *)
Parts(key) ==
  LET Step(acc, c) == IF c = ":" THEN Append(acc, <<>>)
                                 ELSE Append(Front(acc), Append(Last(acc), c))
  IN FoldLeft(Step, << <<>> >>, IF Head(key) = ":" THEN Tail(key) ELSE key)

(* tryInt(): the index in "[n]", or -1 (here 9). *)
TryInt(part) ==
  IF Len(part) = 3 /\ part[1] = "[" /\ part[3] = "]" /\ part[2] \in {"0", "1", "2"}
    THEN CHOOSE n \in 0..2 : Digit(n) = part[2] ELSE 9

(* out[key] = value in a QMap: in its place in the order of the keys.      *)
KeyIndex(k) ==
  IF k \in Keys THEN CHOOSE i \in 1..Cardinality(Keys) : SetToSeq(Keys)[i] = k ELSE 0

Stored(items, key, value) ==
  LET Is(p) == p[1] = key
      known == \E i \in 1..Len(items) : Is(items[i])
  IN IF known THEN [i \in 1..Len(items) |-> IF Is(items[i]) THEN <<key, value>> ELSE items[i]]
     ELSE SelectSeq(items, LAMBDA p : KeyIndex(p[1]) < KeyIndex(key)) \o << <<key, value>> >>
            \o SelectSeq(items, LAMBDA p : KeyIndex(p[1]) > KeyIndex(key))

At(items, key) ==
  LET hits == SelectSeq(items, LAMBDA p : p[1] = key) IN IF hits = <<>> THEN Null ELSE hits[1][2]

(* One entry of Unflatten(): every level becomes a map or a list, whatever *)
(* it was, and a list grows up to the index.                               *)
RECURSIVE Put(_, _, _)
Put(level, parts, value) ==
  LET part == Head(parts)
      idx  == TryInt(part)
      Below(old) == IF Len(parts) = 1 THEN value ELSE Put(old, Tail(parts), value)
      mapped == IF level.type = "map" THEN level.items ELSE <<>>
      listed == IF level.type = "list" THEN level.items ELSE <<>>
      grown  == [i \in 1..(IF Len(listed) > idx THEN Len(listed) ELSE idx + 1) |->
                   IF i <= Len(listed) THEN listed[i] ELSE << <<>>, Null>>]
  IN IF idx = 9 THEN Map(Stored(mapped, part, Below(At(mapped, part))))
     ELSE [type |-> "list", value |-> 0,
           items |-> [grown EXCEPT ![idx + 1] = << <<>>, Below(grown[idx + 1][2])>>]]

Unflatten(flat) ==
  FoldLeft(LAMBDA level, e : IF e[1] = <<>> THEN level ELSE Put(level, Parts(e[1]), e[2]), Null, flat)

-----------------------------------------------------------------------------
(* Mutant: a null in the patch leaves the key alone. *)
ErasedNot(items, key) == items

Erased(items, key) == SelectSeq(items, LAMBDA p : p[1] # key)

(* MergePatch(): maps merge by key, a null erases, anything else replaces. *)
(* With it, the diff it leaves (a null for a key it did not change) and    *)
(* the number of values it changed.                                        *)
RECURSIVE MergePatch(_, _)
MergePatch(out, p) ==
  IF p.type # "map"
    THEN [out |-> p, diff |-> IF out = p THEN Null ELSE p, result |-> IF out = p THEN 0 ELSE 1]
    ELSE LET Step(acc, e) ==
               LET r == MergePatch(At(acc.out, e[1]), e[2])
               IN IF e[2].type = "null"
                    THEN [acc EXCEPT !.out = Erased(@, e[1]), !.diff = Stored(@, e[1], Null)]
                    ELSE [out    |-> Stored(acc.out, e[1], r.out),
                          diff   |-> Stored(acc.diff, e[1], r.diff),
                          result |-> acc.result + r.result]
             r == FoldLeft(Step, [out |-> IF out.type = "map" THEN out.items ELSE <<>>,
                                  diff |-> <<>>, result |-> 0], p.items)
         IN [r EXCEPT !.out = Map(@), !.diff = Map(@)]

-----------------------------------------------------------------------------
(* Messages of two levels, to start from and to merge. *)
MapsOf(vals) ==
  UNION {LET chosen == SelectSeq(SetToSeq(Keys), LAMBDA k : k \in ks)
         IN {Map([i \in 1..Len(chosen) |-> <<chosen[i], f[chosen[i]]>>]) : f \in [ks -> vals]} :
           ks \in SUBSET Keys \ {{}}}

Scalars == {Leaf(v) : v \in Leaves}

Docs == MapsOf(Scalars \cup {List(<<x>>) : x \in Scalars} \cup MapsOf(Scalars))

Patches == MapsOf(Scalars \cup {Null} \cup MapsOf(Scalars \cup {Null}))

Init ==
  /\ doc \in Docs
  /\ prev = doc
  /\ patch = Map(<<>>)
  /\ diff = Map(<<>>)
  /\ result = 0

(* A poll's unflattened fields are merged into the state. *)
Merge(p) ==
  LET r == MergePatch(doc, p)
  IN /\ doc' = r.out
     /\ diff' = r.diff
     /\ result' = r.result
     /\ patch' = p
     /\ prev' = doc

Next == patch = Map(<<>>) /\ \E p \in Patches : Merge(p)

Spec == Init /\ [][Next]_vars

-----------------------------------------------------------------------------
(* The values of a message under the keys that lead to them. *)
RECURSIVE ValuesAt(_, _)
ValuesAt(d, path) ==
  IF d.type = "map" THEN UNION {ValuesAt(d.items[i][2], Append(path, d.items[i][1])) : i \in 1..Len(d.items)}
                    ELSE {<<path, d>>}

Values(d) == ValuesAt(d, <<>>)

Related(a, b) == IsPrefix(a, b) \/ IsPrefix(b, a)

(* MergePatch() (utils.cpp), recursive over two maps at once, is an        *)
(* overlay: every value of the patch is in the state, a null of it and     *)
(* whatever stood above or below one of its values is gone, and nothing    *)
(* else moved; its diff holds exactly the values that changed and its      *)
(* result is their number.                                                 *)
MergeIsOverlay ==
  LET Present(vs) == {v \in vs : v[2].type # "null"}
      patched == Values(patch)
      changed == Present(patched) \ Values(prev)
  IN /\ Values(doc) = Present(patched)
           \cup {v \in Values(prev) : ~\E e \in patched : Related(e[1], v[1])}
     /\ Present(Values(diff)) = changed
     /\ result = Cardinality(changed)

(* A container is the last item of the map that holds it. *)
NothingFollowsContainer(d) ==
  \A i \in 1..(Len(d.items) - 1) : d.items[i][2].type \in {"leaf", "null"}

(* Flatten() cuts its path by the length of the part it has appended, one  *)
(* less for the colon the leaf took: wherever no item follows a nested     *)
(* container the flat message unflattens to the message it came from, also *)
(* when its keys are given with a colon in front.                          *)
FlattenRoundTrip ==
  LET flat == Flatten(doc)
      colons == [i \in 1..Len(flat) |-> << <<":">> \o flat[i][1], flat[i][2]>>]
  IN NothingFollowsContainer(doc) /\ patch = Map(<<>>) =>
       Unflatten(flat) = doc /\ Unflatten(colons) = doc

(* Both together: what a poll merges is what the fields say.               *)
MapsAgree == MergeIsOverlay /\ FlattenRoundTrip
=============================================================================
