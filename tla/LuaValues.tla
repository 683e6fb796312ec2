----------------------------- MODULE LuaValues -----------------------------
(***************************************************************************)
(* get() and set() on nested tables, and the conversions that carry a      *)
(* table out of Lua and back in, at every worker (src/src/builtin.cpp).    *)
(*                                                                         *)
(* A value is nil, a scalar, a table or, outside of Lua, a map or a list;  *)
(* items is a function from its keys.  A key of a table is <<"s", name>>   *)
(* or <<"n", digits>>; a path is the sequence of its parts, the text       *)
(* between separators, and a part "[1]" is written <<"n", "1">>.           *)
(***************************************************************************)
EXTENDS Naturals, SequencesExt

CONSTANTS Paths,    \* paths in this instance
          MaxSets   \* bound on set() calls

VARIABLES
  root,     \* the script's table
  sets,     \* history: the calls <<path, value>> of set()
  message   \* what a worker got of it

luaVars == <<root, sets, message>>

NoItems == [k \in {} |-> 0]
Nil == [is |-> "nil", value |-> 0, items |-> NoItems]
Scalar(v) == [is |-> "scalar", value |-> v, items |-> NoItems]
Of(is, items) == [is |-> is, value |-> 0, items |-> items]
Empty == Of("table", NoItems)

Digits == <<"1", "2", "3">>
Index(i) == <<"n", Digits[i]>>

\* lua_rawget() and lua_rawset(): nil is no value.
RawGet(t, key) == IF key \in DOMAIN t.items THEN t.items[key] ELSE Nil
RawSet(t, key, v) ==
  LET keys == IF v = Nil THEN DOMAIN t.items \ {key} ELSE DOMAIN t.items \cup {key}
  IN Of(t.is, [k \in keys |-> IF k = key THEN v ELSE t.items[k]])

\* The parts get() and set() walk: a separator at the start adds none, and an
\* empty path or a lone separator means the table itself.
Blank == <<"s", "">>
Walked(path) ==
  IF path \in {<<>>, <<Blank>>, <<Blank, Blank>>} THEN <<>>
  ELSE IF Head(path) = Blank THEN Tail(path) ELSE path

\* get(): nil as soon as a part is missing.  Below a scalar lua_rawget() is
\* undefined, so there is no value to give (see Defined).
RECURSIVE GetAt(_, _)
GetAt(t, parts) ==
  IF parts = <<>> \/ t = Nil THEN t ELSE GetAt(RawGet(t, Head(parts)), Tail(parts))

Get(t, path) == GetAt(t, Walked(path))

\* get() does not ask for an item of a scalar.
RECURSIVE Defined(_, _)
Defined(t, parts) ==
  \/ parts = <<>> \/ t = Nil
  \/ t.is # "scalar" /\ Defined(RawGet(t, Head(parts)), Tail(parts))

\* set(): what is not a table on the way becomes a new one.
RECURSIVE SetAt(_, _, _)
SetAt(t, parts, v) ==
  LET next == RawGet(t, Head(parts))
      below == IF next.is = "table" THEN next ELSE Empty
  IN IF Len(parts) = 1 THEN RawSet(t, Head(parts), v)
     ELSE RawSet(t, Head(parts), SetAt(below, Tail(parts), v))

-----------------------------------------------------------------------------

\* Elements of the array part toQVar() takes: up to the first nil.
Length(t) ==
  LET upto == {n \in 0..Len(Digits) : \A i \in 1..n : Index(i) \in DOMAIN t.items}
  IN CHOOSE n \in upto : \A m \in upto : m <= n

\* Keys of the map toQVar() makes of a table: numbers become strings.
Named(t) == {<<"s", k[2]>> : k \in DOMAIN t.items}

\* Mutant of ToQVar: a table is a list only if it has nothing but elements.
RECURSIVE ToQVarStrict(_)
ToQVarStrict(v) ==
  IF v.is # "table" THEN v
  ELSE IF DOMAIN v.items = {Index(i) : i \in 1..Length(v)}
       THEN Of("list", [k \in DOMAIN v.items |-> ToQVarStrict(v.items[k])])
       ELSE Of("map", [k \in Named(v) |->
              ToQVarStrict(v.items[IF k \in DOMAIN v.items THEN k ELSE <<"n", k[2]>>])])

\* toQVar(): a table with an element 1 is a list up to the first nil, and its
\* other keys are left out; any other table is a map, in which numbers become
\* strings.  Of a number and a string that come to one key the later one in the
\* table's order remains (here the string; the instances have no such tables).
RECURSIVE ToQVar(_)
ToQVar(v) ==
  IF v.is # "table" THEN v
  ELSE IF Index(1) \in DOMAIN v.items
       THEN Of("list", [k \in {Index(i) : i \in 1..Length(v)} |-> ToQVar(v.items[k])])
       ELSE Of("map", [k \in Named(v) |->
              ToQVar(v.items[IF k \in DOMAIN v.items THEN k ELSE <<"n", k[2]>>])])

\* glua::Push(): maps and lists become tables, an invalid value nil.
RECURSIVE Push(_)
Push(q) ==
  IF q.is \notin {"map", "list"} THEN q
  ELSE LET present == {k \in DOMAIN q.items : q.items[k] # Nil}
       IN Of("table", [k \in present |-> Push(q.items[k])])

-----------------------------------------------------------------------------

LuaInit == root = Empty /\ sets = <<>> /\ message = Nil

Set(path, v) ==
  /\ Len(sets) < MaxSets
  /\ root' = IF Walked(path) = <<>> THEN root ELSE SetAt(root, Walked(path), v)
  /\ sets' = Append(sets, <<path, v>>)
  /\ UNCHANGED message

\* A worker's OnMsg() is given the table.
Send == /\ message = Nil /\ sets # <<>>
        /\ message' = ToQVar(root)
        /\ UNCHANGED <<root, sets>>

LuaNext ==
  \/ Send
  \/ message = Nil /\ \E path \in Paths, v \in {Nil, Scalar(1), Scalar(2), Empty} : Set(path, v)

LuaSpec == LuaInit /\ [][LuaNext]_luaVars

-----------------------------------------------------------------------------

Related(p, q) == IsPrefix(p, q) \/ IsPrefix(q, p)

\* Calls of set() that no later one is above or below of.
Standing ==
  {i \in 1..Len(sets) : /\ Walked(sets[i][1]) # <<>>
                        /\ \A j \in (i + 1)..Len(sets) :
                              \/ Walked(sets[j][1]) = <<>>
                              \/ ~Related(Walked(sets[i][1]), Walked(sets[j][1]))}

\* A table whose keys have one meaning outside of Lua: elements 1 to n, or names.
RECURSIVE Regular(_)
Regular(v) ==
  v.is = "table" =>
    /\ \/ DOMAIN v.items = {Index(i) : i \in 1..Length(v)}
       \/ \A k \in DOMAIN v.items : k[1] = "s"
    /\ \A k \in DOMAIN v.items : Regular(v.items[k])

\* get() and set() walk paths alike, whatever the tables were before: what
\* set() put somewhere is read there until a later call writes above or below.
\* A worker's toQVar() and the Push() of whoever receives the message agree on
\* what a table is: the first n elements of every list get through, and a
\* message without mixed tables comes back as it was (an empty list too, which
\* travels as a map).
ValuesTravel ==
  /\ \A i \in Standing :
        LET path == sets[i][1]
        IN Defined(root, Walked(path)) /\ Get(root, path) = sets[i][2]
  /\ message # Nil =>
        /\ Regular(root) => Push(message) = root
        /\ \A p \in Paths :
              LET was == Get(root, p)  is == Get(Push(message), p)
              IN Defined(root, Walked(p)) /\ was.is = "table" /\ is.is = "table" =>
                    \A i \in 1..Length(was) : Index(i) \in DOMAIN is.items
=============================================================================
