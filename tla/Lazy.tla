-------------------------------- MODULE Lazy --------------------------------
(***************************************************************************)
(* A message as the script sees it (lazy.cpp): views over the retained     *)
(* tree until the first write, then one plain Lua table that every view    *)
(* resolves through by its path.  Beside it runs the plain table a message *)
(* used to be, to compare with: a captured view stands for the chain of    *)
(* keys it was read by.  The message is a tree of tables below Root; the   *)
(* script holds the message and one captured value, which may be nested at *)
(* any depth, and may run one loop over the message.                       *)
(***************************************************************************)
EXTENDS Naturals, Sequences, SequencesExt, FiniteSets

CONSTANTS
  Key, Datum,   \* keys of tables, and numbers and booleans
  Table,        \* the tables of a message, Root and Fresh among them
  Retained,     \* the retained tree: what is under a key of a table
  MapOrder,     \* the order in which QVariantMap keeps the keys
  MaxAssigns    \* bound on assignments

Root == "Root"
Fresh == "Fresh"      \* a table the script makes
Nil == "nil"
Null == "null"        \* a field that is there and holds nothing
Materialize == "materialize"
Method == "method"    \* what a view has under that key
Nothing == "none"
Raised == "error"
Value == Datum \cup {Nil} \cup Table

ASSUME LazyAssumption ==
  /\ MaxAssigns \in Nat
  /\ Root \in Table /\ Fresh \in Table
  /\ Retained \in [Table -> [Key -> Value \cup {Null}]]
  /\ Nothing \notin Key /\ Nil \notin Table
  /\ MapOrder \in Seq(Key) /\ Key = {MapOrder[i] : i \in 1..Len(MapOrder)}
  /\ \A i, j \in 1..Len(MapOrder) : MapOrder[i] = MapOrder[j] => i = j

VARIABLES
  hashOrder,      \* the order in which next() visits the keys of a table
  materialized,   \* LazyOwner::materialized
  heap,           \* the tables of the message, once it is materialized
  plain,          \* the tables of the plain message
  captured,       \* what the script captured: "none", "view" or "table"
  path,           \* the key chain of the captured view
  table,          \* the table it captured
  moved,          \* a table on the way to the captured one was assigned over
  loop,           \* "none", "view" (NextPair), "next" or "done"
  last,           \* the loop's control value, Nothing before the first step
  seen,           \* keys the loop was given, in order
  assigns

lazyVars == <<hashOrder, materialized, heap, plain, captured, path, table, moved, loop, last, seen, assigns>>

\* Push of a field: a null is nil, so the table of a map has no such field.
PushValue(v) == IF v = Null THEN Nil ELSE v
PushedTree == [t \in Table |-> [k \in Key |-> PushValue(Retained[t][k])]]

LazyInit ==
  /\ hashOrder \in SetToSeqs(Key)
  /\ materialized = FALSE
  /\ heap = PushedTree /\ plain = PushedTree
  /\ captured = Nothing /\ path = <<>> /\ table = Nothing /\ moved = FALSE
  /\ loop = Nothing /\ last = Nothing /\ seen = <<>>
  /\ assigns = 0

\* PushResolved: what a path is in the message's table; a missing level raises.
Lookup(h, t, k) == IF t \in Table THEN h[t][k] ELSE Raised
Walked(h, p) ==
  LET level[i \in 0..Len(p)] == IF i = 0 THEN Root ELSE Lookup(h, level[i - 1], p[i])
  IN level
Resolved(h, p) == Walked(h, p)[Len(p)]

\* PushIndexed on the view with path p: the retained tree, or the table it became.
PushIndexed(p, k) ==
  IF materialized THEN Lookup(heap, Resolved(heap, p), k)
                  ELSE PushValue(Lookup(Retained, Resolved(Retained, p), k))

\* What a script reads through that view: the key of the method is never looked up.
NodeIndexed(p, k) == IF k = Materialize THEN Method ELSE PushIndexed(p, k)

\* The script keeps the table it read under k: a child view before the first
\* write, afterwards the table itself.
Keep(k) ==
  /\ PushIndexed(path, k) \in Table
  /\ captured' = IF materialized THEN "table" ELSE "view"
  /\ path' = IF materialized THEN <<>> ELSE Append(path, k)
  /\ table' = PushIndexed(path, k)
  /\ UNCHANGED <<hashOrder, materialized, heap, plain, moved, loop, last, seen, assigns>>

\* NodeIndex on the message or on the captured view: x = msg[k] or x = x[k].
NodeIndex(k) == captured \in {Nothing, "view"} /\ NodeIndexed(path, k) \in Table /\ Keep(k)

\* The view NextPair gives with the key, which may be the one of the method.
PairValue ==
  /\ captured = Nothing /\ loop = "view" /\ ~materialized /\ last # Nothing
  /\ Keep(last)

\* What an assignment or a read through the captured value refers to.
Target(h) == IF captured = "view" THEN Resolved(h, path) ELSE table

\* The field k of t is one the captured view is found through.
OnPath(t, k) == \E i \in 1..Len(path) : Walked(heap, path)[i - 1] = t /\ path[i] = k

\* The fields a script may assign while it loops are the ones that are there.
Assignable(t, k, v) ==
  /\ assigns < MaxAssigns
  /\ v = Fresh => ~\E u \in Table, j \in Key : heap[u][j] = Fresh \/ plain[u][j] = Fresh
  /\ loop # Nothing => loop # "done" /\ (plain[Root][k] # Nil \/ t # Root)

Assigned(h, t, k, v) == IF t \in Table THEN [h EXCEPT ![t][k] = v] ELSE h

\* MaterializeMessage: the whole retained tree becomes a table, once.
MaterializeMessage == materialized' = TRUE

\* Mutant of NodeNewIndex: a nested view writes into a copy of its own.
WriteDetached(t, tPlain, k, v) ==
  /\ Assignable(tPlain, k, v)
  /\ MaterializeMessage
  /\ heap' = IF t = Root THEN Assigned(heap, t, k, v) ELSE heap
  /\ plain' = Assigned(plain, tPlain, k, v)
  /\ moved' = (moved \/ OnPath(t, k))
  /\ assigns' = assigns + 1
  /\ UNCHANGED <<hashOrder, captured, path, table, loop, last, seen>>

\* NodeNewIndex, and set() through MaterializeInPlace: the whole message becomes
\* a table and the place of the view in it is assigned to, which raises when
\* there is no table any more.  The plain message is assigned to by the same keys.
NodeNewIndex(t, tPlain, k, v) ==
  /\ Assignable(tPlain, k, v)
  /\ MaterializeMessage
  /\ heap' = Assigned(heap, t, k, v)
  /\ plain' = Assigned(plain, tPlain, k, v)
  /\ moved' = (moved \/ OnPath(t, k))
  /\ assigns' = assigns + 1
  /\ UNCHANGED <<hashOrder, captured, path, table, loop, last, seen>>

\* NodeMaterialize on the message or on the captured view: the table at its place
\* is what the script has then.
NodeMaterialize ==
  /\ captured \in {Nothing, "view"}
  /\ Resolved(heap, path) \in Table
  /\ MaterializeMessage
  /\ captured' = "table"
  /\ table' = Resolved(heap, path)
  /\ path' = <<>>
  /\ UNCHANGED <<hashOrder, heap, plain, moved, loop, last, seen, assigns>>

\* NodePairs over the message.
NodePairs ==
  /\ loop = Nothing
  /\ loop' = IF materialized THEN "next" ELSE "view"
  /\ UNCHANGED <<hashOrder, materialized, heap, plain, captured, path, table, moved, last, seen, assigns>>

\* The key behind the previous one in an order, among those of a map or a table.
Following(order, t, k) ==
  LET from == IF k = Nothing THEN 0 ELSE CHOOSE i \in 1..Len(order) : order[i] = k
      left == {i \in (from + 1)..Len(order) : t[order[i]] # Nil}
  IN IF left = {} THEN Nothing ELSE order[CHOOSE i \in left : \A j \in left : i <= j]

\* NextPair: the retained map in its order, null fields included, but next() of
\* the table once the message is one.
NextPair ==
  LET k == IF loop = "next" \/ materialized
           THEN Following(hashOrder, heap[Root], last)
           ELSE Following(MapOrder, Retained[Root], last)
  IN
  /\ loop \in {"view", "next"}
  /\ last' = k
  /\ seen' = IF k = Nothing THEN seen ELSE Append(seen, k)
  /\ loop' = IF k = Nothing THEN "done" ELSE loop
  /\ UNCHANGED <<hashOrder, materialized, heap, plain, captured, path, table, moved, assigns>>

\* next() of the table behind a null field, which the table may have no trace of.
NextPairRaises ==
  /\ loop = "view" /\ materialized
  /\ last # Nothing /\ Retained[Root][last] = Null /\ heap[Root][last] = Nil
  /\ loop' = Raised
  /\ UNCHANGED <<hashOrder, materialized, heap, plain, captured, path, table, moved, last, seen, assigns>>

LazyNext ==
  \/ \E k \in Key : NodeIndex(k)
  \/ \E k \in Key, v \in Datum \cup {Nil, Fresh} :
       \/ NodeNewIndex(Root, Root, k, v)
       \/ captured # Nothing /\ NodeNewIndex(Target(heap), Target(plain), k, v)
  \/ PairValue \/ NodeMaterialize \/ NodePairs \/ NextPair \/ NextPairRaises

LazySpec == LazyInit /\ [][LazyNext]_lazyVars

-----------------------------------------------------------------------------
(* Properties                                                              *)

\* A field read through the message or through a captured view, before and after
\* writes through either, is the one the plain message has at the end of the same
\* keys: a write through a nested view lands in the message and a view follows it.
\* As long as no table on the way is assigned over, that is the table which was
\* captured.  Only the key of the method never reads a field through a view.  A
\* loop over a message nobody writes to is given its fields and the null ones; one
\* in which a field is assigned may miss some (NextPair goes on in another order).
ReadsLikePlain ==
  \A k \in Key :
    /\ k # Materialize => NodeIndexed(<<>>, k) = plain[Root][k]
    /\ captured = "view" /\ k # Materialize =>
         /\ NodeIndexed(path, k) = Lookup(plain, Resolved(plain, path), k)
         /\ ~moved => NodeIndexed(path, k) = plain[table][k]
    /\ captured = "table" => heap[table][k] = plain[table][k]
    /\ loop = "done" /\ ~materialized =>
         (plain[Root][k] # Nil \/ Retained[Root][k] = Null <=> Contains(seen, k))

-----------------------------------------------------------------------------
(* What ReadsLikePlain rests on                                            *)

LazyTypeOK ==
  /\ materialized \in BOOLEAN /\ moved \in BOOLEAN
  /\ heap \in [Table -> [Key -> Value]]
  /\ captured \in {Nothing, "view", "table"} /\ path \in Seq(Key)

\* The message is its plain twin, and the retained tree until the first write.
SameTables == heap = plain /\ (~materialized => heap = PushedTree)

\* A captured view leads to the table that was captured, if the way is the same.
\* No level of it is raised or null in the retained tree before the first write.
ViewsFollow ==
  /\ captured # "view" => path = <<>>
  /\ captured # Nothing => table \in Table
  /\ captured = "view" /\ ~moved => Resolved(heap, path) = table
  /\ ~materialized => ~moved /\ Resolved(Retained, path) = Resolved(heap, path)

\* The fields among the first n keys of the retained map.
FieldsUpTo(n) == {MapOrder[i] : i \in {j \in 1..n : Retained[Root][MapOrder[j]] # Nil}}

\* A loop over the retained map has been given the fields up to its last key.
LoopInOrder ==
  ~materialized =>
    /\ loop \in {Nothing, "view", "done"} /\ seen \in Seq(Key)
    /\ loop = Nothing => last = Nothing /\ seen = <<>>
    /\ loop = "view" => \E n \in 0..Len(MapOrder) :
         /\ last = IF n = 0 THEN Nothing ELSE MapOrder[n]
         /\ Range(seen) = FieldsUpTo(n)
    /\ loop = "done" => Range(seen) = FieldsUpTo(Len(MapOrder))

LazyInv == LazyTypeOK /\ SameTables /\ ViewsFollow /\ LoopInOrder
=============================================================================
