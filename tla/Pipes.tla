------------------------------- MODULE Pipes -------------------------------
(***************************************************************************)
(* The listeners of one pipe source (builtins.lua): pipe() appends one,    *)
(* its cancel() removes it, and call_all() delivers a message by an ipairs *)
(* loop over the live table.  A listener is script code on a fiber: it may *)
(* suspend in the middle of a delivery, and match_msg() (async.lua) makes  *)
(* listeners that cancel themselves while they are being called.           *)
(***************************************************************************)
EXTENDS Naturals, Sequences, FiniteSets

CONSTANTS
  Listener,   \* listener functions, each connected at most once
  Matcher,    \* those made by match_msg()
  Message,    \* messages, each sent at most once
  Match(_)    \* the messages a matcher's filter accepts

\* What is assumed of them.
ASSUME PipesAssumption == Matcher \subseteq Listener

VARIABLES
  listeners,  \* the table :get_listeners() returns
  unused,     \* listeners that were not connected yet
  at,         \* the index of each message's ipairs loop, 0 when it is not running
  due,        \* the listeners each message's loop found at its start
  steady,     \* running deliveries under which nothing was removed so far
  got,        \* the messages each listener was called with
  twice,      \* history: some listener got a message twice
  result      \* what each match_msg() promise resolved with

pipeVars == <<listeners, unused, at, due, steady, got, twice, result>>

InTable == {listeners[i] : i \in 1..Len(listeners)}

PipesInit ==
  /\ listeners = <<>>
  /\ unused = Listener
  /\ at = [m \in Message |-> 0]
  /\ due = [m \in Message |-> {}]
  /\ steady = {}
  /\ got = [l \in Listener |-> {}]
  /\ twice = FALSE
  /\ result = [l \in Matcher |-> {}]

\* connect(): the listener is appended.
Connect(l) ==
  /\ l \in unused
  /\ unused' = unused \ {l}
  /\ listeners' = Append(listeners, l)
  /\ UNCHANGED <<at, due, steady, got, twice, result>>

\* table.remove() of the place of l, which is in the table once.
RemoveListener(l) ==
  \E j \in 1..Len(listeners) :
    /\ listeners[j] = l
    /\ listeners' = [i \in 1..(Len(listeners) - 1) |->
                       IF i < j THEN listeners[i] ELSE listeners[i + 1]]

\* cancel(), called by a script.
Cancel(l) ==
  /\ RemoveListener(l)
  /\ steady' = {}
  /\ UNCHANGED <<unused, at, due, got, twice, result>>

\* notify_all() or a worker's message: call_all() starts.
Notify(m) ==
  /\ at[m] = 0
  /\ due[m] = {}
  /\ InTable # {}
  /\ at' = [at EXCEPT ![m] = 1]
  /\ due' = [due EXCEPT ![m] = InTable]
  /\ steady' = steady \union {m}
  /\ UNCHANGED <<listeners, unused, got, twice, result>>

\* The loop's next listener is called, whatever the table holds by now.  A
\* matcher whose filter accepts cancels itself, then resolves its promise.
Deliver(m) ==
  LET l == listeners[at[m]]
      hit == l \in Matcher /\ m \in Match(l)
  IN
  /\ at[m] \in 1..Len(listeners)
  /\ got' = [got EXCEPT ![l] = @ \union {m}]
  /\ twice' = (twice \/ m \in got[l])
  /\ IF hit THEN /\ RemoveListener(l)
                 /\ steady' = {}
                 /\ result' = [result EXCEPT ![l] = @ \union {m}]
            ELSE UNCHANGED <<listeners, steady, result>>
  /\ at' = [at EXCEPT ![m] = @ + 1]
  /\ UNCHANGED <<unused, due>>

\* Mutant of Finish: the last listener is left out.
FinishEarly(m) ==
  /\ at[m] > 0
  /\ at[m] >= Len(listeners)
  /\ at' = [at EXCEPT ![m] = 0]
  /\ UNCHANGED <<listeners, unused, due, steady, got, twice, result>>

\* ipairs finds nothing at its index: the delivery is over.
Finish(m) ==
  /\ at[m] > Len(listeners)
  /\ at' = [at EXCEPT ![m] = 0]
  /\ UNCHANGED <<listeners, unused, due, steady, got, twice, result>>

PipesNext ==
  \/ \E l \in Listener : Connect(l) \/ Cancel(l)
  \/ \E m \in Message : Notify(m) \/ Deliver(m) \/ Finish(m)

PipesSpec == PipesInit /\ [][PipesNext]_pipeVars

-----------------------------------------------------------------------------
(* Properties                                                              *)

\* The types of the variables.
PipesTypeOK ==
  /\ listeners \in Seq(Listener)
  /\ unused \subseteq Listener
  /\ at \in [Message -> Nat]
  /\ due \in [Message -> SUBSET Listener]
  /\ steady \subseteq Message
  /\ got \in [Listener -> SUBSET Message]
  /\ twice \in BOOLEAN
  /\ result \in [Matcher -> SUBSET Message]

\* A listener is in the table once, and is not connected again.
TableSound ==
  /\ \A i, j \in 1..Len(listeners) : listeners[i] = listeners[j] => i = j
  /\ \A l \in unused : got[l] = {} /\ \A i \in 1..Len(listeners) : listeners[i] # l

\* Nobody ahead of a loop has its message yet, and nobody at all before the
\* delivery began.
AheadFresh ==
  /\ \A m \in Message : at[m] > 0 =>
       \A i \in 1..Len(listeners) : at[m] <= i => m \notin got[listeners[i]]
  /\ \A m \in Message : due[m] = {} => at[m] = 0 /\ \A l \in Listener : m \notin got[l]

\* While nothing is removed, whoever a delivery found at its start has the
\* message or is ahead of the loop.
SteadyReaches ==
  \A m \in steady : at[m] > 0 =>
    \A l \in due[m] : m \in got[l] \/ \E i \in 1..Len(listeners) : at[m] <= i /\ listeners[i] = l

\* No listener gets one message twice, although the table shrinks and grows
\* under the loops that walk it.
NoDoubleDelivery == ~twice

\* A delivery during which no listener was removed reaches every listener it
\* found at its start, whatever was connected or sent meanwhile.
NobodySkipped ==
  [][\A m \in steady : at[m] > 0 /\ at'[m] = 0
       => \A l \in due[m] : m \in got[l]]_pipeVars

\* Nobody is called twice, and why.
PipesInv == PipesTypeOK /\ NoDoubleDelivery /\ TableSound /\ AheadFresh /\ SteadyReaches

\* Both together: a delivery reaches whom it should, once.
DeliveredOnce == []PipesInv /\ NobodySkipped

\* match_msg() resolves with the first message its filter accepts: none that
\* was delivered before reached the table while the matcher was in it.
FirstMatch ==
  [][\A l \in Matcher, m \in Message :
       m \in result'[l] \ result[l]
         => \A n \in Message \ {m} : n \in Match(l) /\ l \in due[n] => at[n] > 0]_pipeVars
=============================================================================
