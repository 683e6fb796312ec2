-------------------------- MODULE TransportsProofs --------------------------
(***************************************************************************)
(* Proofs about the workers that wait for another process: Sockets for any *)
(* clients, failures and messages, Requests for any workers and requests,  *)
(* Streams for any messages, damage and chunks.                            *)
(***************************************************************************)
EXTENDS Sockets, Requests, Streams, SequenceTheorems, WellFoundedInduction, TLAPS

-----------------------------------------------------------------------------
(* Sockets                                                                 *)

\* Nothing is connected, nothing was told.
LEMMA SocketsInitInv == ASSUME SocketsAssumption, Init PROVE SocketsInv
BY DEF SocketsAssumption, Init, SocketsInv, IdsPlaced, EventsMatchRouting

\* Every step of the servers and the clients keeps SocketsInv.
LEMMA SocketsNextInv ==
  ASSUME SocketsInv, [Next]_vars
  PROVE  SocketsInv'
<1> USE DEF SocketsInv, IdsPlaced, EventsMatchRouting
<1>1. CASE \E c \in Client : Established(c)
  BY <1>1 DEF Established, configVars
<1>2. CASE \E i \in Id : Accept(i)
  BY <1>2 DEF Accept, AtLoop, configVars
<1>3. CASE \E i \in Id : Disconnected(i)
  BY <1>3 DEF Disconnected, AtLoop, configVars
<1>4. CASE \E i \in Id : Deleted(i)
  BY <1>4 DEF Deleted, AtLoop, configVars
<1>11. CASE DisconnectedTold
  BY <1>11 DEF DisconnectedTold, AtLoop, configVars
<1>5. CASE UNCHANGED <<configVars, serverVars>>
  BY <1>5 DEF configVars, serverVars
<1>6. ASSUME NEW c \in Client,
             CreateClient(c) \/ Unconnected(c) \/ Reopen(c) \/ ClientRead(c)
      PROVE  UNCHANGED <<configVars, serverVars>>
  BY <1>6 DEF CreateClient, Unconnected, Reopen, ClientRead
<1>7. ASSUME NEW c \in Client, NEW m \in {"good", Bad}, ClientOnMsg(c, m)
      PROVE  UNCHANGED <<configVars, serverVars>>
  BY <1>7 DEF ClientOnMsg
<1>8. ASSUME NEW i \in Id, Read(i)
      PROVE  UNCHANGED <<configVars, serverVars>>
  BY <1>8 DEF Read
<1>9. ASSUME NEW to \in 0..counter, ServerOnMsg(to)
      PROVE  UNCHANGED <<configVars, serverVars>>
  BY <1>9 DEF ServerOnMsg
<1>10. CASE UNCHANGED vars
  BY <1>5, <1>10 DEF vars
<1> QED
  BY <1>1, <1>2, <1>3, <1>4, <1>5, <1>6, <1>7, <1>8, <1>9, <1>10, <1>11 DEF Next

\* SocketsInv holds in every reachable state.
THEOREM SocketsInvariant == SocketsAssumption /\ Spec => []SocketsInv
<1>1. SocketsAssumption /\ Init => SocketsInv
  BY SocketsInitInv
<1>2. SocketsInv /\ [Next]_vars => SocketsInv'
  BY SocketsNextInv
<1> QED
  BY <1>1, <1>2, PTL DEF Spec

\* What a script was told of connections is what the server routes to
\* (Server::accept() and its slots in local.cpp and websocket.cpp).
THEOREM SocketsEventsMatchRouting == SocketsAssumption /\ Spec => []EventsMatchRouting
<1>1. SocketsInv => EventsMatchRouting
  BY DEF SocketsInv
<1> QED
  BY <1>1, SocketsInvariant, PTL

-----------------------------------------------------------------------------
(* Requests: queues                                                        *)

\* What is appended to a queue of statements is in it, once if it was not before.
LEMMA PostAdds ==
  ASSUME NEW q \in Seq(Reqs), NEW r \in Reqs,
         NEW n \in Seq(Reqs), n = Append(q, r)
  PROVE  /\ {n[k] : k \in 1..Len(n)} = {q[k] : k \in 1..Len(q)} \cup {r}
         /\ (\A j, k \in 1..Len(q) : q[j] = q[k] => j = k) /\ r \notin {q[k] : k \in 1..Len(q)}
              => \A j, k \in 1..Len(n) : n[j] = n[k] => j = k
<1>1. /\ Len(q) \in Nat /\ Len(n) = Len(q) + 1
      /\ \A k \in 1..Len(q) : n[k] = q[k]
      /\ n[Len(q) + 1] = r
  OBVIOUS
<1>2. \A k \in 1..Len(n) : k \in 1..Len(q) \/ k = Len(q) + 1
  BY <1>1
<1>3. \A k \in 1..Len(q) : k \in 1..Len(n)
  BY <1>1
<1>4. Len(q) + 1 \in 1..Len(n)
  BY <1>1
<1> QED BY <1>1, <1>2, <1>3, <1>4

\* What is taken from a queue without repetitions is not in the rest of it.
LEMMA PostTakes ==
  ASSUME NEW q \in Seq(Reqs), q # <<>>, NEW n \in Seq(Reqs), n = Tail(q),
         \A j, k \in 1..Len(q) : q[j] = q[k] => j = k
  PROVE  /\ Head(q) \in {q[k] : k \in 1..Len(q)}
         /\ {n[k] : k \in 1..Len(n)} = {q[k] : k \in 1..Len(q)} \ {Head(q)}
         /\ \A j, k \in 1..Len(n) : n[j] = n[k] => j = k
<1>1. /\ Len(q) \in Nat /\ Len(q) >= 1 /\ Len(n) = Len(q) - 1
      /\ \A k \in 1..Len(n) : n[k] = q[k + 1]
      /\ Head(q) = q[1]
  OBVIOUS
<1>2. \A k \in 1..Len(n) : k + 1 \in 1..Len(q) /\ k + 1 # 1
  BY <1>1
<1>3. \A k \in 1..Len(q) : k = 1 \/ (k - 1 \in 1..Len(n) /\ (k - 1) + 1 = k)
  BY <1>1
<1>4. 1 \in 1..Len(q)
  BY <1>1
<1>5. {n[k] : k \in 1..Len(n)} \subseteq {q[k] : k \in 1..Len(q)} \ {Head(q)}
  BY <1>1, <1>2, <1>4
<1>6. {q[k] : k \in 1..Len(q)} \ {Head(q)} \subseteq {n[k] : k \in 1..Len(n)}
  <2> SUFFICES ASSUME NEW k \in 1..Len(q), q[k] # Head(q)
               PROVE  q[k] \in {n[j] : j \in 1..Len(n)}
    OBVIOUS
  <2>1. k - 1 \in 1..Len(n) /\ n[k - 1] = q[k]
    BY <1>1, <1>3
  <2> QED BY <2>1
<1>7. ASSUME NEW j \in 1..Len(n), NEW k \in 1..Len(n), n[j] = n[k] PROVE j = k
  <2>1. j + 1 = k + 1
    BY <1>1, <1>2, <1>7
  <2> QED BY <1>1, <2>1
<1> QED BY <1>1, <1>4, <1>5, <1>6, <1>7

\* What is posted to a worker's inbox is in it, once if it was not before.
LEMMA InboxAdds ==
  ASSUME NEW q \in Seq(Reqs \X {"rows", "error"}), NEW r \in Reqs, NEW a \in {"rows", "error"},
         NEW n, n = Append(q, <<r, a>>)
  PROVE  /\ n \in Seq(Reqs \X {"rows", "error"})
         /\ {n[k][1] : k \in 1..Len(n)} = {q[k][1] : k \in 1..Len(q)} \cup {r}
         /\ (\A j, k \in 1..Len(q) : q[j][1] = q[k][1] => j = k) /\ r \notin {q[k][1] : k \in 1..Len(q)}
              => \A j, k \in 1..Len(n) : n[j][1] = n[k][1] => j = k
<1>1. /\ n \in Seq(Reqs \X {"rows", "error"})
      /\ Len(q) \in Nat /\ Len(n) = Len(q) + 1
      /\ \A k \in 1..Len(q) : n[k] = q[k]
      /\ n[Len(q) + 1] = <<r, a>>
  <2>1. <<r, a>> \in Reqs \X {"rows", "error"}
    OBVIOUS
  <2> QED BY <2>1
<1>2. \A k \in 1..Len(n) : k \in 1..Len(q) \/ k = Len(q) + 1
  BY <1>1
<1>3. \A k \in 1..Len(q) : k \in 1..Len(n)
  BY <1>1
<1>4. Len(q) + 1 \in 1..Len(n) /\ n[Len(q) + 1][1] = r
  BY <1>1
<1>5. \A k \in 1..Len(q) : n[k][1] = q[k][1]
  BY <1>1
<1> QED BY <1>1, <1>2, <1>3, <1>4, <1>5

\* The answer that is delivered is not in the rest of the inbox.
LEMMA InboxTakes ==
  ASSUME NEW q \in Seq(Reqs \X {"rows", "error"}), q # <<>>,
         NEW n, n = Tail(q),
         \A j, k \in 1..Len(q) : q[j][1] = q[k][1] => j = k
  PROVE  /\ n \in Seq(Reqs \X {"rows", "error"})
         /\ Head(q)[1] \in Reqs /\ Head(q)[2] \in {"rows", "error"}
         /\ Head(q)[1] \in {q[k][1] : k \in 1..Len(q)}
         /\ {n[k][1] : k \in 1..Len(n)} = {q[k][1] : k \in 1..Len(q)} \ {Head(q)[1]}
         /\ \A j, k \in 1..Len(n) : n[j][1] = n[k][1] => j = k
<1>1. /\ n \in Seq(Reqs \X {"rows", "error"})
      /\ Len(q) \in Nat /\ Len(q) >= 1 /\ Len(n) = Len(q) - 1
      /\ \A k \in 1..Len(n) : n[k] = q[k + 1]
      /\ Head(q) = q[1] /\ Head(q) \in Reqs \X {"rows", "error"}
  OBVIOUS
<1>2. \A k \in 1..Len(n) : k + 1 \in 1..Len(q) /\ k + 1 # 1
  BY <1>1
<1>3. \A k \in 1..Len(q) : k = 1 \/ (k - 1 \in 1..Len(n) /\ (k - 1) + 1 = k)
  BY <1>1
<1>4. 1 \in 1..Len(q)
  BY <1>1
<1>5. {n[k][1] : k \in 1..Len(n)} \subseteq {q[k][1] : k \in 1..Len(q)} \ {Head(q)[1]}
  BY <1>1, <1>2, <1>4
<1>6. {q[k][1] : k \in 1..Len(q)} \ {Head(q)[1]} \subseteq {n[k][1] : k \in 1..Len(n)}
  <2> SUFFICES ASSUME NEW k \in 1..Len(q), q[k][1] # Head(q)[1]
               PROVE  q[k][1] \in {n[j][1] : j \in 1..Len(n)}
    OBVIOUS
  <2>1. k - 1 \in 1..Len(n) /\ n[k - 1] = q[k]
    BY <1>1, <1>3
  <2> QED BY <2>1
<1>7. ASSUME NEW j \in 1..Len(n), NEW k \in 1..Len(n), n[j][1] = n[k][1] PROVE j = k
  <2>1. j + 1 = k + 1
    BY <1>1, <1>2, <1>7
  <2> QED BY <1>1, <2>1
<1>8. Head(q)[1] \in Reqs /\ Head(q)[2] \in {"rows", "error"}
  BY <1>1
<1> QED BY <1>1, <1>4, <1>5, <1>6, <1>7, <1>8


-----------------------------------------------------------------------------
(* Requests: the invariant                                                 *)

\* SettledOnce follows from where requests are and what answers they have.
LEMMA SettledFollows ==
  ASSUME RequestsTypeOK, OpenUnanswered, GoneIsDone
  PROVE  SettledOnce
<1> USE RequestsAssumption DEF Workers
<1>1. ASSUME NEW r \in Reqs PROVE Len(answers[r]) <= 1
  <2>1. owner[r] \in Http \cup Sql \cup {None}
    BY DEF RequestsTypeOK
  <2> QED BY <2>1 DEF OpenUnanswered
<1>2. ASSUME NEW w \in Workers, worker[w] = "gone", NEW r \in Reqs, owner[r] = w
      PROVE  Len(answers[r]) = 1
  <2>1. CASE w \in Http
    <3>1. reply[r] # "sent"
      BY <1>2 DEF GoneIsDone
    <3> QED BY <1>2, <2>1, <3>1 DEF OpenUnanswered
  <2>2. CASE w \in Sql
    <3>1. UnderWay(w) = {}
      BY <1>2, <2>2 DEF GoneIsDone, UnderWay
    <3> QED BY <1>2, <2>2, <3>1 DEF OpenUnanswered
  <2> QED BY <2>1, <2>2
<1>3. \A w \in Sql : worker[w] = "gone" => running[w] = None
  BY DEF GoneIsDone
<1> QED BY <1>1, <1>2, <1>3 DEF SettledOnce

\* Steps that leave the queues alone leave the statements where they are.
LEMMA QueuesStill ==
  ASSUME UNCHANGED <<posted, running, inbox>>
  PROVE  /\ \A w : Posted(w)' = Posted(w) /\ Inbox(w)' = Inbox(w) /\ UnderWay(w)' = UnderWay(w)
         /\ UNCHANGED owner /\ StatementsPlaced => StatementsPlaced'
<1>1. \A w : Posted(w)' = Posted(w) /\ Inbox(w)' = Inbox(w) /\ UnderWay(w)' = UnderWay(w)
  BY DEF Posted, Inbox, UnderWay
<1> QED BY <1>1 DEF StatementsPlaced

\* The statements of a queue are requests.
LEMMA UnderWayTypes ==
  ASSUME RequestsTypeOK, NEW w \in Sql
  PROVE  /\ Posted(w) \subseteq Reqs /\ Inbox(w) \subseteq Reqs /\ UnderWay(w) \subseteq Reqs
         /\ running[w] \in Reqs \cup {None} /\ None \notin Reqs
<1>1. Posted(w) \subseteq Reqs
  BY DEF RequestsTypeOK, Posted
<1>2. Inbox(w) \subseteq Reqs
  <2>1. inbox[w] \in Seq(Reqs \X {"rows", "error"})
    BY DEF RequestsTypeOK
  <2>2. \A k \in 1..Len(inbox[w]) : inbox[w][k] \in Reqs \X {"rows", "error"}
    BY <2>1
  <2> QED BY <2>2 DEF Inbox
<1> QED BY <1>1, <1>2, RequestsAssumption DEF RequestsTypeOK, UnderWay

\* Nothing is constructed, nothing was asked.
LEMMA RequestsInitInv == RequestsInit => RequestsInv
<1> SUFFICES ASSUME RequestsInit PROVE RequestsInv
  OBVIOUS
<1> USE RequestsAssumption DEF Workers
<1>1. aborted \in BOOLEAN /\ timer \in [Reqs -> BOOLEAN] /\ bounded \in [Reqs -> BOOLEAN]
  BY Zenon DEF RequestsInit
<1>2. RequestsTypeOK
  BY <1>1 DEF RequestsInit, RequestsTypeOK
<1>3. \A w \in Sql : Posted(w) = {} /\ Inbox(w) = {} /\ UnderWay(w) = {}
  BY DEF RequestsInit, Posted, Inbox, UnderWay
<1>4. StatementsPlaced
  BY <1>3 DEF RequestsInit, StatementsPlaced
<1>5. OpenUnanswered
  BY <1>3 DEF RequestsInit, OpenUnanswered, None
<1>6. GoneIsDone
  BY <1>3 DEF RequestsInit, GoneIsDone, None
<1> QED BY <1>2, <1>4, <1>5, <1>6, SettledFollows DEF RequestsInv

\* Workers that are constructed, told to go, or raise: nothing of a request.
LEMMA WorkerStepInv ==
  ASSUME RequestsInv, NEW w \in Workers, UNCHANGED <<reqVars, posted, running, inbox>>,
         connection' \in {connection, w}, connection' = w => w \in Sql \/ connection = w,
         aborted' \in BOOLEAN,
         \/ UNCHANGED worker
         \/ \E s \in {"alive", "doomed", "joining"} : worker' = [worker EXCEPT ![w] = s],
         \/ UNCHANGED thread
         \/ w \in Sql /\ worker[w] = "new" /\ thread' = [thread EXCEPT ![w] = "run"]
            /\ worker' = [worker EXCEPT ![w] = "alive"]
         \/ w \in Sql /\ running[w] = None /\ thread' = [thread EXCEPT ![w] = "exited"]
  PROVE  RequestsInv'
<1> USE RequestsAssumption DEF RequestsInv
<1>1. UNCHANGED <<owner, reply, timer, bounded, answers>>
  BY DEF reqVars
<1>2. connection' \in Sql \cup {None}
  BY DEF RequestsTypeOK
<1>3. RequestsTypeOK'
  <2>1. worker' \in [Workers -> {"new", "alive", "doomed", "joining", "gone"}]
    BY DEF RequestsTypeOK
  <2>2. thread' \in [Sql -> {"run", "exited"}]
    BY DEF RequestsTypeOK
  <2> QED BY <1>1, <1>2, <2>1, <2>2 DEF RequestsTypeOK
<1>4. StatementsPlaced'
  BY <1>1, QueuesStill
<1>5. OpenUnanswered'
  BY <1>1, QueuesStill DEF OpenUnanswered
<1>6. \A v \in Workers : worker'[v] = "gone" => worker[v] = "gone"
  BY DEF RequestsTypeOK
<1>7. \A v \in Sql : thread'[v] = "exited" => running[v] = None
  BY DEF RequestsTypeOK, GoneIsDone
<1>8. \A v \in Sql : worker'[v] = "gone" => thread'[v] = "exited"
  BY <1>6 DEF RequestsTypeOK, GoneIsDone, Workers
<1>9. ASSUME NEW r \in Reqs, reply[r] = "sent" PROVE worker'[owner[r]] # "gone"
  <2>1. owner[r] \in Workers
    <3>1. owner[r] # None
      BY <1>9 DEF OpenUnanswered, None
    <3> QED BY <3>1 DEF RequestsTypeOK
  <2> QED BY <1>6, <1>9, <2>1 DEF GoneIsDone
<1>10. GoneIsDone'
  BY <1>1, <1>6, <1>7, <1>8, <1>9, QueuesStill DEF GoneIsDone, Workers
<1> QED BY <1>3, <1>4, <1>5, <1>10, SettledFollows, PTL


\* Who waits for a network reply asked an Http worker.
LEMMA SentToHttp ==
  ASSUME RequestsInv, NEW r \in Reqs, reply[r] \in {"sent", "finished"}
  PROVE  /\ owner[r] \in Http /\ owner[r] \in Workers /\ owner[r] \notin Sql
         /\ Len(answers[r]) = (IF reply[r] = "sent" THEN 0 ELSE 1)
         /\ \A w \in Sql : r \notin UnderWay(w)
<1> USE RequestsAssumption DEF RequestsInv
<1>1. owner[r] \in Http \cup Sql \cup {None}
  BY DEF RequestsTypeOK, Workers
<1>2. owner[r] # None
  BY DEF OpenUnanswered, None
<1>3. owner[r] \notin Sql
  BY DEF OpenUnanswered
<1>4. owner[r] \in Http /\ owner[r] \in Workers
  BY <1>1, <1>2, <1>3 DEF Workers
<1> QED BY <1>3, <1>4 DEF OpenUnanswered, StatementsPlaced

\* A reply that is sent for an unused request, is finished with an answer, or is
\* deleted after it.
LEMMA ReplyStepInv ==
  ASSUME RequestsInv, NEW r \in Reqs, UNCHANGED <<worker, aborted, sqlVars>>,
         timer' \in [Reqs -> BOOLEAN], bounded' \in [Reqs -> BOOLEAN],
         \/ /\ reply[r] = "sent" /\ UNCHANGED owner
            /\ reply' = [reply EXCEPT ![r] = "finished"]
            /\ \E a \in {"body", "undecodable", "error"} : Answer(r, a)
         \/ /\ reply[r] = "finished" /\ UNCHANGED <<owner, answers>>
            /\ reply' \in {reply, [reply EXCEPT ![r] = "deleted"]}
         \/ /\ owner[r] = None /\ UNCHANGED answers
            /\ reply' = [reply EXCEPT ![r] = "sent"]
            /\ \E w \in Http : owner' = [owner EXCEPT ![r] = w] /\ worker[w] # "gone"
  PROVE  RequestsInv'
<1> USE RequestsAssumption DEF RequestsInv, sqlVars
<1>1. /\ answers' \in [Reqs -> Seq({"body", "undecodable", "error", "rows", "dropped"})]
      /\ owner' \in [Reqs -> Workers \cup {None}]
      /\ reply' \in [Reqs -> {None, "sent", "finished", "deleted"}]
  <2>1. answers' \in [Reqs -> Seq({"body", "undecodable", "error", "rows", "dropped"})]
    <3>1. CASE \E a \in {"body", "undecodable", "error"} : Answer(r, a)
      BY <3>1 DEF RequestsTypeOK, Answer
    <3>2. CASE UNCHANGED answers
      BY <3>2 DEF RequestsTypeOK
    <3> QED BY <3>1, <3>2
  <2>2. owner' \in [Reqs -> Workers \cup {None}]
    BY ZenonT(60) DEF RequestsTypeOK, Workers
  <2>3. reply' \in [Reqs -> {None, "sent", "finished", "deleted"}]
    BY DEF RequestsTypeOK
  <2> QED BY <2>1, <2>2, <2>3
<1>2. RequestsTypeOK'
  BY <1>1 DEF RequestsTypeOK
<1>3. \A w \in Sql : r \notin UnderWay(w)
  <2>1. CASE owner[r] = None
    BY <2>1 DEF StatementsPlaced, Workers
  <2> QED BY <2>1, SentToHttp
<1>4. /\ \A q \in Reqs \ {r} : owner'[q] = owner[q] /\ reply'[q] = reply[q] /\ answers'[q] = answers[q]
      /\ owner'[r] \in Http /\ reply'[r] \in {"sent", "finished", "deleted"}
      /\ Len(answers'[r]) = (IF reply'[r] = "sent" THEN 0 ELSE 1)
      /\ reply'[r] = "sent" => worker[owner'[r]] # "gone"
  <2>1. /\ \A q \in Reqs \ {r} : owner'[q] = owner[q] /\ reply'[q] = reply[q]
        /\ reply'[r] \in {"sent", "finished", "deleted"}
    BY DEF RequestsTypeOK
  <2>2. \A q \in Reqs \ {r} : answers'[q] = answers[q]
    BY DEF RequestsTypeOK, Answer
  <2>3. CASE owner[r] = None
    <3>1. answers[r] = <<>> /\ reply[r] = None
      BY <2>3 DEF OpenUnanswered
    <3>2. /\ reply'[r] = "sent" /\ answers' = answers
          /\ owner'[r] \in Http /\ worker[owner'[r]] # "gone"
      BY <3>1 DEF None, RequestsTypeOK
    <3> QED BY <2>1, <2>2, <3>1, <3>2
  <2>4. CASE reply[r] = "sent" /\ owner[r] # None
    <3>1. owner[r] \in Http /\ Len(answers[r]) = 0
      BY <2>4, SentToHttp
    <3>2. owner' = owner /\ reply'[r] = "finished"
      BY <2>4 DEF RequestsTypeOK
    <3>3. PICK a \in {"body", "undecodable", "error"} : answers' = [answers EXCEPT ![r] = Append(@, a)]
      BY <2>4 DEF Answer
    <3>4. answers[r] \in Seq({"body", "undecodable", "error", "rows", "dropped"})
      BY DEF RequestsTypeOK
    <3>5. answers'[r] = Append(answers[r], a)
      BY <3>3 DEF RequestsTypeOK
    <3>6. Len(answers'[r]) = 1
      BY <3>1, <3>4, <3>5
    <3> QED BY <2>1, <2>2, <3>1, <3>2, <3>6
  <2>5. CASE reply[r] = "finished" /\ owner[r] # None
    <3>1. owner[r] \in Http /\ Len(answers[r]) = 1
      BY <2>5, SentToHttp
    <3>2. owner' = owner /\ answers' = answers /\ reply'[r] \in {"finished", "deleted"}
      BY <2>5 DEF RequestsTypeOK
    <3> QED BY <2>1, <2>2, <3>1, <3>2
  <2> QED BY <2>3, <2>4, <2>5
<1>5. StatementsPlaced'
  <2>1. \A w \in Sql : \A q \in UnderWay(w) : owner'[q] = w
    <3> SUFFICES ASSUME NEW w \in Sql, NEW q \in UnderWay(w) PROVE owner'[q] = w
      OBVIOUS
    <3>1. q \in Reqs /\ q # r
      BY <1>3, UnderWayTypes
    <3> QED BY <1>4, <3>1 DEF StatementsPlaced
  <2> QED BY <2>1, QueuesStill DEF StatementsPlaced
<1>6. OpenUnanswered'
  <2>1. ASSUME NEW q \in Reqs
        PROVE  /\ owner'[q] = None => reply'[q] = None /\ answers'[q] = <<>>
               /\ owner'[q] \in Http => Len(answers'[q]) = (IF reply'[q] = "sent" THEN 0 ELSE 1)
               /\ owner'[q] \in Sql => /\ reply'[q] \notin {"sent", "finished"}
                                       /\ Len(answers'[q]) = (IF q \in UnderWay(owner'[q]) THEN 0 ELSE 1)
    <3>1. CASE q = r
      BY <1>4, <3>1 DEF Workers
    <3>2. CASE q # r
      BY <1>4, <3>2 DEF OpenUnanswered
    <3> QED BY <3>1, <3>2
  <2> QED BY <2>1, QueuesStill DEF OpenUnanswered
<1>7. GoneIsDone'
  <2>1. ASSUME NEW q \in Reqs, reply'[q] = "sent" PROVE worker[owner'[q]] # "gone"
    BY <1>4, <2>1 DEF GoneIsDone
  <2> QED BY <2>1, QueuesStill DEF GoneIsDone
<1> QED BY <1>2, <1>5, <1>6, <1>7, SettledFollows, PTL


\* Where the statements of one worker are after a step on its queues.
LEMMA PlacedStep ==
  ASSUME StatementsPlaced, NEW w \in Sql,
         \A v \in Sql \ {w} : posted'[v] = posted[v] /\ inbox'[v] = inbox[v] /\ running'[v] = running[v],
         \A j, k \in 1..Len(posted'[w]) : posted'[w][j] = posted'[w][k] => j = k,
         \A j, k \in 1..Len(inbox'[w]) : inbox'[w][j][1] = inbox'[w][k][1] => j = k,
         Posted(w)' \cap Inbox(w)' = {},
         running'[w] \notin Posted(w)' \cup Inbox(w)',
         \A v \in Sql : \A r \in UnderWay(v)' : owner'[r] = v
  PROVE  /\ StatementsPlaced'
         /\ \A v \in Sql \ {w} : /\ Posted(v)' = Posted(v) /\ Inbox(v)' = Inbox(v)
                                 /\ UnderWay(v)' = UnderWay(v)
<1>1. \A v \in Sql \ {w} : /\ Posted(v)' = Posted(v) /\ Inbox(v)' = Inbox(v)
                           /\ UnderWay(v)' = UnderWay(v)
  BY DEF Posted, Inbox, UnderWay
<1>2. ASSUME NEW v \in Sql
      PROVE  /\ \A j, k \in 1..Len(posted'[v]) : posted'[v][j] = posted'[v][k] => j = k
             /\ \A j, k \in 1..Len(inbox'[v]) : inbox'[v][j][1] = inbox'[v][k][1] => j = k
             /\ Posted(v)' \cap Inbox(v)' = {}
             /\ running'[v] \notin Posted(v)' \cup Inbox(v)'
  <2>1. CASE v = w
    BY <2>1
  <2>2. CASE v # w
    BY <1>1, <2>2 DEF StatementsPlaced
  <2> QED BY <2>1, <2>2
<1> QED BY <1>1, <1>2 DEF StatementsPlaced

\* A statement that goes from one place of its worker to the next.
LEMMA MoveInv ==
  ASSUME RequestsInv, NEW w \in Sql, UNCHANGED <<worker, aborted, reqVars, connection, thread>>,
         posted' \in [Sql -> Seq(Reqs)], running' \in [Sql -> Reqs \cup {None}],
         inbox' \in [Sql -> Seq(Reqs \X {"rows", "error"})],
         thread[w] = "run",
         UnderWay(w)' = UnderWay(w),
         \A v \in Sql \ {w} : posted'[v] = posted[v] /\ inbox'[v] = inbox[v] /\ running'[v] = running[v],
         \A j, k \in 1..Len(posted'[w]) : posted'[w][j] = posted'[w][k] => j = k,
         \A j, k \in 1..Len(inbox'[w]) : inbox'[w][j][1] = inbox'[w][k][1] => j = k,
         Posted(w)' \cap Inbox(w)' = {},
         running'[w] \notin Posted(w)' \cup Inbox(w)'
  PROVE  RequestsInv'
<1> USE RequestsAssumption DEF RequestsInv
<1>1. UNCHANGED <<owner, reply, timer, bounded, answers>>
  BY DEF reqVars
<1>2. RequestsTypeOK'
  BY <1>1 DEF RequestsTypeOK
<1>3. \A v \in Sql : UnderWay(v)' = UnderWay(v)
  <2>1. \A v \in Sql \ {w} : UnderWay(v)' = UnderWay(v)
    BY DEF UnderWay, Posted, Inbox
  <2> QED BY <2>1
<1>4. \A v \in Sql : \A r \in UnderWay(v)' : owner'[r] = v
  BY <1>1, <1>3 DEF StatementsPlaced
<1>5. /\ StatementsPlaced'
      /\ \A v \in Sql \ {w} : Posted(v)' = Posted(v) /\ Inbox(v)' = Inbox(v)
  BY <1>4, PlacedStep
<1>6. OpenUnanswered'
  BY <1>1, <1>3 DEF OpenUnanswered
<1>7. worker[w] # "gone"
  BY DEF GoneIsDone
<1>8. GoneIsDone'
  <2>1. \A v \in Sql : thread[v] = "exited" => running'[v] = None
    BY DEF GoneIsDone
  <2>2. ASSUME NEW v \in Sql, worker[v] = "gone"
        PROVE  thread[v] = "exited" /\ Posted(v)' \cup Inbox(v)' = {}
    <3>1. v # w
      BY <1>7, <2>2
    <3> QED BY <1>5, <2>2, <3>1 DEF GoneIsDone
  <2> QED BY <1>1, <2>1, <2>2 DEF GoneIsDone
<1> QED BY <1>2, <1>5, <1>6, <1>8, SettledFollows, PTL

\* The thread takes a statement.
LEMMA DoExecInv ==
  ASSUME RequestsInv, NEW w \in Sql, DoExec(w)
  PROVE  RequestsInv'
<1> DEFINE r == Head(posted[w])
<1>1. /\ thread[w] = "run" /\ running[w] = None /\ posted[w] # <<>>
      /\ running' = [running EXCEPT ![w] = r]
      /\ posted' = [posted EXCEPT ![w] = Tail(@)]
      /\ UNCHANGED <<worker, aborted, reqVars, connection, thread, inbox>>
  BY DEF DoExec
<1>2. posted[w] \in Seq(Reqs) /\ r \in Reqs /\ Tail(posted[w]) \in Seq(Reqs)
  BY <1>1 DEF RequestsInv, RequestsTypeOK
<1>3. posted'[w] = Tail(posted[w]) /\ running'[w] = r /\ inbox'[w] = inbox[w]
  BY <1>1 DEF RequestsInv, RequestsTypeOK
<1>4. /\ r \in Posted(w) /\ Posted(w)' = Posted(w) \ {r}
      /\ \A j, k \in 1..Len(posted'[w]) : posted'[w][j] = posted'[w][k] => j = k
  <2>1. \A j, k \in 1..Len(posted[w]) : posted[w][j] = posted[w][k] => j = k
    BY DEF RequestsInv, StatementsPlaced
  <2>2. posted'[w] \in Seq(Reqs)
    BY <1>2, <1>3
  <2>3. /\ r \in {posted[w][k] : k \in 1..Len(posted[w])}
        /\ {posted'[w][k] : k \in 1..Len(posted'[w])} = {posted[w][k] : k \in 1..Len(posted[w])} \ {r}
        /\ \A j, k \in 1..Len(posted'[w]) : posted'[w][j] = posted'[w][k] => j = k
    BY <1>1, <1>2, <1>3, <2>1, <2>2, PostTakes
  <2> QED BY <2>3 DEF Posted
<1>5. Inbox(w)' = Inbox(w)
  BY <1>1 DEF Inbox
<1> HIDE DEF r
<1>6. posted' \in [Sql -> Seq(Reqs)] /\ running' \in [Sql -> Reqs \cup {None}]
  BY <1>1, <1>2 DEF RequestsInv, RequestsTypeOK
<1>7. UnderWay(w)' = UnderWay(w)
  <2>1. r # None /\ None \notin Reqs
    BY <1>2, RequestsAssumption
  <2> QED BY <1>1, <1>3, <1>4, <1>5, <2>1 DEF UnderWay
<1>8. /\ Posted(w)' \cap Inbox(w)' = {} /\ running'[w] \notin Posted(w)' \cup Inbox(w)'
  BY <1>3, <1>4, <1>5 DEF RequestsInv, StatementsPlaced
<1>9. \A v \in Sql \ {w} : posted'[v] = posted[v] /\ inbox'[v] = inbox[v] /\ running'[v] = running[v]
  BY <1>1 DEF RequestsInv, RequestsTypeOK
<1>10. \A j, k \in 1..Len(inbox'[w]) : inbox'[w][j][1] = inbox'[w][k][1] => j = k
  BY <1>3 DEF RequestsInv, StatementsPlaced
<1>11. inbox' \in [Sql -> Seq(Reqs \X {"rows", "error"})]
  BY <1>1 DEF RequestsInv, RequestsTypeOK
<1> QED BY <1>1, <1>4, <1>6, <1>7, <1>8, <1>9, <1>10, <1>11, MoveInv

\* A statement ends and its answer is posted.
LEMMA DoExecEndsInv ==
  ASSUME RequestsInv, NEW w \in Sql, DoExecEnds(w)
  PROVE  RequestsInv'
<1>1. PICK a \in {"rows", "error"} : inbox' = [inbox EXCEPT ![w] = Append(@, <<running[w], a>>)]
  BY DEF DoExecEnds
<1>2. /\ running[w] # None /\ running' = [running EXCEPT ![w] = None]
      /\ UNCHANGED <<worker, aborted, reqVars, connection, posted, thread>>
  BY DEF DoExecEnds
<1>3. running[w] \in Reqs /\ inbox[w] \in Seq(Reqs \X {"rows", "error"})
  BY <1>2 DEF RequestsInv, RequestsTypeOK
<1>4. inbox'[w] = Append(inbox[w], <<running[w], a>>) /\ running'[w] = None /\ posted'[w] = posted[w]
  BY <1>1, <1>2 DEF RequestsInv, RequestsTypeOK
<1>5. running[w] \notin Posted(w) \cup Inbox(w)
  BY DEF RequestsInv, StatementsPlaced
<1>6. /\ inbox'[w] \in Seq(Reqs \X {"rows", "error"})
      /\ Inbox(w)' = Inbox(w) \cup {running[w]}
      /\ \A j, k \in 1..Len(inbox'[w]) : inbox'[w][j][1] = inbox'[w][k][1] => j = k
  BY <1>3, <1>4, <1>5, InboxAdds DEF RequestsInv, StatementsPlaced, Inbox
<1>7. Posted(w)' = Posted(w)
  BY <1>2 DEF Posted
<1>8. UnderWay(w)' = UnderWay(w)
  BY <1>2, <1>4, <1>6, <1>7 DEF UnderWay
<1>9. None \notin Posted(w)' \cup Inbox(w)'
  BY <1>3, <1>6, <1>7, UnderWayTypes DEF RequestsInv
<1>10. /\ Posted(w)' \cap Inbox(w)' = {} /\ running'[w] \notin Posted(w)' \cup Inbox(w)'
  BY <1>4, <1>5, <1>6, <1>7, <1>9 DEF RequestsInv, StatementsPlaced
<1>11. \A v \in Sql \ {w} : posted'[v] = posted[v] /\ inbox'[v] = inbox[v] /\ running'[v] = running[v]
  BY <1>1, <1>2 DEF RequestsInv, RequestsTypeOK
<1>12. \A j, k \in 1..Len(posted'[w]) : posted'[w][j] = posted'[w][k] => j = k
  BY <1>4 DEF RequestsInv, StatementsPlaced
<1>13. /\ posted' \in [Sql -> Seq(Reqs)] /\ running' \in [Sql -> Reqs \cup {None}]
       /\ inbox' \in [Sql -> Seq(Reqs \X {"rows", "error"})]
  <2>1. inbox' \in [Sql -> Seq(Reqs \X {"rows", "error"})]
    BY <1>1, <1>4, <1>6 DEF RequestsInv, RequestsTypeOK
  <2> QED BY <1>2, <2>1 DEF RequestsInv, RequestsTypeOK
<1>14. thread[w] = "run"
  BY <1>2 DEF RequestsInv, RequestsTypeOK, GoneIsDone
<1> QED BY <1>2, <1>6, <1>8, <1>10, <1>11, <1>12, <1>13, <1>14, MoveInv

\* A statement is posted for an unused request.
LEMMA ExecInv ==
  ASSUME RequestsInv, NEW r \in Reqs, NEW w \in Sql, Exec(r, w)
  PROVE  RequestsInv'
<1> USE RequestsAssumption DEF RequestsInv
<1>1. /\ worker[w] \in {"alive", "doomed"} /\ owner[r] = None
      /\ owner' = [owner EXCEPT ![r] = w]
      /\ bounded' = [bounded EXCEPT ![r] = TRUE]
      /\ posted' = [posted EXCEPT ![w] = Append(@, r)]
      /\ UNCHANGED <<worker, aborted, reply, timer, answers, connection, running, thread, inbox>>
  BY DEF Exec
<1>2. posted[w] \in Seq(Reqs) /\ posted'[w] = Append(posted[w], r) /\ posted'[w] \in Seq(Reqs)
  BY <1>1 DEF RequestsTypeOK
<1>3. RequestsTypeOK'
  BY <1>1 DEF RequestsTypeOK, Workers
<1>4. \A v \in Sql : r \notin UnderWay(v)
  BY <1>1 DEF StatementsPlaced, Workers
<1>5. r \notin Posted(w) /\ r \notin Inbox(w) /\ r # running[w]
  BY <1>4 DEF UnderWay
<1>6. /\ Posted(w)' = Posted(w) \cup {r}
      /\ \A j, k \in 1..Len(posted'[w]) : posted'[w][j] = posted'[w][k] => j = k
  BY <1>2, <1>5, PostAdds DEF StatementsPlaced, Posted
<1>7. Inbox(w)' = Inbox(w) /\ UnderWay(w)' = UnderWay(w) \cup {r}
  BY <1>1, <1>6 DEF Inbox, UnderWay
<1>8. \A v \in Sql \ {w} : posted'[v] = posted[v] /\ inbox'[v] = inbox[v] /\ running'[v] = running[v]
  BY <1>1 DEF RequestsTypeOK
<1>9. \A v \in Sql \ {w} : UnderWay(v)' = UnderWay(v)
  BY <1>8 DEF UnderWay, Posted, Inbox
<1>10. owner'[r] = w /\ \A q \in Reqs \ {r} : owner'[q] = owner[q]
  BY <1>1 DEF RequestsTypeOK
<1>11. ASSUME NEW v \in Sql, NEW q \in UnderWay(v)' PROVE owner'[q] = v
  <2>1. CASE q = r
    BY <1>4, <1>9, <1>10, <1>11, <2>1
  <2>2. CASE q # r
    <3>1. q \in UnderWay(v)
      BY <1>7, <1>9, <1>11, <2>2
    <3>2. q \in Reqs /\ owner[q] = v
      BY <3>1, UnderWayTypes DEF StatementsPlaced
    <3> QED BY <1>10, <2>2, <3>2
  <2> QED BY <2>1, <2>2
<1>12. /\ StatementsPlaced'
       /\ \A v \in Sql \ {w} : Posted(v)' = Posted(v) /\ Inbox(v)' = Inbox(v)
  <2>1. /\ Posted(w)' \cap Inbox(w)' = {} /\ running'[w] \notin Posted(w)' \cup Inbox(w)'
    BY <1>1, <1>5, <1>6, <1>7 DEF StatementsPlaced
  <2>2. \A j, k \in 1..Len(inbox'[w]) : inbox'[w][j][1] = inbox'[w][k][1] => j = k
    BY <1>1 DEF StatementsPlaced
  <2> QED BY <1>6, <1>8, <1>11, <2>1, <2>2, PlacedStep
<1>13. OpenUnanswered'
  <2>1. ASSUME NEW q \in Reqs
        PROVE  /\ owner'[q] = None => reply'[q] = None /\ answers'[q] = <<>>
               /\ owner'[q] \in Http => Len(answers'[q]) = (IF reply'[q] = "sent" THEN 0 ELSE 1)
               /\ \A v \in Sql : owner'[q] = v =>
                    /\ reply'[q] \notin {"sent", "finished"}
                    /\ Len(answers'[q]) = (IF q \in UnderWay(v)' THEN 0 ELSE 1)
    <3>1. CASE q = r
      <4>1. reply[r] = None /\ answers[r] = <<>> /\ r \in UnderWay(w)'
        BY <1>1, <1>7 DEF OpenUnanswered
      <4>2. Len(<<>>) = 0 /\ None \notin {"sent", "finished"} /\ w \notin Http /\ w # None
        BY DEF None, Workers
      <4> QED BY <1>1, <1>10, <3>1, <4>1, <4>2
    <3>2. CASE q # r
      <4>1. owner'[q] = owner[q] /\ reply'[q] = reply[q] /\ answers'[q] = answers[q]
        BY <1>1, <1>10, <3>2
      <4>2. \A v \in Sql : q \in UnderWay(v)' <=> q \in UnderWay(v)
        BY <1>7, <1>9, <3>2
      <4> QED BY <4>1, <4>2 DEF OpenUnanswered
    <3> QED BY <3>1, <3>2
  <2> QED BY <2>1 DEF OpenUnanswered
<1>14. GoneIsDone'
  <2>1. ASSUME NEW q \in Reqs, reply[q] = "sent" PROVE worker[owner'[q]] # "gone"
    <3>1. q # r
      BY <1>1, <2>1 DEF OpenUnanswered, None
    <3> QED BY <1>10, <2>1, <3>1 DEF GoneIsDone
  <2> QED BY <1>1, <1>12, <2>1 DEF GoneIsDone
<1> QED BY <1>3, <1>12, <1>13, <1>14, SettledFollows, PTL


\* An answer is delivered: its statement was under way and is not any more.
LEMMA DeliverInv ==
  ASSUME RequestsInv, NEW w \in Sql, Deliver(w)
  PROVE  RequestsInv'
<1> USE RequestsAssumption DEF RequestsInv
<1> DEFINE r == Head(inbox[w])[1]
           a == Head(inbox[w])[2]
<1>1. /\ inbox[w] # <<>>
      /\ answers' = [answers EXCEPT ![r] = Append(@, a)]
      /\ inbox' = [inbox EXCEPT ![w] = Tail(@)]
      /\ UNCHANGED <<worker, aborted, owner, reply, timer, bounded, connection, posted, running, thread>>
  BY DEF Deliver, Answer
<1>2. inbox[w] \in Seq(Reqs \X {"rows", "error"}) /\ inbox'[w] = Tail(inbox[w])
  BY <1>1 DEF RequestsTypeOK
<1>3. /\ inbox'[w] \in Seq(Reqs \X {"rows", "error"})
      /\ r \in Reqs /\ a \in {"rows", "error"} /\ r \in Inbox(w)
      /\ Inbox(w)' = Inbox(w) \ {r}
      /\ \A j, k \in 1..Len(inbox'[w]) : inbox'[w][j][1] = inbox'[w][k][1] => j = k
  <2>1. \A j, k \in 1..Len(inbox[w]) : inbox[w][j][1] = inbox[w][k][1] => j = k
    BY DEF StatementsPlaced
  <2>2. /\ inbox'[w] \in Seq(Reqs \X {"rows", "error"})
        /\ r \in Reqs /\ a \in {"rows", "error"}
        /\ r \in {inbox[w][k][1] : k \in 1..Len(inbox[w])}
        /\ {inbox'[w][k][1] : k \in 1..Len(inbox'[w])} = {inbox[w][k][1] : k \in 1..Len(inbox[w])} \ {r}
        /\ \A j, k \in 1..Len(inbox'[w]) : inbox'[w][j][1] = inbox'[w][k][1] => j = k
    BY <1>1, <1>2, <2>1, InboxTakes
  <2> QED BY <2>2 DEF Inbox
<1> HIDE DEF r, a
<1>4. Posted(w)' = Posted(w) /\ r \notin Posted(w) /\ r # running[w]
  BY <1>1, <1>3 DEF Posted, StatementsPlaced
<1>5. r \in UnderWay(w) /\ UnderWay(w)' = UnderWay(w) \ {r}
  BY <1>1, <1>3, <1>4 DEF UnderWay
<1>6. \A v \in Sql \ {w} : posted'[v] = posted[v] /\ inbox'[v] = inbox[v] /\ running'[v] = running[v]
  BY <1>1 DEF RequestsTypeOK
<1>7. \A v \in Sql \ {w} : UnderWay(v)' = UnderWay(v)
  BY <1>6 DEF UnderWay, Posted, Inbox
<1>8. owner[r] = w /\ Len(answers[r]) = 0
  BY <1>3, <1>5 DEF StatementsPlaced, OpenUnanswered
<1>9. RequestsTypeOK'
  <2>1. answers' \in [Reqs -> Seq({"body", "undecodable", "error", "rows", "dropped"})]
    BY <1>1, <1>3 DEF RequestsTypeOK
  <2>2. inbox' \in [Sql -> Seq(Reqs \X {"rows", "error"})]
    BY <1>1, <1>2, <1>3 DEF RequestsTypeOK
  <2> QED BY <1>1, <2>1, <2>2 DEF RequestsTypeOK
<1>10. ASSUME NEW v \in Sql, NEW q \in UnderWay(v)' PROVE owner'[q] = v
  BY <1>1, <1>5, <1>7, <1>10 DEF StatementsPlaced
<1>11. /\ StatementsPlaced'
       /\ \A v \in Sql \ {w} : Posted(v)' = Posted(v) /\ Inbox(v)' = Inbox(v)
  <2>1. /\ Posted(w)' \cap Inbox(w)' = {} /\ running'[w] \notin Posted(w)' \cup Inbox(w)'
    BY <1>1, <1>3, <1>4 DEF StatementsPlaced
  <2>2. \A j, k \in 1..Len(posted'[w]) : posted'[w][j] = posted'[w][k] => j = k
    BY <1>1 DEF StatementsPlaced
  <2> QED BY <1>3, <1>6, <1>10, <2>1, <2>2, PlacedStep
<1>12. Len(answers'[r]) = 1 /\ \A q \in Reqs \ {r} : answers'[q] = answers[q]
  <2>1. answers[r] \in Seq({"body", "undecodable", "error", "rows", "dropped"})
    BY <1>3 DEF RequestsTypeOK
  <2>2. answers'[r] = Append(answers[r], a)
    BY <1>1, <1>3 DEF RequestsTypeOK
  <2> QED BY <1>1, <1>3, <1>8, <2>1, <2>2 DEF RequestsTypeOK
<1>13. OpenUnanswered'
  <2>1. ASSUME NEW q \in Reqs
        PROVE  /\ owner[q] = None => reply[q] = None /\ answers'[q] = <<>>
               /\ owner[q] \in Http => Len(answers'[q]) = (IF reply[q] = "sent" THEN 0 ELSE 1)
               /\ \A v \in Sql : owner[q] = v =>
                    /\ reply[q] \notin {"sent", "finished"}
                    /\ Len(answers'[q]) = (IF q \in UnderWay(v)' THEN 0 ELSE 1)
    <3>1. CASE q = r
      <4>1. w \notin Http /\ w # None
        BY DEF Workers
      <4>2. reply[r] \notin {"sent", "finished"} /\ r \notin UnderWay(w)'
        BY <1>3, <1>5, <1>8 DEF OpenUnanswered
      <4> QED BY <1>8, <1>12, <3>1, <4>1, <4>2
    <3>2. CASE q # r
      <4>1. answers'[q] = answers[q]
        BY <1>12, <3>2
      <4>2. \A v \in Sql : q \in UnderWay(v)' <=> q \in UnderWay(v)
        BY <1>5, <1>7, <3>2
      <4> QED BY <4>1, <4>2 DEF OpenUnanswered
    <3> QED BY <3>1, <3>2
  <2> QED BY <1>1, <2>1 DEF OpenUnanswered
<1>14. GoneIsDone'
  <2>1. worker[w] # "gone"
    BY <1>3 DEF GoneIsDone
  <2>2. ASSUME NEW v \in Sql, worker[v] = "gone"
        PROVE  thread[v] = "exited" /\ Posted(v)' \cup Inbox(v)' = {}
    <3>1. v # w
      BY <2>1, <2>2
    <3> QED BY <1>11, <2>2, <3>1 DEF GoneIsDone
  <2> QED BY <1>1, <2>2 DEF GoneIsDone
<1> QED BY <1>9, <1>11, <1>13, <1>14, SettledFollows, PTL

\* Promises that are dropped unset: each has its one answer then.
LEMMA DropFacts ==
  ASSUME RequestsInv, NEW rs \in SUBSET Reqs, Drop(rs), \A r \in rs : Len(answers[r]) = 0
  PROVE  /\ reply' \in [Reqs -> {None, "sent", "finished", "deleted"}]
         /\ timer' \in [Reqs -> BOOLEAN]
         /\ answers' \in [Reqs -> Seq({"body", "undecodable", "error", "rows", "dropped"})]
         /\ \A r \in rs : reply'[r] = "deleted" /\ Len(answers'[r]) = 1
         /\ \A r \in Reqs \ rs : reply'[r] = reply[r] /\ answers'[r] = answers[r]
         /\ UNCHANGED <<owner, bounded>>
<1>1. timer' \in [Reqs -> BOOLEAN]
  BY Zenon DEF Drop
<1>2. answers \in [Reqs -> Seq({"body", "undecodable", "error", "rows", "dropped"})]
  BY DEF RequestsInv, RequestsTypeOK
<1>3. \A r \in rs : answers'[r] = Append(answers[r], "dropped")
  BY DEF Drop
<1>4. ASSUME NEW r \in rs PROVE Len(answers'[r]) = 1
  <2>1. answers[r] \in Seq({"body", "undecodable", "error", "rows", "dropped"}) /\ Len(answers[r]) = 0
    BY <1>2
  <2>2. answers'[r] = Append(answers[r], "dropped")
    BY <1>3
  <2>3. Len(Append(answers[r], "dropped")) = 1
    BY <2>1
  <2> QED BY <2>2, <2>3
<1>5. answers' \in [Reqs -> Seq({"body", "undecodable", "error", "rows", "dropped"})]
  BY <1>2 DEF Drop
<1> QED BY <1>1, <1>4, <1>5 DEF Drop, RequestsInv, RequestsTypeOK

\* An Http worker goes with its replies.
LEMMA HttpGoneInv ==
  ASSUME RequestsInv, NEW w \in Http, HttpGone(w)
  PROVE  RequestsInv'
<1> USE RequestsAssumption DEF RequestsInv
<1> DEFINE rs == {r \in Reqs : owner[r] = w /\ reply[r] = "sent"}
<1>1. /\ worker' = [worker EXCEPT ![w] = "gone"] /\ Drop(rs)
      /\ UNCHANGED <<aborted, connection, posted, running, thread, inbox>>
  BY DEF HttpGone, sqlVars
<1>2. rs \in SUBSET Reqs /\ \A r \in Reqs : r \in rs <=> owner[r] = w /\ reply[r] = "sent"
  OBVIOUS
<1>3. \A r \in rs : Len(answers[r]) = 0
  BY DEF OpenUnanswered
<1> HIDE DEF rs
<1>4. /\ reply' \in [Reqs -> {None, "sent", "finished", "deleted"}]
      /\ timer' \in [Reqs -> BOOLEAN]
      /\ answers' \in [Reqs -> Seq({"body", "undecodable", "error", "rows", "dropped"})]
      /\ \A r \in rs : reply'[r] = "deleted" /\ Len(answers'[r]) = 1
      /\ \A r \in Reqs \ rs : reply'[r] = reply[r] /\ answers'[r] = answers[r]
      /\ UNCHANGED <<owner, bounded>>
  BY <1>1, <1>2, <1>3, DropFacts
<1>5. RequestsTypeOK'
  BY <1>1, <1>4 DEF RequestsTypeOK
<1>6. StatementsPlaced'
  BY <1>1, <1>4, QueuesStill
<1>7. \A v \in Sql : UnderWay(v)' = UnderWay(v) /\ Posted(v)' = Posted(v) /\ Inbox(v)' = Inbox(v)
  BY <1>1, QueuesStill
<1>8. w \in Workers /\ w \notin Sql /\ w # None
  BY DEF Workers
<1>9. OpenUnanswered'
  <2>1. ASSUME NEW q \in Reqs
        PROVE  /\ owner[q] = None => reply'[q] = None /\ answers'[q] = <<>>
               /\ owner[q] \in Http => Len(answers'[q]) = (IF reply'[q] = "sent" THEN 0 ELSE 1)
               /\ \A v \in Sql : owner[q] = v =>
                    /\ reply'[q] \notin {"sent", "finished"}
                    /\ Len(answers'[q]) = (IF q \in UnderWay(v) THEN 0 ELSE 1)
    <3>1. CASE q \in rs
      BY <1>2, <1>4, <1>8, <3>1
    <3>2. CASE q \notin rs
      <4>1. reply'[q] = reply[q] /\ answers'[q] = answers[q]
        BY <1>4, <3>2
      <4> QED BY <4>1 DEF OpenUnanswered
    <3> QED BY <3>1, <3>2
  <2> QED BY <1>4, <1>7, <2>1 DEF OpenUnanswered
<1>10. GoneIsDone'
  <2>1. \A v \in Workers \ {w} : worker'[v] = worker[v]
    BY <1>1 DEF RequestsTypeOK
  <2>2. ASSUME NEW q \in Reqs, reply'[q] = "sent" PROVE worker'[owner[q]] # "gone"
    <3>1. q \notin rs /\ reply[q] = "sent"
      BY <1>4, <2>2
    <3>2. owner[q] # w /\ owner[q] \in Workers
      BY <1>2, <3>1, SentToHttp
    <3> QED BY <2>1, <3>1, <3>2 DEF GoneIsDone
  <2>3. \A v \in Sql : worker'[v] = worker[v]
    BY <1>8, <2>1 DEF Workers
  <2> QED BY <1>1, <1>4, <1>7, <2>2, <2>3 DEF GoneIsDone
<1> QED BY <1>5, <1>6, <1>9, <1>10, SettledFollows, PTL

\* An Sql worker goes after its thread, with what was posted to either.
LEMMA SqlGoneInv ==
  ASSUME RequestsInv, NEW w \in Sql, SqlGone(w)
  PROVE  RequestsInv'
<1> USE RequestsAssumption DEF RequestsInv
<1> DEFINE rs == Posted(w) \cup Inbox(w)
<1>1. /\ thread[w] = "exited"
      /\ worker' = [worker EXCEPT ![w] = "gone"] /\ Drop(rs)
      /\ posted' = [posted EXCEPT ![w] = <<>>]
      /\ inbox' = [inbox EXCEPT ![w] = <<>>]
      /\ UNCHANGED <<aborted, connection, running, thread>>
  BY DEF SqlGone, Joined
<1>2. running[w] = None /\ UnderWay(w) = rs
  BY <1>1 DEF GoneIsDone, UnderWay
<1>3. rs \in SUBSET Reqs /\ \A r \in rs : owner[r] = w /\ Len(answers[r]) = 0
  <2>1. rs \in SUBSET Reqs
    BY UnderWayTypes
  <2>2. \A r \in rs : owner[r] = w
    BY <1>2 DEF StatementsPlaced
  <2> HIDE DEF rs
  <2> QED BY <1>2, <2>1, <2>2 DEF OpenUnanswered
<1> HIDE DEF rs
<1>4. /\ reply' \in [Reqs -> {None, "sent", "finished", "deleted"}]
      /\ timer' \in [Reqs -> BOOLEAN]
      /\ answers' \in [Reqs -> Seq({"body", "undecodable", "error", "rows", "dropped"})]
      /\ \A r \in rs : reply'[r] = "deleted" /\ Len(answers'[r]) = 1
      /\ \A r \in Reqs \ rs : reply'[r] = reply[r] /\ answers'[r] = answers[r]
      /\ UNCHANGED <<owner, bounded>>
  BY <1>1, <1>3, DropFacts
<1>5. RequestsTypeOK'
  BY <1>1, <1>4 DEF RequestsTypeOK, Workers
<1>6. posted'[w] = <<>> /\ inbox'[w] = <<>> /\ running'[w] = None
  BY <1>1, <1>2 DEF RequestsTypeOK
<1>7. Posted(w)' = {} /\ Inbox(w)' = {} /\ UnderWay(w)' = {}
  BY <1>6 DEF Posted, Inbox, UnderWay
<1>8. \A v \in Sql \ {w} : posted'[v] = posted[v] /\ inbox'[v] = inbox[v] /\ running'[v] = running[v]
  BY <1>1 DEF RequestsTypeOK
<1>9. \A v \in Sql \ {w} : UnderWay(v)' = UnderWay(v)
  BY <1>8 DEF UnderWay, Posted, Inbox
<1>10. \A v \in Sql : \A r \in UnderWay(v)' : owner'[r] = v
  BY <1>4, <1>7, <1>9 DEF StatementsPlaced
<1>11. /\ StatementsPlaced'
       /\ \A v \in Sql \ {w} : Posted(v)' = Posted(v) /\ Inbox(v)' = Inbox(v)
  <2>1. /\ \A j, k \in 1..Len(posted'[w]) : posted'[w][j] = posted'[w][k] => j = k
        /\ \A j, k \in 1..Len(inbox'[w]) : inbox'[w][j][1] = inbox'[w][k][1] => j = k
    BY <1>6
  <2>2. /\ Posted(w)' \cap Inbox(w)' = {} /\ running'[w] \notin Posted(w)' \cup Inbox(w)'
    BY <1>7
  <2> QED BY <1>8, <1>10, <2>1, <2>2, PlacedStep
<1>12. OpenUnanswered'
  <2>1. ASSUME NEW q \in Reqs
        PROVE  /\ owner[q] = None => reply'[q] = None /\ answers'[q] = <<>>
               /\ owner[q] \in Http => Len(answers'[q]) = (IF reply'[q] = "sent" THEN 0 ELSE 1)
               /\ \A v \in Sql : owner[q] = v =>
                    /\ reply'[q] \notin {"sent", "finished"}
                    /\ Len(answers'[q]) = (IF q \in UnderWay(v)' THEN 0 ELSE 1)
    <3>1. CASE q \in rs
      <4>1. w \notin Http /\ w # None
        BY DEF Workers
      <4> QED BY <1>3, <1>4, <1>7, <3>1, <4>1
    <3>2. CASE q \notin rs
      <4>1. reply'[q] = reply[q] /\ answers'[q] = answers[q]
        BY <1>4, <3>2
      <4>2. \A v \in Sql : q \in UnderWay(v)' <=> q \in UnderWay(v)
        BY <1>2, <1>7, <1>9, <3>2
      <4> QED BY <4>1, <4>2 DEF OpenUnanswered
    <3> QED BY <3>1, <3>2
  <2> QED BY <1>4, <2>1 DEF OpenUnanswered
<1>13. GoneIsDone'
  <2>1. \A v \in Workers \ {w} : worker'[v] = worker[v]
    BY <1>1 DEF RequestsTypeOK
  <2>2. ASSUME NEW q \in Reqs, reply'[q] = "sent" PROVE worker'[owner[q]] # "gone"
    <3>1. reply[q] = "sent"
      BY <1>4, <2>2
    <3>2. owner[q] # w /\ owner[q] \in Workers
      BY <3>1, SentToHttp
    <3> QED BY <2>1, <3>1, <3>2 DEF GoneIsDone
  <2>3. ASSUME NEW v \in Sql, worker'[v] = "gone"
        PROVE  thread[v] = "exited" /\ Posted(v)' \cup Inbox(v)' = {}
    <3>1. CASE v = w
      BY <1>1, <1>7, <3>1
    <3>2. CASE v # w
      BY <1>11, <2>1, <2>3, <3>2 DEF GoneIsDone, Workers
    <3> QED BY <3>1, <3>2
  <2> QED BY <1>1, <1>4, <2>2, <2>3 DEF GoneIsDone
<1> QED BY <1>5, <1>11, <1>12, <1>13, SettledFollows, PTL

\* Every step of the workers, their threads and the network keeps the invariant.
LEMMA RequestsNextInv == RequestsInv /\ [RequestsNext]_requestsVars => RequestsInv'
<1> SUFFICES ASSUME RequestsInv, [RequestsNext]_requestsVars PROVE RequestsInv'
  OBVIOUS
<1>1. ASSUME NEW w \in Http, CreateHttp(w) \/ Destroy(w) PROVE RequestsInv'
  BY <1>1, WorkerStepInv DEF CreateHttp, Destroy, sqlVars, Workers, RequestsInv, RequestsTypeOK
<1>2. ASSUME NEW w \in Sql, CreateSql(w) PROVE RequestsInv'
  BY <1>2, WorkerStepInv DEF CreateSql, Workers, RequestsInv, RequestsTypeOK
<1>3. ASSUME NEW w \in Sql, CreateSqlRaises(w) PROVE RequestsInv'
  BY <1>3, WorkerStepInv DEF CreateSqlRaises, sqlVars, Workers
<1>4. ASSUME NEW w \in Sql, Destroy(w) \/ SqlDtor(w) PROVE RequestsInv'
  BY <1>4, WorkerStepInv DEF Destroy, SqlDtor, sqlVars, Workers, RequestsInv, RequestsTypeOK
<1>5. ASSUME NEW w \in Sql, ThreadExits(w) PROVE RequestsInv'
  BY <1>5, WorkerStepInv DEF ThreadExits, Workers, RequestsInv, RequestsTypeOK
<1>6. ASSUME NEW r \in Reqs, NetworkAnswers(r) PROVE RequestsInv'
  BY <1>6, ReplyStepInv DEF NetworkAnswers, Finished, RequestsInv, RequestsTypeOK
<1>7. ASSUME NEW r \in Reqs, Abort(r) PROVE RequestsInv'
  BY <1>7, ReplyStepInv DEF Abort, Finished, RequestsInv, RequestsTypeOK
<1>8. ASSUME NEW r \in Reqs, ReplyDeleted(r) PROVE RequestsInv'
  BY <1>8, ReplyStepInv DEF ReplyDeleted, RequestsInv, RequestsTypeOK
<1>9. ASSUME NEW r \in Reqs, NEW w \in Http, NEW t \in BOOLEAN, Request(r, w, t) PROVE RequestsInv'
  BY <1>9, ReplyStepInv DEF Request, Armed, RequestsInv, RequestsTypeOK
<1>10. CASE UNCHANGED requestsVars
  <2>1. UNCHANGED <<worker, aborted, owner, reply, timer, bounded, answers, connection, posted,
                    running, thread, inbox>>
    BY <1>10 DEF requestsVars, reqVars, sqlVars
  <2>2. StatementsPlaced' /\ OpenUnanswered' /\ GoneIsDone'
    BY <2>1, QueuesStill DEF RequestsInv, OpenUnanswered, GoneIsDone
  <2> QED BY <2>1, <2>2 DEF RequestsInv, RequestsTypeOK, SettledOnce
<1> QED
  BY <1>1, <1>2, <1>3, <1>4, <1>5, <1>6, <1>7, <1>8, <1>9, <1>10, ExecInv, DoExecInv,
     DoExecEndsInv, DeliverInv, HttpGoneInv, SqlGoneInv DEF RequestsNext

\* Over every interleaving of replies, timers, the threads of Sql workers and the
\* destruction of workers: a request is under way at one place, unanswered, or
\* has its one answer.
THEOREM RequestsInvariant == RequestsSpec => []RequestsInv
BY RequestsInitInv, RequestsNextInv, PTL DEF RequestsSpec

\* No promise of Http::request or SqlWorker::Exec is settled twice, and none is
\* left open by a worker that is gone.
THEOREM RequestsSettledOnce == RequestsSpec => []SettledOnce
<1>1. RequestsInv => SettledOnce
  BY DEF RequestsInv
<1> QED BY <1>1, RequestsInvariant, PTL

-----------------------------------------------------------------------------
(* Streams                                                                 *)

\* A set of numbers that is not empty has a least one.
LEMMA LeastNat ==
  ASSUME NEW T, T \subseteq Nat, T # {}
  PROVE  \E n \in T : \A m \in T : n <= m
<1>1. IsWellFoundedOn(OpToRel(<, Nat), Nat) BY NatLessThanWellFounded
<1>2. PICK n \in T : \A m \in T : ~(<<m, n>> \in OpToRel(<, Nat)) BY <1>1, WFMin
<1>3. \A m \in T : m \in Nat /\ n \in Nat /\ ~(m < n) BY <1>2 DEF OpToRel
<1> QED BY <1>3

\* Induction, over the set of numbers for which a fact holds.
LEMMA SetInduction ==
  ASSUME NEW S, 0 \in S, \A n \in Nat : n \in S => n + 1 \in S
  PROVE  Nat \subseteq S
<1> DEFINE T == Nat \ S
<1>1. SUFFICES ASSUME T # {} PROVE FALSE OBVIOUS
<1>2. PICK n \in T : \A m \in T : n <= m BY <1>1, LeastNat
<1>3. n # 0 /\ n \in Nat OBVIOUS
<1>4. n - 1 \in Nat /\ ~(n <= n - 1) BY <1>3
<1>5. n - 1 \in S BY <1>2, <1>4
<1> QED BY <1>3, <1>4, <1>5

-----------------------------------------------------------------------------
(* Byte streams                                                            *)

\* The bytes written for the first n of a payload; what n bytes of a frame have
\* been read as; what n bytes of a buffer have been parsed to.
IsWriting(payload, n, f) ==
  f = [i \in 0..n |-> IF i = 0 THEN <<>> ELSE f[i - 1] \o Escaped(payload[i])]
IsReading(frame, n, f) ==
  f = [i \in 0..n |-> IF i = 0 THEN Unescaping("plain", <<>>) ELSE ReadByte(f[i - 1], frame[i])]
IsParsing(fr, pr, buf, n, f) ==
  f = [i \in 0..n |-> IF i = 0 THEN Parsed(<<>>, <<>>, FALSE) ELSE ParseByte(fr, pr, f[i - 1], buf[i])]

\* slipa::Write comes to its end: there is such a writing.
LEMMA WritingExists ==
  ASSUME NEW payload, NEW n \in Nat
  PROVE  \E f : IsWriting(payload, n, f)
<1> DEFINE S == {m \in Nat : \E f : IsWriting(payload, m, f)}
<1>1. 0 \in S
  <2> DEFINE f == [i \in 0..0 |-> <<>>]
  <2>1. f = [i \in 0..0 |-> IF i = 0 THEN <<>> ELSE f[i - 1] \o Escaped(payload[i])] OBVIOUS
  <2>2. IsWriting(payload, 0, f) BY <2>1 DEF IsWriting
  <2> QED BY <2>2
<1>2. ASSUME NEW m \in Nat, m \in S PROVE m + 1 \in S
  <2>1. PICK f : IsWriting(payload, m, f) BY <1>2
  <2> DEFINE g == [i \in 0..(m + 1) |-> IF i <= m THEN f[i] ELSE f[m] \o Escaped(payload[m + 1])]
             r == [i \in 0..(m + 1) |-> IF i = 0 THEN <<>> ELSE g[i - 1] \o Escaped(payload[i])]
  <2>2. f = [i \in 0..m |-> IF i = 0 THEN <<>> ELSE f[i - 1] \o Escaped(payload[i])] BY <2>1 DEF IsWriting
  <2>3. ASSUME NEW i \in 0..(m + 1) PROVE g[i] = r[i]
    <3>1. CASE i = 0
      <4>1. g[0] = f[0] /\ r[0] = <<>> BY <3>1
      <4>2. f[0] = <<>> BY <2>2
      <4> QED BY <3>1, <4>1, <4>2
    <3>2. CASE i # 0 /\ i <= m
      <4>1. i \in 0..m /\ i - 1 \in 0..(m + 1) /\ i - 1 <= m BY <3>2
      <4>2. g[i] = f[i] /\ g[i - 1] = f[i - 1] /\ r[i] = g[i - 1] \o Escaped(payload[i]) BY <3>2, <4>1
      <4>3. f[i] = f[i - 1] \o Escaped(payload[i]) BY <2>2, <3>2, <4>1
      <4> QED BY <4>2, <4>3
    <3>3. CASE i = m + 1
      <4>1. m \in 0..(m + 1) /\ m <= m /\ ~(m + 1 <= m) /\ (m + 1) - 1 = m
            /\ m + 1 \in 0..(m + 1) /\ m + 1 # 0
        OBVIOUS
      <4>2. g[m + 1] = f[m] \o Escaped(payload[m + 1]) /\ g[m] = f[m] BY <4>1
      <4> HIDE DEF g
      <4>3. r[m + 1] = g[(m + 1) - 1] \o Escaped(payload[m + 1]) BY <4>1
      <4> QED BY <3>3, <4>1, <4>2, <4>3
    <3>4. i = 0 \/ (i # 0 /\ i <= m) \/ i = m + 1 OBVIOUS
    <3> HIDE DEF g, r
    <3> QED BY <3>1, <3>2, <3>3, <3>4
  <2>4. g = r BY <2>3
  <2>5. IsWriting(payload, m + 1, g) BY <2>4 DEF IsWriting
  <2> QED BY <2>5
<1> HIDE DEF S
<1>3. Nat \subseteq S BY <1>1, <1>2, SetInduction
<1> QED BY <1>3 DEF S

\* slipa::Read comes to its end: there is such a reading.
LEMMA ReadingExists ==
  ASSUME NEW frame, NEW n \in Nat
  PROVE  \E f : IsReading(frame, n, f)
<1> DEFINE S == {m \in Nat : \E f : IsReading(frame, m, f)}
<1>1. 0 \in S
  <2> DEFINE f == [i \in 0..0 |-> Unescaping("plain", <<>>)]
  <2>1. f = [i \in 0..0 |-> IF i = 0 THEN Unescaping("plain", <<>>) ELSE ReadByte(f[i - 1], frame[i])] OBVIOUS
  <2>2. IsReading(frame, 0, f) BY <2>1 DEF IsReading
  <2> QED BY <2>2
<1>2. ASSUME NEW m \in Nat, m \in S PROVE m + 1 \in S
  <2>1. PICK f : IsReading(frame, m, f) BY <1>2
  <2> DEFINE g == [i \in 0..(m + 1) |-> IF i <= m THEN f[i] ELSE ReadByte(f[m], frame[m + 1])]
             r == [i \in 0..(m + 1) |-> IF i = 0 THEN Unescaping("plain", <<>>) ELSE ReadByte(g[i - 1], frame[i])]
  <2>2. f = [i \in 0..m |-> IF i = 0 THEN Unescaping("plain", <<>>) ELSE ReadByte(f[i - 1], frame[i])] BY <2>1 DEF IsReading
  <2>3. ASSUME NEW i \in 0..(m + 1) PROVE g[i] = r[i]
    <3>1. CASE i = 0
      <4>1. g[0] = f[0] /\ r[0] = Unescaping("plain", <<>>) BY <3>1
      <4>2. f[0] = Unescaping("plain", <<>>) BY <2>2
      <4> QED BY <3>1, <4>1, <4>2
    <3>2. CASE i # 0 /\ i <= m
      <4>1. i \in 0..m /\ i - 1 \in 0..(m + 1) /\ i - 1 <= m BY <3>2
      <4>2. g[i] = f[i] /\ g[i - 1] = f[i - 1] /\ r[i] = ReadByte(g[i - 1], frame[i]) BY <3>2, <4>1
      <4>3. f[i] = ReadByte(f[i - 1], frame[i]) BY <2>2, <3>2, <4>1
      <4> QED BY <4>2, <4>3
    <3>3. CASE i = m + 1
      <4>1. m \in 0..(m + 1) /\ m <= m /\ ~(m + 1 <= m) /\ (m + 1) - 1 = m
            /\ m + 1 \in 0..(m + 1) /\ m + 1 # 0
        OBVIOUS
      <4>2. g[m + 1] = ReadByte(f[m], frame[m + 1]) /\ g[m] = f[m] BY <4>1
      <4> HIDE DEF g
      <4>3. r[m + 1] = ReadByte(g[(m + 1) - 1], frame[m + 1]) BY <4>1
      <4> QED BY <3>3, <4>1, <4>2, <4>3
    <3>4. i = 0 \/ (i # 0 /\ i <= m) \/ i = m + 1 OBVIOUS
    <3> HIDE DEF g, r
    <3> QED BY <3>1, <3>2, <3>3, <3>4
  <2>4. g = r BY <2>3
  <2>5. IsReading(frame, m + 1, g) BY <2>4 DEF IsReading
  <2> QED BY <2>5
<1> HIDE DEF S
<1>3. Nat \subseteq S BY <1>1, <1>2, SetInduction
<1> QED BY <1>3 DEF S

\* The parsers come to their end: there is such a parsing.
LEMMA ParsingExists ==
  ASSUME NEW fr, NEW pr, NEW buf, NEW n \in Nat
  PROVE  \E f : IsParsing(fr, pr, buf, n, f)
<1> DEFINE S == {m \in Nat : \E f : IsParsing(fr, pr, buf, m, f)}
<1>1. 0 \in S
  <2> DEFINE f == [i \in 0..0 |-> Parsed(<<>>, <<>>, FALSE)]
  <2>1. f = [i \in 0..0 |-> IF i = 0 THEN Parsed(<<>>, <<>>, FALSE) ELSE ParseByte(fr, pr, f[i - 1], buf[i])] OBVIOUS
  <2>2. IsParsing(fr, pr, buf, 0, f) BY <2>1 DEF IsParsing
  <2> QED BY <2>2
<1>2. ASSUME NEW m \in Nat, m \in S PROVE m + 1 \in S
  <2>1. PICK f : IsParsing(fr, pr, buf, m, f) BY <1>2
  <2> DEFINE g == [i \in 0..(m + 1) |-> IF i <= m THEN f[i] ELSE ParseByte(fr, pr, f[m], buf[m + 1])]
             r == [i \in 0..(m + 1) |-> IF i = 0 THEN Parsed(<<>>, <<>>, FALSE) ELSE ParseByte(fr, pr, g[i - 1], buf[i])]
  <2>2. f = [i \in 0..m |-> IF i = 0 THEN Parsed(<<>>, <<>>, FALSE) ELSE ParseByte(fr, pr, f[i - 1], buf[i])] BY <2>1 DEF IsParsing
  <2>3. ASSUME NEW i \in 0..(m + 1) PROVE g[i] = r[i]
    <3>1. CASE i = 0
      <4>1. g[0] = f[0] /\ r[0] = Parsed(<<>>, <<>>, FALSE) BY <3>1
      <4>2. f[0] = Parsed(<<>>, <<>>, FALSE) BY <2>2
      <4> QED BY <3>1, <4>1, <4>2
    <3>2. CASE i # 0 /\ i <= m
      <4>1. i \in 0..m /\ i - 1 \in 0..(m + 1) /\ i - 1 <= m BY <3>2
      <4>2. g[i] = f[i] /\ g[i - 1] = f[i - 1] /\ r[i] = ParseByte(fr, pr, g[i - 1], buf[i]) BY <3>2, <4>1
      <4>3. f[i] = ParseByte(fr, pr, f[i - 1], buf[i]) BY <2>2, <3>2, <4>1
      <4> QED BY <4>2, <4>3
    <3>3. CASE i = m + 1
      <4>1. m \in 0..(m + 1) /\ m <= m /\ ~(m + 1 <= m) /\ (m + 1) - 1 = m
            /\ m + 1 \in 0..(m + 1) /\ m + 1 # 0
        OBVIOUS
      <4>2. g[m + 1] = ParseByte(fr, pr, f[m], buf[m + 1]) /\ g[m] = f[m] BY <4>1
      <4> HIDE DEF g
      <4>3. r[m + 1] = ParseByte(fr, pr, g[(m + 1) - 1], buf[m + 1]) BY <4>1
      <4> QED BY <3>3, <4>1, <4>2, <4>3
    <3>4. i = 0 \/ (i # 0 /\ i <= m) \/ i = m + 1 OBVIOUS
    <3> HIDE DEF g, r
    <3> QED BY <3>1, <3>2, <3>3, <3>4
  <2>4. g = r BY <2>3
  <2>5. IsParsing(fr, pr, buf, m + 1, g) BY <2>4 DEF IsParsing
  <2> QED BY <2>5
<1> HIDE DEF S
<1>3. Nat \subseteq S BY <1>1, <1>2, SetInduction
<1> QED BY <1>3 DEF S

\* Two sequences with the same beginning.
SameUpTo(s, t, n) == \A i \in 1..n : s[i] = t[i]

\* Two frames with the same beginning are read alike there.
LEMMA ReadingAgrees ==
  ASSUME NEW s, NEW t, NEW n \in Nat, NEW m \in Nat, n <= m, NEW f, NEW g,
         IsReading(s, n, f), IsReading(t, m, g), SameUpTo(s, t, n)
  PROVE  f[n] = g[n]
<1> DEFINE S == {k \in Nat : k <= n => f[k] = g[k]}
<1>1. 0 \in S
  <2>1. 0 \in 0..n /\ 0 \in 0..m OBVIOUS
  <2> QED BY <2>1 DEF IsReading
<1>2. ASSUME NEW k \in Nat, k \in S PROVE k + 1 \in S
  <2> SUFFICES ASSUME k + 1 <= n PROVE f[k + 1] = g[k + 1] OBVIOUS
  <2>1. f[k] = g[k] /\ s[k + 1] = t[k + 1] BY <1>2 DEF SameUpTo
  <2>2. k + 1 \in 0..n /\ k + 1 \in 0..m /\ k + 1 # 0 /\ (k + 1) - 1 = k OBVIOUS
  <2>3. f[k + 1] = ReadByte(f[k], s[k + 1]) BY <2>2 DEF IsReading
  <2>4. g[k + 1] = ReadByte(g[k], t[k + 1]) BY <2>2 DEF IsReading
  <2> QED BY <2>1, <2>3, <2>4
<1> HIDE DEF S
<1>3. Nat \subseteq S BY <1>1, <1>2, SetInduction
<1> QED BY <1>3 DEF S

\* Two buffers with the same beginning are parsed alike there.
LEMMA ParsingAgrees ==
  ASSUME NEW fr, NEW pr, NEW s, NEW t, NEW n \in Nat, NEW m \in Nat, n <= m, NEW f, NEW g,
         IsParsing(fr, pr, s, n, f), IsParsing(fr, pr, t, m, g), SameUpTo(s, t, n)
  PROVE  f[n] = g[n]
<1> DEFINE S == {k \in Nat : k <= n => f[k] = g[k]}
<1>1. 0 \in S
  <2>1. 0 \in 0..n /\ 0 \in 0..m OBVIOUS
  <2> QED BY <2>1 DEF IsParsing
<1>2. ASSUME NEW k \in Nat, k \in S PROVE k + 1 \in S
  <2> SUFFICES ASSUME k + 1 <= n PROVE f[k + 1] = g[k + 1] OBVIOUS
  <2>1. f[k] = g[k] /\ s[k + 1] = t[k + 1] BY <1>2 DEF SameUpTo
  <2>2. k + 1 \in 0..n /\ k + 1 \in 0..m /\ k + 1 # 0 /\ (k + 1) - 1 = k OBVIOUS
  <2>3. f[k + 1] = ParseByte(fr, pr, f[k], s[k + 1]) BY <2>2 DEF IsParsing
  <2>4. g[k + 1] = ParseByte(fr, pr, g[k], t[k + 1]) BY <2>2 DEF IsParsing
  <2> QED BY <2>1, <2>3, <2>4
<1> HIDE DEF S
<1>3. Nat \subseteq S BY <1>1, <1>2, SetInduction
<1> QED BY <1>3 DEF S

\* slipa::Read goes on with the byte behind what it has read.
LEMMA UnescapedAppend ==
  ASSUME NEW s \in Seq(Nat), NEW b \in Nat
  PROVE  Unescaped(Append(s, b)) = ReadByte(Unescaped(s), b)
<1> DEFINE t == Append(s, b)
           f == CHOOSE f : IsReading(s, Len(s), f)
           g == CHOOSE g : IsReading(t, Len(t), g)
<1>0. Len(s) \in Nat /\ t \in Seq(Nat) /\ Len(t) = Len(s) + 1 /\ Len(t) \in Nat /\ Len(s) <= Len(t)
      /\ t[Len(s) + 1] = b /\ SameUpTo(s, t, Len(s))
  BY DEF SameUpTo
<1>1. IsReading(s, Len(s), f) BY Zenon, <1>0, ReadingExists
<1>2. IsReading(t, Len(t), g) BY Zenon, <1>0, ReadingExists
<1>3. Unescaped(s) = f[Len(s)] BY DEF Unescaped, IsReading
<1>4. Unescaped(t) = g[Len(t)] BY DEF Unescaped, IsReading
<1> HIDE DEF f, g, t
<1>5. f[Len(s)] = g[Len(s)] BY <1>0, <1>1, <1>2, ReadingAgrees
<1>6. g[Len(s) + 1] = ReadByte(g[Len(s)], t[Len(s) + 1])
  <2>1. Len(s) + 1 \in 0..Len(t) /\ Len(s) + 1 # 0 /\ (Len(s) + 1) - 1 = Len(s) BY <1>0
  <2> QED BY <1>2, <2>1 DEF IsReading
<1>7. Unescaped(t) = ReadByte(Unescaped(s), b) BY <1>0, <1>3, <1>4, <1>5, <1>6
<1> QED BY <1>7 DEF t

\* Nothing read is nothing written.
LEMMA UnescapedEmpty == Unescaped(<<>>) = Unescaping("plain", <<>>)
<1> DEFINE f == CHOOSE f : IsReading(<<>>, 0, f)
<1>1. IsReading(<<>>, 0, f) BY Zenon, ReadingExists, 0 \in Nat
<1>2. Unescaped(<<>>) = f[0]
  <2>1. Len(<<>>) = 0 OBVIOUS
  <2> QED BY <2>1 DEF Unescaped, IsReading
<1> HIDE DEF f
<1>3. f[0] = Unescaping("plain", <<>>) BY <1>1 DEF IsReading
<1> QED BY <1>2, <1>3

\* The parsers go on with the byte behind what they have parsed.
LEMMA ParseFramesAppend ==
  ASSUME NEW fr, NEW pr, NEW s \in Seq(Nat), NEW b \in Nat
  PROVE  ParseFrames(fr, pr, Append(s, b)) = ParseByte(fr, pr, ParseFrames(fr, pr, s), b)
<1> DEFINE t == Append(s, b)
           f == CHOOSE f : IsParsing(fr, pr, s, Len(s), f)
           g == CHOOSE g : IsParsing(fr, pr, t, Len(t), g)
<1>0. Len(s) \in Nat /\ t \in Seq(Nat) /\ Len(t) = Len(s) + 1 /\ Len(t) \in Nat /\ Len(s) <= Len(t)
      /\ t[Len(s) + 1] = b /\ SameUpTo(s, t, Len(s))
  BY DEF SameUpTo
<1>1. IsParsing(fr, pr, s, Len(s), f) BY Zenon, <1>0, ParsingExists
<1>2. IsParsing(fr, pr, t, Len(t), g) BY Zenon, <1>0, ParsingExists
<1>3. ParseFrames(fr, pr, s) = f[Len(s)] BY DEF ParseFrames, IsParsing
<1>4. ParseFrames(fr, pr, t) = g[Len(t)] BY DEF ParseFrames, IsParsing
<1> HIDE DEF f, g, t
<1>5. f[Len(s)] = g[Len(s)] BY <1>0, <1>1, <1>2, ParsingAgrees
<1>6. g[Len(s) + 1] = ParseByte(fr, pr, g[Len(s)], t[Len(s) + 1])
  <2>1. Len(s) + 1 \in 0..Len(t) /\ Len(s) + 1 # 0 /\ (Len(s) + 1) - 1 = Len(s) BY <1>0
  <2> QED BY <1>2, <2>1 DEF IsParsing
<1>7. ParseFrames(fr, pr, t) = ParseByte(fr, pr, ParseFrames(fr, pr, s), b)
  BY <1>0, <1>3, <1>4, <1>5, <1>6
<1> QED BY <1>7 DEF t

\* An empty buffer has no messages.
LEMMA ParseFramesEmpty ==
  ASSUME NEW fr, NEW pr PROVE ParseFrames(fr, pr, <<>>) = Parsed(<<>>, <<>>, FALSE)
<1> DEFINE f == CHOOSE f : IsParsing(fr, pr, <<>>, 0, f)
<1>1. IsParsing(fr, pr, <<>>, 0, f) BY Zenon, ParsingExists, 0 \in Nat
<1>2. ParseFrames(fr, pr, <<>>) = f[0]
  <2>1. Len(<<>>) = 0 OBVIOUS
  <2> QED BY <2>1 DEF ParseFrames, IsParsing
<1> HIDE DEF f
<1>3. f[0] = Parsed(<<>>, <<>>, FALSE) BY <1>1 DEF IsParsing
<1> QED BY <1>2, <1>3

\* A sequence without a byte.
Without(s, byte) == \A i \in 1..Len(s) : s[i] # byte

\* What slipa::Write writes has no END in it, and slipa::Read reads the payload
\* from it again.
LEMMA SlipRoundTrip ==
  ASSUME NEW payload \in Seq(Nat)
  PROVE  /\ SlipWrite(payload) \in Seq(Nat) /\ Without(SlipWrite(payload), END)
         /\ SlipRead(SlipWrite(payload)) = <<payload>>
<1> DEFINE w == CHOOSE w : IsWriting(payload, Len(payload), w)
<1>0. Len(payload) \in Nat OBVIOUS
<1>1. IsWriting(payload, Len(payload), w) BY Zenon, <1>0, WritingExists
<1>2. SlipWrite(payload) = w[Len(payload)] BY DEF SlipWrite, IsWriting
<1> HIDE DEF w
<1> DEFINE Good(n) == /\ w[n] \in Seq(Nat) /\ Without(w[n], END)
                      /\ Unescaped(w[n]) = Unescaping("plain", SubSeq(payload, 1, n))
           S == {n \in Nat : n <= Len(payload) => Good(n)}
<1>3. 0 \in S
  <2>1. w[0] = <<>> BY <1>0, <1>1 DEF IsWriting
  <2>2. <<>> \in Seq(Nat) /\ Without(<<>>, END) /\ SubSeq(payload, 1, 0) = <<>> BY DEF Without
  <2> QED BY <2>1, <2>2, UnescapedEmpty
<1>4. ASSUME NEW n \in Nat, n \in S PROVE n + 1 \in S
  <2> SUFFICES ASSUME n + 1 <= Len(payload) PROVE Good(n + 1) OBVIOUS
  <2> DEFINE b == payload[n + 1]
             old == SubSeq(payload, 1, n)
  <2>1. Good(n) BY <1>0, <1>4
  <2>2. b \in Nat /\ old \in Seq(Nat) /\ SubSeq(payload, 1, n + 1) = Append(old, b) BY <1>0
  <2>3. w[n + 1] = w[n] \o Escaped(b)
    <3>1. n + 1 \in 0..Len(payload) /\ n + 1 # 0 /\ (n + 1) - 1 = n BY <1>0
    <3> QED BY <1>1, <3>1 DEF IsWriting
  <2>4. ASSUME NEW s \in Seq(Nat), Without(s, END), NEW c \in Nat, c # END
        PROVE  Append(s, c) \in Seq(Nat) /\ Without(Append(s, c), END)
    BY <2>4 DEF Without
  <2> HIDE DEF b, old
  <2>5. CASE b # ESC /\ b # END
    <3>1. w[n + 1] = Append(w[n], b) BY <2>1, <2>2, <2>3, <2>5 DEF Escaped
    <3>2. Unescaped(w[n + 1]) = ReadByte(Unescaping("plain", old), b)
      BY <2>1, <2>2, <3>1, UnescapedAppend DEF old
    <3>3. ReadByte(Unescaping("plain", old), b) = Unescaping("plain", Append(old, b))
      BY <2>5 DEF ReadByte, Unescaping
    <3> QED BY <2>1, <2>2, <2>4, <2>5, <3>1, <3>2, <3>3
  <2>6. ASSUME NEW c \in Nat, c # END, w[n + 1] = Append(Append(w[n], ESC), c),
               ReadByte(Unescaping("escape", old), c) = Unescaping("plain", Append(old, b))
        PROVE  Good(n + 1)
    <3> DEFINE s == Append(w[n], ESC)
    <3>1. ESC \in Nat /\ ESC # END BY DEF ESC, END
    <3>2. s \in Seq(Nat) /\ Without(s, END) BY <2>1, <2>4, <3>1
    <3>3. Unescaped(s) = ReadByte(Unescaping("plain", old), ESC)
      BY <2>1, <3>1, UnescapedAppend DEF old
    <3>4. ReadByte(Unescaping("plain", old), ESC) = Unescaping("escape", old)
      BY DEF ReadByte, Unescaping
    <3> HIDE DEF s
    <3>5. Unescaped(Append(s, c)) = Unescaping("plain", Append(old, b))
      BY <2>6, <3>2, <3>3, <3>4, UnescapedAppend
    <3>6. Append(s, c) \in Seq(Nat) /\ Without(Append(s, c), END) BY <2>4, <2>6, <3>2
    <3>7. w[n + 1] = Append(s, c) BY <2>6 DEF s
    <3> QED BY <2>2, <3>5, <3>6, <3>7
  <2>9. ASSUME NEW s \in Seq(Nat), NEW c \in Nat
        PROVE  s \o <<ESC, c>> = Append(Append(s, ESC), c)
    BY DEF ESC
  <2>7. CASE b = ESC
    <3>1. ESC_ESC \in Nat /\ ESC_ESC # END BY DEF ESC_ESC, END
    <3>2. Escaped(b) = <<ESC, ESC_ESC>> BY <2>7 DEF Escaped
    <3>4. w[n + 1] = Append(Append(w[n], ESC), ESC_ESC) BY <2>1, <2>3, <2>9, <3>1, <3>2
    <3>3. ReadByte(Unescaping("escape", old), ESC_ESC) = Unescaping("plain", Append(old, b))
      BY <2>7 DEF ReadByte, Unescaping, ESC_END, ESC_ESC
    <3> QED BY <2>6, <3>1, <3>3, <3>4
  <2>8. CASE b = END
    <3>1. ESC_END \in Nat /\ ESC_END # END BY DEF ESC_END, END
    <3>2. Escaped(b) = <<ESC, ESC_END>> BY <2>8 DEF Escaped, ESC, END
    <3>4. w[n + 1] = Append(Append(w[n], ESC), ESC_END) BY <2>1, <2>3, <2>9, <3>1, <3>2
    <3>3. ReadByte(Unescaping("escape", old), ESC_END) = Unescaping("plain", Append(old, b))
      BY <2>8 DEF ReadByte, Unescaping, ESC_END, ESC_ESC
    <3> QED BY <2>6, <3>1, <3>3, <3>4
  <2> QED BY <2>5, <2>7, <2>8
<1> HIDE DEF S
<1>5. Nat \subseteq S BY <1>3, <1>4, SetInduction
<1>6. Good(Len(payload)) BY <1>0, <1>5 DEF S
<1>7. SubSeq(payload, 1, Len(payload)) = payload OBVIOUS
<1>8. Unescaped(SlipWrite(payload)) = Unescaping("plain", payload) BY <1>2, <1>6, <1>7
<1>9. SlipRead(SlipWrite(payload)) = <<payload>> BY <1>8 DEF SlipRead, Unescaping
<1> QED BY <1>2, <1>6, <1>9

\* What the parsers know a frame's end by.
Terminator(fr) == IF fr = "slip" THEN END ELSE NL

\* The protocols read what they have written.
LEMMA ProtoRoundTrip ==
  ASSUME NEW pr \in {"msgpack", "text"}, NEW msg \in Seq(Nat), pr = "text" => IsString(msg)
  PROVE  /\ DumpProto(pr, msg) \in Seq(Nat)
         /\ ParseProto(pr, DumpProto(pr, msg)) = <<msg>>
<1>1. CASE pr = "text"
  <2>1. ASSUME NEW i \in 1..Len(msg) PROVE msg[i] < 128 BY <1>1 DEF IsString
  <2>2. [i \in 1..Len(msg) |-> IF msg[i] < 128 THEN msg[i] ELSE Replacement] = msg BY <2>1
  <2> QED BY <1>1, <2>2 DEF DumpProto, ParseProto, ParseText
<1>2. CASE pr = "msgpack"
  <2> DEFINE d == <<Len(msg)>> \o msg
  <2>1. d \in Seq(Nat) /\ d # <<>> /\ Head(d) = Len(msg) /\ Len(d) = Len(msg) + 1 OBVIOUS
  <2>2. Tail(d) = msg /\ Head(d) = Len(d) - 1 OBVIOUS
  <2> HIDE DEF d
  <2>3. ParseMsgpack(d) = <<msg>> BY <2>1, <2>2 DEF ParseMsgpack
  <2> QED BY <1>2, <2>1, <2>3 DEF DumpProto, ParseProto, DumpMsgpack, d
<1> QED BY <1>1, <1>2

\* wire::Decode reads what wire::Encode has written.
LEMMA EncodeRoundTrip ==
  ASSUME NEW msg \in Seq(Nat)
  PROVE  Encode(msg) \in Seq(Nat) /\ Decode(Encode(msg)) = <<msg>>
<1> DEFINE d == <<Len(msg)>> \o msg
           e == <<Len(msg)>> \o d
<1>1. d \in Seq(Nat) /\ d # <<>> /\ Head(d) = Len(msg) /\ Len(d) = Len(msg) + 1 OBVIOUS
<1>2. SubSeq(d, 2, 1 + Head(d)) = msg /\ Head(d) < Len(d) OBVIOUS
<1> HIDE DEF d
<1>3. e \in Seq(Nat) /\ e # <<>> /\ Head(e) = Len(msg) /\ Head(e) = Len(e) - 2 /\ Tail(e) = d BY <1>1
<1> HIDE DEF e
<1>4. Unpack(d) = <<msg>> BY <1>1, <1>2 DEF Unpack
<1>5. DumpMsgpack(msg) = d BY DEF DumpMsgpack, d
<1>6. CASE Compressed
  <2>1. Encode(msg) = e BY <1>5, <1>6 DEF Encode, e
  <2>2. Decode(e) = <<msg>> BY <1>3, <1>4, <1>6 DEF Decode
  <2> QED BY <1>3, <2>1, <2>2
<1>7. CASE ~Compressed
  <2>1. Encode(msg) = d BY <1>5, <1>7 DEF Encode
  <2>2. Decode(d) = <<msg>> BY <1>4, <1>7 DEF Decode
  <2> QED BY <1>1, <2>1, <2>2
<1> QED BY <1>6, <1>7

\* A frame that is a payload and a terminator.
EndsFrame(f, p, t) ==
  /\ f \in Seq(Nat) /\ f # <<>> /\ Last(f) = t /\ Front(f) = p /\ f[Len(f)] = t
  /\ \A m \in 1..(Len(f) - 1) : Last(SubSeq(f, 1, m)) # t

\* A terminator behind bytes that are none ends a frame, and only it does.
LEMMA Terminated ==
  ASSUME NEW p \in Seq(Nat), NEW t \in Nat, Without(p, t)
  PROVE  EndsFrame(Append(p, t), p, t)
<1> DEFINE f == Append(p, t)
<1>1. f \in Seq(Nat) /\ Len(f) = Len(p) + 1 /\ f[Len(f)] = t /\ SubSeq(f, 1, Len(p)) = p OBVIOUS
<1>2. f # <<>> /\ Last(f) = t /\ Front(f) = p BY <1>1 DEF Last, Front
<1>3. ASSUME NEW m \in 1..(Len(f) - 1) PROVE Last(SubSeq(f, 1, m)) # t
  <2>1. m \in 1..Len(p) /\ m \in 1..Len(f) BY <1>1
  <2>2. Len(SubSeq(f, 1, m)) = m /\ SubSeq(f, 1, m)[m] = f[m] BY <1>1, <2>1
  <2>3. f[m] = p[m] BY <2>1
  <2> QED BY <2>1, <2>2, <2>3 DEF Last, Without
<1> HIDE DEF f
<1>4. EndsFrame(f, p, t) BY <1>1, <1>2, <1>3 DEF EndsFrame
<1> QED BY <1>4 DEF f

\* A frame is found at its last byte and not before, and its message is in it.
GoodFrame(fr, pr, f, msg, safe) ==
  /\ f \in Seq(Nat) /\ Len(f) >= 1
  /\ Whole(fr, f)
  /\ \A m \in 1..(Len(f) - 1) : ~Whole(fr, SubSeq(f, 1, m))
  /\ fr # "length" => f[Len(f)] = Terminator(fr)
  /\ safe => Contents(fr, pr, f) = <<msg>>

\* dumpSlipFrames and parseSlipFrames agree on what a frame is.
LEMMA SlipFrames ==
  ASSUME NEW pr \in {"msgpack", "text"}, NEW msg \in Seq(Nat), pr = "text" => IsString(msg)
  PROVE  GoodFrame("slip", pr, SlipFramed(DumpProto(pr, msg)), msg, TRUE)
<1> DEFINE p == DumpProto(pr, msg)
           f == SlipFramed(p)
<1>1. p \in Seq(Nat) /\ ParseProto(pr, p) = <<msg>> BY ProtoRoundTrip
<1> HIDE DEF p
<1>2. SlipWrite(p) \in Seq(Nat) /\ Without(SlipWrite(p), END) /\ SlipRead(SlipWrite(p)) = <<p>>
  BY <1>1, SlipRoundTrip
<1>3. END \in Nat BY DEF END
<1>4. f = Append(SlipWrite(p), END) BY DEF SlipFramed
<1> HIDE DEF f
<1>5. EndsFrame(f, SlipWrite(p), END) BY <1>2, <1>3, <1>4, Terminated
<1>6. Contents("slip", pr, f) = <<msg>> BY <1>1, <1>2, <1>5 DEF Contents, SlipContents, EndsFrame
<1>7. GoodFrame("slip", pr, f, msg, TRUE) BY <1>5, <1>6 DEF GoodFrame, Whole, Terminator, EndsFrame
<1> QED BY <1>7 DEF f, p

\* dumpLineFrames and parseLineFrames agree on what a frame is.
LEMMA LineFrames ==
  ASSUME NEW pr \in {"msgpack", "text"}, NEW msg \in Seq(Nat), pr = "text" => IsString(msg),
         ~Contains(DumpProto(pr, msg), NL), NEW safe \in BOOLEAN,
         safe /\ DumpProto(pr, msg) # <<>> => DumpProto(pr, msg)[Len(DumpProto(pr, msg))] # CR
  PROVE  GoodFrame("line", pr, LineFramed(DumpProto(pr, msg)), msg, safe)
<1> DEFINE p == DumpProto(pr, msg)
           f == LineFramed(p)
<1>1. p \in Seq(Nat) /\ ParseProto(pr, p) = <<msg>> BY ProtoRoundTrip
<1>2. Without(p, NL) BY DEF Contains, Without
<1>3. safe /\ p # <<>> => Last(p) # CR BY DEF Last
<1> HIDE DEF p
<1>4. NL \in Nat BY DEF NL
<1>5. f = Append(p, NL) BY DEF LineFramed
<1> HIDE DEF f
<1>6. EndsFrame(f, p, NL) BY <1>1, <1>2, <1>4, <1>5, Terminated
<1>7. safe => Contents("line", pr, f) = <<msg>> BY <1>1, <1>3, <1>6 DEF Contents, LineContents, EndsFrame
<1>8. GoodFrame("line", pr, f, msg, safe) BY <1>6, <1>7 DEF GoodFrame, Whole, Terminator, EndsFrame
<1> QED BY <1>8 DEF f, p

\* wire::Frame and DrainFrames agree on what a frame is.
LEMMA LengthFrames ==
  ASSUME NEW pr, NEW msg \in Seq(Nat)
  PROVE  GoodFrame("length", pr, Frame(Encode(msg)), msg, TRUE)
<1> DEFINE p == Encode(msg)
           f == Frame(p)
           n == Len(p)
<1>1. p \in Seq(Nat) /\ Decode(p) = <<msg>> BY EncodeRoundTrip
<1> HIDE DEF p
<1>2. n \in Nat BY <1>1
<1>3. n \div 256 \in Nat /\ n % 256 \in Nat /\ (n \div 256) * 256 + (n % 256) = n BY <1>2
<1>4. /\ f \in Seq(Nat) /\ Len(f) = 2 + n /\ f[1] = n \div 256 /\ f[2] = n % 256
      /\ SubSeq(f, 3, Len(f)) = p
  BY <1>1, <1>2, <1>3 DEF Frame
<1> HIDE DEF f
<1>9. f[1] \in Nat /\ f[2] \in Nat /\ f[1] * 256 + f[2] = n BY <1>3, <1>4
<1> HIDE DEF n
<1>5. Whole("length", f) BY <1>2, <1>4, <1>9 DEF Whole
<1>6. ASSUME NEW m \in 1..(Len(f) - 1) PROVE ~Whole("length", SubSeq(f, 1, m))
  <2>1. Len(SubSeq(f, 1, m)) = m /\ m < 2 + n BY <1>2, <1>4
  <2>2. m >= 2 => SubSeq(f, 1, m)[1] = f[1] /\ SubSeq(f, 1, m)[2] = f[2] BY <1>2, <1>4
  <2> QED BY <1>2, <1>9, <2>1, <2>2 DEF Whole
<1>7. Contents("length", pr, f) = <<msg>> BY <1>1, <1>4 DEF Contents, LengthContents
<1>8. GoodFrame("length", pr, f, msg, TRUE) BY <1>2, <1>4, <1>5, <1>6, <1>7 DEF GoodFrame
<1> QED BY <1>8 DEF f, p

\* What slipa::Read has read is bytes.
LEMMA UnescapedType ==
  ASSUME NEW s \in Seq(Nat)
  PROVE  Unescaped(s) \in [state : {"plain", "escape", "invalid"}, out : Seq(Nat)]
<1> DEFINE R == [state : {"plain", "escape", "invalid"}, out : Seq(Nat)]
           f == CHOOSE f : IsReading(s, Len(s), f)
           S == {n \in Nat : n <= Len(s) => f[n] \in R}
<1>0. Len(s) \in Nat OBVIOUS
<1>1. IsReading(s, Len(s), f) BY Zenon, <1>0, ReadingExists
<1>2. Unescaped(s) = f[Len(s)] BY DEF Unescaped, IsReading
<1> HIDE DEF f
<1>3. 0 \in S
  <2>1. f[0] = Unescaping("plain", <<>>) BY <1>0, <1>1 DEF IsReading
  <2>2. <<>> \in Seq(Nat) OBVIOUS
  <2>3. Unescaping("plain", <<>>) \in R BY <2>2 DEF Unescaping
  <2> QED BY <2>1, <2>3
<1>4. ASSUME NEW n \in Nat, n \in S PROVE n + 1 \in S
  <2> SUFFICES ASSUME n + 1 <= Len(s) PROVE f[n + 1] \in R OBVIOUS
  <2>1. f[n] \in R /\ s[n + 1] \in Nat BY <1>0, <1>4
  <2>2. f[n + 1] = ReadByte(f[n], s[n + 1])
    <3>1. n + 1 \in 0..Len(s) /\ n + 1 # 0 /\ (n + 1) - 1 = n BY <1>0
    <3> QED BY <1>1, <3>1 DEF IsReading
  <2>3. ASSUME NEW x \in R, NEW b \in Nat PROVE ReadByte(x, b) \in R
    BY <2>3 DEF ReadByte, Unescaping, END, ESC
  <2> QED BY <2>1, <2>2, <2>3
<1> HIDE DEF S
<1>5. Nat \subseteq S BY <1>3, <1>4, SetInduction
<1> QED BY <1>0, <1>2, <1>5 DEF S

\* What the parsers find in a frame is messages.
LEMMA ContentsType ==
  ASSUME NEW fr, NEW pr, NEW piece \in Seq(Nat), piece # <<>>
  PROVE  Contents(fr, pr, piece) \in Seq(Seq(Nat))
<1>0. Front(piece) \in Seq(Nat) BY DEF Front
<1>1. ASSUME NEW s \in Seq(Nat) PROVE ParseProto(pr, s) \in Seq(Seq(Nat))
  <2>1. ParseText(s) \in Seq(Seq(Nat)) BY DEF ParseText, Replacement
  <2>2. ParseMsgpack(s) \in Seq(Seq(Nat)) BY DEF ParseMsgpack
  <2> QED BY <2>1, <2>2 DEF ParseProto
<1>2. SlipContents(pr, piece) \in Seq(Seq(Nat))
  <2>1. Unescaped(Front(piece)).out \in Seq(Nat) BY <1>0, UnescapedType
  <2>2. SlipRead(Front(piece)) = <<Unescaped(Front(piece)).out>> \/ SlipRead(Front(piece)) = <<>>
    BY DEF SlipRead
  <2> QED BY <1>1, <2>1, <2>2 DEF SlipContents
<1>3. LineContents(pr, piece) \in Seq(Seq(Nat))
  <2>1. Front(piece) # <<>> => Front(Front(piece)) \in Seq(Nat) BY <1>0 DEF Front
  <2> QED BY <1>0, <1>1, <2>1 DEF LineContents
<1>4. ASSUME NEW s \in Seq(Nat) PROVE Unpack(s) \in Seq(Seq(Nat))
  <2>1. CASE s # <<>> /\ Head(s) < Len(s)
    <3>1. Head(s) \in Nat /\ SubSeq(s, 2, 1 + Head(s)) \in Seq(Nat) BY <2>1
    <3> QED BY <2>1, <3>1 DEF Unpack
  <2>2. CASE ~(s # <<>> /\ Head(s) < Len(s)) BY <2>2 DEF Unpack
  <2> QED BY <2>1, <2>2
<1>5. LengthContents(piece) \in Seq(Seq(Nat))
  <2> DEFINE s == SubSeq(piece, 3, Len(piece))
  <2>1. s \in Seq(Nat) /\ (s # <<>> => Tail(s) \in Seq(Nat)) OBVIOUS
  <2> HIDE DEF s
  <2>3. <<>> \in Seq(Seq(Nat)) /\ Unpack(s) \in Seq(Seq(Nat)) BY <1>4, <2>1
  <2>4. s # <<>> => Unpack(Tail(s)) \in Seq(Seq(Nat)) BY <1>4, <2>1
  <2>2. Decode(s) \in Seq(Seq(Nat)) BY <2>3, <2>4 DEF Decode
  <2> QED BY <2>2 DEF LengthContents, s
<1> QED BY <1>2, <1>3, <1>5 DEF Contents

\* No beginning of a buffer is a frame.
Unbroken(fr, s) == \A m \in 1..Len(s) : ~Whole(fr, SubSeq(s, 1, m))

\* The first n bytes of a buffer are parsed to themselves.
Left(fr, pr, s, n) == ParseFrames(fr, pr, SubSeq(s, 1, n)) = Parsed(<<>>, SubSeq(s, 1, n), FALSE)

\* The bytes a parser left are parsed to themselves.
LEMMA UnbrokenParsed ==
  ASSUME NEW fr, NEW pr, NEW s \in Seq(Nat), Unbroken(fr, s)
  PROVE  ParseFrames(fr, pr, s) = Parsed(<<>>, s, FALSE)
<1> DEFINE S == {n \in Nat : n <= Len(s) => Left(fr, pr, s, n)}
<1>0. Len(s) \in Nat OBVIOUS
<1>1. 0 \in S
  <2>1. SubSeq(s, 1, 0) = <<>> OBVIOUS
  <2> QED BY <2>1, ParseFramesEmpty DEF Left
<1>2. ASSUME NEW n \in Nat, n \in S PROVE n + 1 \in S
  <2> SUFFICES ASSUME n + 1 <= Len(s) PROVE Left(fr, pr, s, n + 1) OBVIOUS
  <2> DEFINE t == SubSeq(s, 1, n)
             u == SubSeq(s, 1, n + 1)
             b == s[n + 1]
  <2>1. Left(fr, pr, s, n) BY <1>0, <1>2
  <2>2. t \in Seq(Nat) /\ b \in Nat /\ u = Append(t, b) BY <1>0
  <2>3. ~Whole(fr, u) BY <1>0 DEF Unbroken
  <2> HIDE DEF t, u, b
  <2>4. ParseFrames(fr, pr, u) = ParseByte(fr, pr, Parsed(<<>>, t, FALSE), b)
    <3>1. ParseFrames(fr, pr, t) = Parsed(<<>>, t, FALSE) BY <2>1 DEF Left, t
    <3>2. ParseFrames(fr, pr, Append(t, b)) = ParseByte(fr, pr, ParseFrames(fr, pr, t), b)
      BY <2>2, ParseFramesAppend
    <3> QED BY <2>2, <3>1, <3>2
  <2>5. ParseByte(fr, pr, Parsed(<<>>, t, FALSE), b) = Parsed(<<>>, u, FALSE)
    BY <2>2, <2>3 DEF ParseByte, Parsed
  <2> QED BY <2>4, <2>5 DEF u, Left
<1> HIDE DEF S
<1>3. Nat \subseteq S BY <1>1, <1>2, SetInduction
<1>4. Left(fr, pr, s, Len(s)) BY <1>0, <1>3 DEF S
<1>5. SubSeq(s, 1, Len(s)) = s OBVIOUS
<1> QED BY <1>4, <1>5 DEF Left

\* Messages found at places of their own in what was received, in their order.
Placed(all, got, S) ==
  \E place \in [S -> 1..Len(got)] :
    /\ \A i \in S : got[place[i]] = all[i]
    /\ \A i, j \in S : i < j => place[i] < place[j]

\* More messages, or fewer to look for, do no harm.
LEMMA PlacedMore ==
  ASSUME NEW all, NEW X, NEW got \in Seq(X), NEW more \in Seq(X), NEW S, NEW T,
         T \subseteq S, Placed(all, got, S)
  PROVE  Placed(all, got \o more, T)
<1>1. PICK place \in [S -> 1..Len(got)] :
        /\ \A i \in S : got[place[i]] = all[i]
        /\ \A i, j \in S : i < j => place[i] < place[j]
  BY DEF Placed
<1> DEFINE e == [i \in T |-> place[i]]
<1>2. ASSUME NEW i \in T
      PROVE  e[i] = place[i] /\ e[i] \in 1..Len(got \o more) /\ (got \o more)[e[i]] = all[i]
  <2>1. i \in S /\ place[i] \in 1..Len(got) /\ e[i] = place[i] BY <1>1
  <2> HIDE DEF e
  <2>2. Len(got \o more) = Len(got) + Len(more) /\ (got \o more)[place[i]] = got[place[i]] BY <2>1
  <2> QED BY <1>1, <2>1, <2>2
<1>3. e \in [T -> 1..Len(got \o more)] BY <1>2
<1> HIDE DEF e
<1>4. \A i, j \in T : i < j => e[i] < e[j] BY <1>1, <1>2
<1> QED BY <1>2, <1>3, <1>4 DEF Placed

\* A message behind all others is placed behind them.
LEMMA PlacedAdd ==
  ASSUME NEW all, NEW X, NEW got \in Seq(X), NEW S \in SUBSET Nat, NEW n \in Nat,
         \A i \in S : i < n, all[n] \in X, Placed(all, got, S)
  PROVE  Placed(all, got \o <<all[n]>>, S \cup {n})
<1>1. PICK place \in [S -> 1..Len(got)] :
        /\ \A i \in S : got[place[i]] = all[i]
        /\ \A i, j \in S : i < j => place[i] < place[j]
  BY DEF Placed
<1> DEFINE e == [i \in S \cup {n} |-> IF i = n THEN Len(got) + 1 ELSE place[i]]
           g == got \o <<all[n]>>
<1>0. Len(got) \in Nat /\ Len(g) = Len(got) + 1 /\ g[Len(got) + 1] = all[n]
      /\ \A k \in 1..Len(got) : g[k] = got[k]
  OBVIOUS
<1> HIDE DEF g
<1>2. ASSUME NEW i \in S PROVE e[i] = place[i] /\ place[i] \in 1..Len(got) BY <1>1
<1>3. e[n] = Len(got) + 1 OBVIOUS
<1>4. e \in [S \cup {n} -> 1..Len(g)] BY <1>0, <1>1
<1> HIDE DEF e
<1>5. \A i \in S \cup {n} : g[e[i]] = all[i] BY <1>0, <1>1, <1>2, <1>3
<1>6. ASSUME NEW i \in S \cup {n}, NEW j \in S \cup {n}, i < j PROVE e[i] < e[j]
  <2>1. i \in S BY <1>6
  <2>2. CASE j = n BY <1>0, <1>2, <1>3, <2>1, <2>2
  <2>3. CASE j \in S BY <1>1, <1>2, <1>6, <2>1, <2>3
  <2> QED BY <2>2, <2>3
<1>7. Placed(all, g, S \cup {n}) BY <1>4, <1>5, <1>6 DEF Placed
<1> QED BY <1>7 DEF g

\* The frame of a message, and the bytes it has; before the first there is none.
F(i) == Framed(accepted[i], <<>>)
Size(i) == IF i = 0 THEN 0 ELSE Len(F(i))

\* Frames that are put on the wire from their first byte to their last.
InFull(i) == i \notin hurt \/ IsLocal(receiver)

\* Frames the parsers have to find.
Sure(i) == InFull(i) /\ InFull(i - 1) /\ Fits(accepted[i])

\* The k-th byte of frame p may follow the j-th byte of frame o.
Follows(o, j, p, k) ==
  \/ p = o /\ j < k /\ (InFull(o) => k = j + 1)
  \/ /\ o < p
     /\ InFull(o) => j = Size(o)
     /\ InFull(p) => k = 1
     /\ \A i \in (o + 1)..(p - 1) : ~InFull(i)

\* The frames that have been read to their end when the j-th byte of frame o has.
Done(o, j) == {i \in 1..Len(accepted) : i < o \/ (i = o /\ j = Size(o))}

\* Nothing was damaged and every line is one.
Calm == faults = 0 /\ \A i \in 1..Len(accepted) : Fits(accepted[i])

\* What is so when the j-th byte of frame o has been read: rest is unread and got
\* are the messages emitted.
At(o, j, rest, got) ==
  /\ rest \in Seq(Nat) /\ got \in Seq(Seq(Nat))
  /\ Unbroken(framing, rest)
  /\ InFull(o) /\ j = Size(o) => rest = <<>>
  /\ o # 0 /\ Sure(o) /\ j < Size(o) => rest = SubSeq(F(o), 1, j)
  /\ Placed(accepted, got, Done(o, j) \cap Survivors)
  /\ IsLocal(receiver) => \A g \in 1..Len(got) : \E i \in Done(o, j) : got[g] = accepted[i]
  /\ Calm => got = SubSeq(accepted, 1, IF j = Size(o) THEN o ELSE o - 1)

\* A configuration, and what was sent with it.
ConfigOK ==
  /\ framing \in (IF IsLocal(receiver) THEN {"length"} ELSE {"slip", "line"})
  /\ protocol \in {"msgpack", "text"}
  /\ receiver \in {"serial", "stdio", "local_server"}
  /\ crc \in BOOLEAN /\ ended \in BOOLEAN
SentOK ==
  /\ accepted \in Seq(Seq(Nat))
  /\ \A i \in 1..Len(accepted) : Sendable(accepted[i])
  /\ \A i, j \in 1..Len(accepted) : accepted[i] = accepted[j] => i = j
  /\ hurt \in SUBSET (1..Len(accepted))
  /\ faults \in Nat /\ (faults = 0 => hurt = {})
  /\ wire \in Seq(Nat)

\* Every frame is found at its end.
LEMMA FramedGood ==
  ASSUME ConfigOK, NEW msg \in Seq(Nat), Sendable(msg)
  PROVE  GoodFrame(framing, protocol, Framed(msg, <<>>), msg, Fits(msg))
<1>0. protocol \in {"msgpack", "text"} /\ (protocol = "text" => IsString(msg)) BY DEF ConfigOK, Sendable
<1>1. CASE framing = "slip"
  <2>1. DumpProto(protocol, msg) \in Seq(Nat) BY <1>0, ProtoRoundTrip
  <2>2. DumpProto(protocol, msg) \o <<>> = DumpProto(protocol, msg) BY <2>1
  <2>3. Framed(msg, <<>>) = SlipFramed(DumpProto(protocol, msg)) BY <1>1, <2>2 DEF Framed
  <2>4. GoodFrame("slip", protocol, Framed(msg, <<>>), msg, TRUE) BY <1>0, <2>3, SlipFrames
  <2> QED BY <1>1, <2>4 DEF GoodFrame
<1>2. CASE framing = "line"
  <2> DEFINE p == DumpProto(protocol, msg)
  <2>1. Framed(msg, <<>>) = LineFramed(p) BY <1>2 DEF Framed
  <2>2. ~Contains(p, NL) BY <1>2 DEF Sendable
  <2>3. Fits(msg) \in BOOLEAN /\ (Fits(msg) /\ p # <<>> => p[Len(p)] # CR) BY <1>2 DEF Fits
  <2>4. GoodFrame("line", protocol, LineFramed(p), msg, Fits(msg)) BY <1>0, <2>2, <2>3, LineFrames
  <2> QED BY <1>2, <2>1, <2>4
<1>3. CASE framing = "length"
  <2>1. Framed(msg, <<>>) = Frame(Encode(msg)) BY <1>3 DEF Framed
  <2>2. GoodFrame("length", protocol, Framed(msg, <<>>), msg, TRUE) BY <2>1, LengthFrames
  <2> QED BY <1>3, <2>2 DEF GoodFrame
<1> QED BY <1>1, <1>2, <1>3 DEF ConfigOK

\* The same of the frames that were sent.
LEMMA SentGood ==
  ASSUME ConfigOK, SentOK, NEW i \in 1..Len(accepted)
  PROVE  /\ accepted[i] \in Seq(Nat) /\ Sendable(accepted[i])
         /\ GoodFrame(framing, protocol, F(i), accepted[i], Fits(accepted[i]))
         /\ F(i) \in Seq(Nat) /\ Size(i) = Len(F(i)) /\ Size(i) \in Nat /\ Size(i) >= 1
<1>1. accepted[i] \in Seq(Nat) /\ Sendable(accepted[i]) BY DEF SentOK
<1>2. GoodFrame(framing, protocol, F(i), accepted[i], Fits(accepted[i])) BY <1>1, FramedGood DEF F
<1>3. Size(i) = Len(F(i)) BY DEF Size
<1> QED BY <1>1, <1>2, <1>3 DEF GoodFrame

\* A byte behind an unbroken rest either ends a frame or leaves it unbroken.
LEMMA UnbrokenAppend ==
  ASSUME NEW fr, NEW s \in Seq(Nat), NEW b \in Nat, Unbroken(fr, s), ~Whole(fr, Append(s, b))
  PROVE  Unbroken(fr, Append(s, b))
<1> DEFINE t == Append(s, b)
<1>1. ASSUME NEW m \in 1..Len(t) PROVE ~Whole(fr, SubSeq(t, 1, m))
  <2>1. CASE m <= Len(s)
    <3>1. SubSeq(t, 1, m) = SubSeq(s, 1, m) /\ m \in 1..Len(s) BY <2>1
    <3> HIDE DEF t
    <3> QED BY <3>1 DEF Unbroken
  <2>2. CASE m = Len(s) + 1
    <3>1. SubSeq(t, 1, m) = t BY <2>2
    <3> QED BY <3>1
  <2> QED BY <2>1, <2>2
<1> QED BY <1>1 DEF Unbroken

\* The frames done grow by the one whose last byte is read.
LEMMA DoneGrows ==
  ASSUME SentOK, NEW o \in 0..Len(accepted), NEW j \in 0..Size(o), Size(o) \in Nat,
         NEW p \in 1..Len(accepted), NEW k \in 1..Size(p), Size(p) \in Nat, Follows(o, j, p, k)
  PROVE  /\ Done(o, j) \subseteq Done(p, k)
         /\ \A i \in Done(o, j) : i < p
         /\ Done(p, k) \cap Survivors \subseteq (Done(o, j) \cap Survivors) \cup {p}
         /\ k < Size(p) \/ p \notin Survivors =>
              Done(p, k) \cap Survivors \subseteq Done(o, j) \cap Survivors
<1>0. Len(accepted) \in Nat BY DEF SentOK
<1>1. ASSUME NEW i \in Done(o, j) PROVE i \in Done(p, k) /\ i < p
  <2>1. i \in 1..Len(accepted) /\ (i < o \/ (i = o /\ j = Size(o))) BY DEF Done
  <2>2. i < p BY <1>0, <2>1 DEF Follows
  <2> QED BY <2>1, <2>2 DEF Done
<1>2. ASSUME NEW i \in Done(p, k), i \in Survivors, i # p PROVE i \in Done(o, j)
  <2>1. i \in 1..Len(accepted) /\ i < p /\ i \notin hurt BY <1>0, <1>2 DEF Done, Survivors
  <2>2. InFull(i) BY <2>1 DEF InFull
  <2>3. CASE p = o BY <2>1, <2>3 DEF Done
  <2>4. CASE o < p /\ i < o BY <2>1, <2>4 DEF Done
  <2>5. CASE o < p /\ i = o
    <3>1. j = Size(o) BY <2>2, <2>5 DEF Follows
    <3> QED BY <2>1, <2>5, <3>1 DEF Done
  <2>6. CASE o < p /\ o < i
    <3>1. i \in (o + 1)..(p - 1) BY <2>1, <2>6
    <3> QED BY <2>2, <2>6, <3>1 DEF Follows
  <2>7. p = o \/ o < p BY DEF Follows
  <2> QED BY <1>0, <2>1, <2>3, <2>4, <2>5, <2>6, <2>7
<1>3. k < Size(p) => p \notin Done(p, k) BY <1>0 DEF Done
<1> QED BY <1>1, <1>2, <1>3

\* A frame that has to be found is read from its first byte on.
LEMMA SureRest ==
  ASSUME ConfigOK, SentOK, NEW o \in 0..Len(accepted), NEW j \in 0..Size(o), Size(o) \in Nat,
         NEW p \in 1..Len(accepted), NEW k \in 1..Size(p), Size(p) \in Nat, Follows(o, j, p, k),
         NEW rest, NEW got, At(o, j, rest, got), Sure(p)
  PROVE  /\ rest = SubSeq(F(p), 1, k - 1)
         /\ (o = p /\ j # Size(o)) \/ (o = p - 1 /\ j = Size(o))
<1>0. Len(accepted) \in Nat /\ InFull(p) /\ InFull(p - 1) BY DEF SentOK, Sure
<1>1. CASE p = o
  <2>1. k = j + 1 /\ j < Size(o) /\ j = k - 1 BY <1>0, <1>1 DEF Follows
  <2>2. rest = SubSeq(F(o), 1, j) BY <1>1, <2>1 DEF At
  <2> QED BY <1>1, <2>1, <2>2
<1>2. CASE p # o
  <2>1. o < p /\ k = 1 /\ (InFull(o) => j = Size(o)) /\ \A i \in (o + 1)..(p - 1) : ~InFull(i)
    BY <1>0, <1>2 DEF Follows
  <2>2. o = p - 1
    <3> SUFFICES ASSUME o # p - 1 PROVE FALSE OBVIOUS
    <3>1. p - 1 \in (o + 1)..(p - 1) BY <2>1
    <3> QED BY <1>0, <2>1, <3>1
  <2>3. j = Size(o) BY <1>0, <2>1, <2>2
  <2>4. rest = <<>> BY <1>0, <2>2, <2>3 DEF At
  <2>5. SubSeq(F(p), 1, 0) = <<>>
    <3>1. F(p) \in Seq(Nat) BY SentGood
    <3> QED BY <3>1
  <2> QED BY <2>1, <2>2, <2>3, <2>4, <2>5
<1> QED BY <1>1, <1>2

\* A byte that does not end the frame it belongs to.
LEMMA ByteInside ==
  ASSUME ConfigOK, SentOK, NEW o \in 0..Len(accepted), NEW j \in 0..Size(o), Size(o) \in Nat,
         NEW p \in 1..Len(accepted), NEW k \in 1..Size(p), Size(p) \in Nat, Follows(o, j, p, k),
         NEW rest, NEW got, At(o, j, rest, got), Sure(p), k < Size(p)
  PROVE  /\ ~Whole(framing, Append(rest, F(p)[k]))
         /\ At(p, k, Append(rest, F(p)[k]), got)
<1> DEFINE piece == Append(rest, F(p)[k])
<1>1. /\ GoodFrame(framing, protocol, F(p), accepted[p], Fits(accepted[p]))
      /\ F(p) \in Seq(Nat) /\ Size(p) = Len(F(p))
  BY SentGood
<1>2. /\ rest = SubSeq(F(p), 1, k - 1)
      /\ (o = p /\ j # Size(o)) \/ (o = p - 1 /\ j = Size(o))
  BY SureRest
<1>3. piece = SubSeq(F(p), 1, k) /\ F(p)[k] \in Nat /\ piece \in Seq(Nat) BY <1>1, <1>2
<1>4. rest \in Seq(Nat) /\ got \in Seq(Seq(Nat)) /\ Unbroken(framing, rest) BY DEF At
<1> HIDE DEF piece
<1>5. ~Whole(framing, piece)
  <2>1. k \in 1..(Len(F(p)) - 1) BY <1>1
  <2> QED BY <1>1, <1>3, <2>1 DEF GoodFrame
<1>6. Unbroken(framing, piece) BY <1>3, <1>4, <1>5, UnbrokenAppend DEF piece
<1>7. Placed(accepted, got, Done(p, k) \cap Survivors)
  <2>1. Done(p, k) \cap Survivors \subseteq Done(o, j) \cap Survivors BY DoneGrows
  <2>2. Placed(accepted, got, Done(o, j) \cap Survivors) BY DEF At
  <2>3. <<>> \in Seq(Seq(Nat)) /\ got \o <<>> = got BY <1>4
  <2>4. Placed(accepted, got \o <<>>, Done(p, k) \cap Survivors)
    BY <1>4, <2>1, <2>2, <2>3, PlacedMore
  <2> QED BY <2>3, <2>4
<1>8. IsLocal(receiver) => \A g \in 1..Len(got) : \E i \in Done(p, k) : got[g] = accepted[i]
  <2>1. Done(o, j) \subseteq Done(p, k) BY DoneGrows
  <2> QED BY <2>1 DEF At
<1>9. Calm => got = SubSeq(accepted, 1, p - 1) BY <1>2 DEF At
<1>10. k # Size(p) BY <1>1
<1>11. At(p, k, piece, got) BY <1>3, <1>4, <1>6, <1>7, <1>8, <1>9, <1>10 DEF At
<1> QED BY <1>5, <1>11 DEF piece

\* The last byte of a frame that has to be found.
LEMMA ByteEnds ==
  ASSUME ConfigOK, SentOK, NEW o \in 0..Len(accepted), NEW j \in 0..Size(o), Size(o) \in Nat,
         NEW p \in 1..Len(accepted), NEW k \in 1..Size(p), Size(p) \in Nat, Follows(o, j, p, k),
         NEW rest, NEW got, At(o, j, rest, got), Sure(p), k = Size(p)
  PROVE  LET piece == Append(rest, F(p)[k])
             found == Contents(framing, protocol, piece)
         IN  /\ Whole(framing, piece) /\ found # <<>>
             /\ At(p, k, <<>>, got \o found)
<1> DEFINE piece == Append(rest, F(p)[k])
           found == Contents(framing, protocol, piece)
           more == got \o <<accepted[p]>>
<1>1. /\ GoodFrame(framing, protocol, F(p), accepted[p], Fits(accepted[p]))
      /\ F(p) \in Seq(Nat) /\ Size(p) = Len(F(p)) /\ accepted[p] \in Seq(Nat)
  BY SentGood
<1>2. /\ rest = SubSeq(F(p), 1, k - 1)
      /\ (o = p /\ j # Size(o)) \/ (o = p - 1 /\ j = Size(o))
  BY SureRest
<1>3. piece = F(p)
  <2>1. piece = SubSeq(F(p), 1, k) BY <1>1, <1>2
  <2>2. SubSeq(F(p), 1, Len(F(p))) = F(p) BY <1>1
  <2> QED BY <1>1, <2>1, <2>2
<1>4. rest \in Seq(Nat) /\ got \in Seq(Seq(Nat)) BY DEF At
<1>5. Whole(framing, piece) /\ found = <<accepted[p]>> BY <1>1, <1>3 DEF GoodFrame, Sure
<1> HIDE DEF piece, found
<1>6. /\ more \in Seq(Seq(Nat)) /\ Len(more) = Len(got) + 1 /\ more[Len(got) + 1] = accepted[p]
      /\ \A g \in 1..Len(got) : more[g] = got[g]
  BY <1>1, <1>4
<1>7. Placed(accepted, more, Done(p, k) \cap Survivors)
  <2> DEFINE S == Done(o, j) \cap Survivors
  <2>1. Done(p, k) \cap Survivors \subseteq S \cup {p} /\ \A i \in S : i < p BY DoneGrows
  <2>2. Placed(accepted, got, S) /\ S \in SUBSET Nat /\ p \in Nat BY DEF At, Done
  <2> HIDE DEF S
  <2>3. Placed(accepted, more, S \cup {p}) BY <1>1, <1>4, <2>1, <2>2, PlacedAdd
  <2> HIDE DEF more
  <2>4. <<>> \in Seq(Seq(Nat)) /\ more \o <<>> = more BY <1>6
  <2>5. Placed(accepted, more \o <<>>, Done(p, k) \cap Survivors)
    BY <1>6, <2>1, <2>3, <2>4, PlacedMore
  <2> QED BY <2>4, <2>5
<1> HIDE DEF more
<1>8. IsLocal(receiver) => \A g \in 1..Len(more) : \E i \in Done(p, k) : more[g] = accepted[i]
  <2>1. Done(o, j) \subseteq Done(p, k) BY DoneGrows
  <2>2. p \in Done(p, k) BY DEF Done
  <2> SUFFICES ASSUME IsLocal(receiver), NEW g \in 1..Len(more)
               PROVE  \E i \in Done(p, k) : more[g] = accepted[i]
    OBVIOUS
  <2>3. CASE g = Len(got) + 1 BY <1>6, <2>2, <2>3
  <2>4. CASE g # Len(got) + 1
    <3>1. g \in 1..Len(got) BY <1>4, <1>6, <2>4
    <3> QED BY <1>6, <2>1, <3>1 DEF At
  <2> QED BY <2>3, <2>4
<1>9. Calm => more = SubSeq(accepted, 1, p)
  <2> SUFFICES ASSUME Calm PROVE more = SubSeq(accepted, 1, p) OBVIOUS
  <2>1. got = SubSeq(accepted, 1, p - 1) BY <1>2 DEF At
  <2>2. accepted \in Seq(Seq(Nat)) BY DEF SentOK
  <2> QED BY <2>1, <2>2 DEF more
<1>10. <<>> \in Seq(Nat) /\ Unbroken(framing, <<>>) BY DEF Unbroken
<1>11. At(p, k, <<>>, more) BY <1>6, <1>7, <1>8, <1>9, <1>10 DEF At
<1>12. got \o found = more BY <1>5 DEF more
<1>13. found # <<>> BY <1>5
<1> QED BY <1>5, <1>11, <1>12, <1>13 DEF piece, found

\* Messages behind messages behind messages.
LEMMA ConcatTwice ==
  ASSUME NEW a \in Seq(Seq(Nat)), NEW b \in Seq(Seq(Nat)), NEW c \in Seq(Seq(Nat))
  PROVE  (a \o b) \o c = a \o (b \o c)
<1> DEFINE s == (a \o b) \o c
           t == a \o (b \o c)
<1> DEFINE X == Seq(Nat)
<1> HIDE DEF X
<1>0. a \in Seq(X) /\ b \in Seq(X) /\ c \in Seq(X) BY DEF X
<1>1. a \o b \in Seq(X) /\ b \o c \in Seq(X) /\ s \in Seq(X) /\ t \in Seq(X) BY <1>0
<1>2. Len(s) = Len(a) + Len(b) + Len(c) /\ Len(t) = Len(a) + Len(b) + Len(c) BY <1>0
<1>3. ASSUME NEW i \in 1..Len(s) PROVE s[i] = t[i]
  <2>1. CASE i <= Len(a) BY <1>0, <1>2, <2>1
  <2>2. CASE i > Len(a) /\ i <= Len(a) + Len(b) BY <1>0, <1>2, <2>2
  <2>3. CASE i > Len(a) + Len(b) BY <1>0, <1>2, <2>3
  <2> QED BY <2>1, <2>2, <2>3
<1> HIDE DEF s, t
<1>4. s = t BY <1>1, <1>2, <1>3
<1> QED BY <1>4 DEF s, t

\* A sequence with a byte behind it ends with that byte.
LEMMA AppendLast ==
  ASSUME NEW s \in Seq(Nat), NEW b \in Nat
  PROVE  Append(s, b) \in Seq(Nat) /\ Append(s, b) # <<>> /\ Last(Append(s, b)) = b
<1> DEFINE t == Append(s, b)
<1>1. t \in Seq(Nat) /\ Len(t) = Len(s) + 1 /\ t[Len(s) + 1] = b /\ Len(s) \in Nat OBVIOUS
<1> HIDE DEF t
<1>2. t # <<>>
  <2>1. Len(t) # 0 BY <1>1
  <2> QED BY <2>1
<1>3. Last(t) = b BY <1>1 DEF Last
<1> QED BY <1>1, <1>2, <1>3 DEF t

\* A byte of a frame that need not be found: the terminator of one put in full
\* still ends it.
LEMMA ByteUnsure ==
  ASSUME ConfigOK, SentOK, NEW o \in 0..Len(accepted), NEW j \in 0..Size(o), Size(o) \in Nat,
         NEW p \in 1..Len(accepted), NEW k \in 1..Size(p), Size(p) \in Nat, Follows(o, j, p, k),
         NEW rest, NEW got, At(o, j, rest, got), ~Sure(p)
  PROVE  LET piece == Append(rest, F(p)[k])
             found == Contents(framing, protocol, piece)
         IN  /\ ~Calm
             /\ ~Whole(framing, piece) => At(p, k, piece, got)
             /\ Whole(framing, piece) => At(p, k, <<>>, got \o found)
<1> DEFINE piece == Append(rest, F(p)[k])
           found == Contents(framing, protocol, piece)
<1>1. /\ GoodFrame(framing, protocol, F(p), accepted[p], Fits(accepted[p]))
      /\ F(p) \in Seq(Nat) /\ Size(p) = Len(F(p))
  BY SentGood
<1>2. rest \in Seq(Nat) /\ got \in Seq(Seq(Nat)) /\ Unbroken(framing, rest) BY DEF At
<1>3. F(p)[k] \in Nat /\ piece \in Seq(Nat) /\ piece # <<>> /\ Last(piece) = F(p)[k]
  <2>1. F(p)[k] \in Nat BY <1>1
  <2> QED BY <1>2, <2>1, AppendLast
<1>4. ~IsLocal(receiver)
  <2> SUFFICES ASSUME IsLocal(receiver) PROVE FALSE OBVIOUS
  <2>1. framing = "length" BY DEF ConfigOK
  <2> QED BY <2>1 DEF Sure, InFull, Fits
<1>5. ~Calm
  <2> SUFFICES ASSUME Calm PROVE FALSE OBVIOUS
  <2>1. hurt = {} /\ Fits(accepted[p]) BY DEF Calm, SentOK
  <2> QED BY <2>1 DEF Sure, InFull
<1>6. p \notin Survivors BY DEF Survivors, Sure, InFull
<1>7. Done(p, k) \cap Survivors \subseteq Done(o, j) \cap Survivors BY <1>6, DoneGrows
<1>8. Placed(accepted, got, Done(o, j) \cap Survivors) BY DEF At
<1> HIDE DEF piece, found
<1>9. ASSUME ~Whole(framing, piece) PROVE At(p, k, piece, got)
  <2>1. Unbroken(framing, piece) BY <1>2, <1>3, <1>9, UnbrokenAppend DEF piece
  <2>2. <<>> \in Seq(Seq(Nat)) /\ got \o <<>> = got BY <1>2
  <2>3. Placed(accepted, got \o <<>>, Done(p, k) \cap Survivors)
    BY <1>2, <1>7, <1>8, <2>2, PlacedMore
  <2>4. k # Size(p)
    <3> SUFFICES ASSUME k = Size(p) PROVE FALSE OBVIOUS
    <3>1. framing \in {"slip", "line"} BY <1>4 DEF ConfigOK
    <3>2. F(p)[k] = Terminator(framing) BY <1>1, <3>1 DEF GoodFrame
    <3> QED BY <1>3, <1>9, <3>1, <3>2 DEF Whole, Terminator
  <2> QED BY <1>2, <1>3, <1>4, <1>5, <2>1, <2>2, <2>3, <2>4 DEF At
<1>10. ASSUME Whole(framing, piece) PROVE At(p, k, <<>>, got \o found)
  <2>1. found \in Seq(Seq(Nat)) BY <1>3, ContentsType DEF found
  <2>2. Placed(accepted, got \o found, Done(p, k) \cap Survivors)
    BY <1>2, <1>7, <1>8, <2>1, PlacedMore
  <2>3. <<>> \in Seq(Nat) /\ Unbroken(framing, <<>>) BY DEF Unbroken
  <2>4. got \o found \in Seq(Seq(Nat)) BY <1>2, <2>1
  <2>5. Sure(p) = FALSE OBVIOUS
  <2> QED BY <1>4, <1>5, <2>2, <2>3, <2>4 DEF At
<1> QED BY <1>5, <1>9, <1>10 DEF piece, found

\* A parser has come to the k-th byte of frame p, with r.
ReadTo(p, k, had, r) ==
  /\ r \in [msgs : Seq(Seq(Nat)), rest : Seq(Nat), raised : BOOLEAN]
  /\ Calm => ~r.raised
  /\ ~r.raised => At(p, k, r.rest, had \o r.msgs)

\* What a parser makes of the next byte, whatever it had before.
LEMMA ByteRead ==
  ASSUME ConfigOK, SentOK, NEW o \in 0..Len(accepted), NEW j \in 0..Size(o), Size(o) \in Nat,
         NEW p \in 1..Len(accepted), NEW k \in 1..Size(p), Size(p) \in Nat, Follows(o, j, p, k),
         NEW had \in Seq(Seq(Nat)), NEW msgs \in Seq(Seq(Nat)), NEW rest,
         At(o, j, rest, had \o msgs)
  PROVE  ReadTo(p, k, had, ParseByte(framing, protocol, Parsed(msgs, rest, FALSE), F(p)[k]))
<1> DEFINE b == F(p)[k]
           piece == Append(rest, b)
           found == Contents(framing, protocol, piece)
           r == ParseByte(framing, protocol, Parsed(msgs, rest, FALSE), b)
           got == had \o msgs
<1>1. F(p) \in Seq(Nat) /\ Size(p) = Len(F(p)) BY SentGood
<1>2. rest \in Seq(Nat) BY DEF At
<1>3. b \in Nat BY <1>1
<1>4. Sure(p) /\ k < Size(p) => ~Whole(framing, piece) /\ At(p, k, piece, got) BY ByteInside
<1>5. Sure(p) /\ k = Size(p) =>
        Whole(framing, piece) /\ found # <<>> /\ At(p, k, <<>>, got \o found)
  BY ByteEnds
<1>6. ~Sure(p) => /\ ~Calm
                  /\ ~Whole(framing, piece) => At(p, k, piece, got)
                  /\ Whole(framing, piece) => At(p, k, <<>>, got \o found)
  BY ByteUnsure
<1>7. r = IF Whole(framing, piece)
            THEN Parsed(msgs \o found, <<>>, framing = "line" /\ found = <<>>)
            ELSE Parsed(msgs, piece, FALSE)
  BY DEF ParseByte, Parsed
<1> HIDE DEF b
<1>8. piece \in Seq(Nat) /\ piece # <<>> BY <1>2, <1>3, AppendLast
<1> HIDE DEF piece
<1>9. found \in Seq(Seq(Nat)) BY <1>8, ContentsType
<1> HIDE DEF found, r
<1>10. had \o (msgs \o found) = got \o found /\ msgs \o found \in Seq(Seq(Nat))
  <2>1. (had \o msgs) \o found = had \o (msgs \o found) BY <1>9, ConcatTwice
  <2>2. msgs \o found \in Seq(Seq(Nat)) BY <1>9
  <2> QED BY <2>1, <2>2
<1> HIDE DEF got
<1>11. k < Size(p) \/ k = Size(p) BY <1>1
<1>12. CASE Whole(framing, piece)
  <2>1. At(p, k, <<>>, got \o found) /\ (Calm => found # <<>>) BY <1>4, <1>5, <1>6, <1>11, <1>12
  <2>2. r = Parsed(msgs \o found, <<>>, framing = "line" /\ found = <<>>) BY <1>7, <1>12
  <2>3. <<>> \in Seq(Nat) OBVIOUS
  <2>4. r.msgs = msgs \o found /\ r.rest = <<>> /\ r.raised = (framing = "line" /\ found = <<>>)
        /\ r \in [msgs : Seq(Seq(Nat)), rest : Seq(Nat), raised : BOOLEAN]
    BY <1>10, <2>2, <2>3 DEF Parsed
  <2>5. ReadTo(p, k, had, r) BY <1>10, <2>1, <2>4 DEF ReadTo
  <2> QED BY <2>5 DEF r, b
<1>13. CASE ~Whole(framing, piece)
  <2>1. At(p, k, piece, got) BY <1>4, <1>5, <1>6, <1>11, <1>13
  <2>2. r = Parsed(msgs, piece, FALSE) BY <1>7, <1>13
  <2>3. r.msgs = msgs /\ r.rest = piece /\ r.raised = FALSE
        /\ r \in [msgs : Seq(Seq(Nat)), rest : Seq(Nat), raised : BOOLEAN]
    BY <1>8, <2>2 DEF Parsed
  <2>4. ReadTo(p, k, had, r) BY <2>1, <2>3 DEF ReadTo, got
  <2> QED BY <2>4 DEF r, b
<1> QED BY <1>12, <1>13

\* Nothing is put on the wire behind the j-th byte of frame o.
LastPut(o, j) ==
  /\ InFull(o) => j = Size(o)
  /\ \A i \in (o + 1)..Len(accepted) : ~InFull(i)

\* The bytes on the wire come from frames: of and nth say from which and where,
\* behind the byte that was read last.
Tracks(of, nth) ==
  /\ of \in [1..(Len(wire) + 1) -> 0..Len(accepted)]
  /\ nth \in [1..(Len(wire) + 1) -> Nat]
  /\ \A m \in 1..(Len(wire) + 1) : nth[m] <= Size(of[m])
  /\ \A m \in 1..Len(wire) :
       /\ of[m + 1] # 0 /\ nth[m + 1] # 0
       /\ wire[m] = F(of[m + 1])[nth[m + 1]]
       /\ Follows(of[m], nth[m], of[m + 1], nth[m + 1])
  /\ LastPut(of[Len(wire) + 1], nth[Len(wire) + 1])

\* The parsers read what they had left and the bytes of a chunk.
LEMMA ChunkRead ==
  ASSUME ConfigOK, SentOK, decoded \in Seq(Seq(Nat)), NEW of, NEW nth, Tracks(of, nth),
         At(of[1], nth[1], buffer, decoded), NEW n \in 0..Len(wire)
  PROVE  ReadTo(of[n + 1], nth[n + 1], decoded,
                ParseFrames(framing, protocol, buffer \o SubSeq(wire, 1, n)))
<1> DEFINE r(m) == ParseFrames(framing, protocol, buffer \o SubSeq(wire, 1, m))
           S == {m \in Nat : m <= Len(wire) => ReadTo(of[m + 1], nth[m + 1], decoded, r(m))}
<1>0. Len(wire) \in Nat /\ wire \in Seq(Nat) BY DEF SentOK
<1>1. buffer \in Seq(Nat) /\ Unbroken(framing, buffer) BY DEF At
<1>2. 0 \in S
  <2>1. buffer \o SubSeq(wire, 1, 0) = buffer BY <1>0, <1>1
  <2>2. r(0) = Parsed(<<>>, buffer, FALSE) BY <1>1, <2>1, UnbrokenParsed
  <2> HIDE DEF r
  <2>3. /\ r(0).msgs = <<>> /\ r(0).rest = buffer /\ r(0).raised = FALSE
        /\ r(0) \in [msgs : Seq(Seq(Nat)), rest : Seq(Nat), raised : BOOLEAN]
    <3>1. <<>> \in Seq(Seq(Nat)) OBVIOUS
    <3> DEFINE q == Parsed(<<>>, buffer, FALSE)
    <3>2. q.msgs = <<>> /\ q.rest = buffer /\ q.raised = FALSE BY DEF Parsed
    <3>3. q \in [msgs : Seq(Seq(Nat)), rest : Seq(Nat), raised : BOOLEAN] BY <1>1, <3>1 DEF Parsed
    <3> HIDE DEF q
    <3>4. r(0) = q BY <2>2 DEF q
    <3> QED BY <3>2, <3>3, <3>4
  <2>4. decoded \o <<>> = decoded OBVIOUS
  <2>5. ReadTo(of[1], nth[1], decoded, r(0)) BY <2>3, <2>4 DEF ReadTo
  <2> QED BY <2>5
<1>3. ASSUME NEW m \in Nat, m \in S PROVE m + 1 \in S
  <2> SUFFICES ASSUME m + 1 <= Len(wire)
               PROVE  ReadTo(of[(m + 1) + 1], nth[(m + 1) + 1], decoded, r(m + 1))
    OBVIOUS
  <2> DEFINE s == buffer \o SubSeq(wire, 1, m)
             b == wire[m + 1]
             o == of[m + 1]
             j == nth[m + 1]
             p == of[(m + 1) + 1]
             k == nth[(m + 1) + 1]
  <2>1. ReadTo(o, j, decoded, r(m)) BY <1>0, <1>3
  <2>2. s \in Seq(Nat) /\ b \in Nat /\ buffer \o SubSeq(wire, 1, m + 1) = Append(s, b)
    <3>1. SubSeq(wire, 1, m) \in Seq(Nat) /\ b \in Nat BY <1>0
    <3>2. SubSeq(wire, 1, m + 1) = Append(SubSeq(wire, 1, m), b) BY <1>0
    <3>3. ASSUME NEW t \in Seq(Nat), NEW c \in Nat PROVE buffer \o Append(t, c) = Append(buffer \o t, c)
      BY <1>1
    <3> QED BY <1>1, <3>1, <3>2, <3>3
  <2>3. m + 1 \in 1..Len(wire) /\ m + 1 \in 1..(Len(wire) + 1) /\ (m + 1) + 1 \in 1..(Len(wire) + 1)
    BY <1>0
  <2>4. /\ o \in 0..Len(accepted) /\ p \in 1..Len(accepted) /\ j \in Nat /\ k \in Nat
        /\ j <= Size(o) /\ k <= Size(p) /\ k # 0 /\ b = F(p)[k] /\ Follows(o, j, p, k)
    <3>1. o \in 0..Len(accepted) /\ p \in 0..Len(accepted) /\ j \in Nat /\ k \in Nat
      BY <2>3 DEF Tracks
    <3>2. j <= Size(o) /\ k <= Size(p) BY <2>3 DEF Tracks
    <3>3. p # 0 /\ k # 0 /\ b = F(p)[k] /\ Follows(o, j, p, k) BY <2>3 DEF Tracks
    <3> HIDE DEF o, j, p, k, b
    <3> QED BY <3>1, <3>2, <3>3
  <2>5. Size(o) \in Nat /\ Size(p) \in Nat BY <2>4, SentGood DEF Size
  <2>6. j \in 0..Size(o) /\ k \in 1..Size(p) BY <2>4, <2>5
  <2> HIDE DEF s, b, o, j, p, k
  <2>7. r(m + 1) = ParseByte(framing, protocol, r(m), b)
    <3>1. ParseFrames(framing, protocol, Append(s, b))
            = ParseByte(framing, protocol, ParseFrames(framing, protocol, s), b)
      BY <2>2, ParseFramesAppend
    <3>2. r(m) = ParseFrames(framing, protocol, s) BY DEF s
    <3>3. r(m + 1) = ParseFrames(framing, protocol, Append(s, b)) BY <2>2
    <3> QED BY <3>1, <3>2, <3>3
  <2> HIDE DEF r
  <2>8. CASE r(m).raised
    <3>1. r(m + 1) = r(m) BY <2>7, <2>8 DEF ParseByte
    <3>2. ReadTo(p, k, decoded, r(m)) BY <2>1, <2>8 DEF ReadTo
    <3> QED BY <3>1, <3>2 DEF p, k
  <2>9. CASE ~r(m).raised
    <3>1. /\ r(m) \in [msgs : Seq(Seq(Nat)), rest : Seq(Nat), raised : BOOLEAN]
          /\ At(o, j, r(m).rest, decoded \o r(m).msgs)
      BY <2>1, <2>9 DEF ReadTo
    <3>2. r(m) = Parsed(r(m).msgs, r(m).rest, FALSE) BY <2>9, <3>1 DEF Parsed
    <3>3. r(m).msgs \in Seq(Seq(Nat)) BY <3>1
    <3>4. ReadTo(p, k, decoded, ParseByte(framing, protocol, Parsed(r(m).msgs, r(m).rest, FALSE), b))
      BY <2>4, <2>5, <2>6, <3>1, <3>3, ByteRead
    <3> QED BY <2>7, <3>2, <3>4 DEF p, k
  <2> QED BY <2>8, <2>9
<1> HIDE DEF S
<1>4. Nat \subseteq S BY <1>2, <1>3, SetInduction
<1> QED BY <1>0, <1>4 DEF S

\* With the bytes on the wire and in the buffer: what the receiver still has to
\* read, and what it has made of what it has read.
StreamsInv ==
  ~crc =>
    /\ ConfigOK /\ SentOK
    /\ Calm => ~ended
    /\ ~ended => \E of, nth : Tracks(of, nth) /\ At(of[1], nth[1], buffer, decoded)

\* Resync is what is left of it when everything has been read.
LEMMA StreamsInvResync == ASSUME StreamsInv PROVE Resync
<1> SUFFICES ASSUME ~crc PROVE Resync BY DEF Resync
<1>0. ConfigOK /\ SentOK /\ (Calm => ~ended) BY DEF StreamsInv
<1>1. ASSUME faults = 0, \A i \in 1..Len(accepted) : Fits(accepted[i])
      PROVE  ~ended /\ IsPrefix(decoded, accepted)
  <2>1. Calm /\ ~ended BY <1>0, <1>1 DEF Calm
  <2>2. PICK of, nth : Tracks(of, nth) /\ At(of[1], nth[1], buffer, decoded) BY <2>1 DEF StreamsInv
  <2> DEFINE n == IF nth[1] = Size(of[1]) THEN of[1] ELSE of[1] - 1
  <2>3. decoded = SubSeq(accepted, 1, n) BY <2>1, <2>2 DEF At
  <2>4. accepted \in Seq(Seq(Nat)) /\ Len(wire) \in Nat BY <1>0 DEF SentOK
  <2>5. of[1] \in 0..Len(accepted) /\ nth[1] \in Nat
    <3>1. 1 \in 1..(Len(wire) + 1) BY <2>4
    <3> QED BY <2>2, <3>1 DEF Tracks
  <2>6. n \in Int /\ n <= Len(accepted) /\ n >= -1 BY <2>4, <2>5
  <2> HIDE DEF n
  <2>7. IsPrefix(decoded, accepted) BY <2>3, <2>4, <2>6 DEF IsPrefix
  <2> QED BY <2>1, <2>7
<1>2. ASSUME wire = <<>>, ~ended PROVE Placed(accepted, decoded, Survivors)
  <2>1. PICK of, nth : Tracks(of, nth) /\ At(of[1], nth[1], buffer, decoded) BY <1>2 DEF StreamsInv
  <2> DEFINE o == of[1]
             j == nth[1]
  <2>2. Len(wire) = 0 BY <1>2
  <2>3. o \in 0..Len(accepted) /\ LastPut(o, j) BY <2>1, <2>2 DEF Tracks
  <2>4. accepted \in Seq(Seq(Nat)) /\ decoded \in Seq(Seq(Nat))
        /\ Placed(accepted, decoded, Done(o, j) \cap Survivors)
    BY <1>0, <2>1 DEF SentOK, At
  <2> HIDE DEF o, j
  <2>5. ASSUME NEW i \in Survivors PROVE i \in Done(o, j)
    <3>1. i \in 1..Len(accepted) /\ InFull(i) BY DEF Survivors, InFull
    <3>2. ~(o < i)
      <4> SUFFICES ASSUME o < i PROVE FALSE OBVIOUS
      <4>1. i \in (o + 1)..Len(accepted) BY <2>3, <3>1
      <4> QED BY <2>3, <3>1, <4>1 DEF LastPut
    <3> QED BY <2>3, <3>1, <3>2 DEF Done, LastPut
  <2>6. Survivors \subseteq Done(o, j) \cap Survivors BY <2>5
  <2>7. <<>> \in Seq(Seq(Nat)) /\ decoded \o <<>> = decoded BY <2>4
  <2>8. Placed(accepted, decoded \o <<>>, Survivors) BY <2>4, <2>6, <2>7, PlacedMore
  <2> QED BY <2>7, <2>8
<1> QED BY <1>1, <1>2 DEF Resync, Placed

\* Nothing was sent and nothing read.
LEMMA StreamsInitInv ==
  ASSUME StreamsAssumption, Receivers \cap {"process", "local_client"} = {}, StreamsInit
  PROVE  StreamsInv
<1>1. ConfigOK BY DEF StreamsInit, ConfigOK, IsLocal, StreamsAssumption
<1>2. SentOK BY DEF StreamsInit, SentOK
<1> DEFINE of == [m \in 1..1 |-> 0]
<1>3. of[1] = 0 /\ Len(wire) = 0 /\ Len(accepted) = 0 /\ wire = <<>> /\ accepted = <<>>
      /\ buffer = <<>> /\ decoded = <<>> /\ hurt = {} /\ ~ended
  BY DEF StreamsInit
<1>4. Size(0) = 0 BY DEF Size
<1>5. Tracks(of, of)
  <2>1. of \in [1..(Len(wire) + 1) -> 0..Len(accepted)] /\ of \in [1..(Len(wire) + 1) -> Nat] BY <1>3
  <2>2. \A m \in 1..(Len(wire) + 1) : of[m] <= Size(of[m]) BY <1>3, <1>4
  <2>3. LastPut(0, 0) BY <1>3, <1>4 DEF LastPut
  <2> HIDE DEF of
  <2> QED BY <1>3, <2>1, <2>2, <2>3 DEF Tracks
<1>6. At(0, 0, <<>>, <<>>)
  <2>1. Done(0, 0) \cap Survivors = {} BY <1>3 DEF Done
  <2>2. Placed(<<>>, <<>>, {})
    <3> DEFINE e == [i \in {} |-> 1]
    <3>1. e \in [{} -> 1..Len(<<>>)] OBVIOUS
    <3> QED BY <3>1 DEF Placed
  <2>3. <<>> \in Seq(Nat) /\ <<>> \in Seq(Seq(Nat)) /\ Unbroken(framing, <<>>) /\ Len(<<>>) = 0
        /\ SubSeq(<<>>, 1, 0) = <<>>
    BY DEF Unbroken
  <2>4. Placed(accepted, <<>>, Done(0, 0) \cap Survivors) BY <1>3, <2>1, <2>2
  <2>5. \A g \in 1..Len(<<>>) : \E i \in Done(0, 0) : <<>>[g] = accepted[i] BY <2>3
  <2>6. SubSeq(accepted, 1, IF 0 = Size(0) THEN 0 ELSE 0 - 1) = <<>> BY <1>3, <1>4, <2>3
  <2> QED BY <2>3, <2>4, <2>5, <2>6 DEF At
<1> HIDE DEF of
<1> QED BY <1>1, <1>2, <1>3, <1>5, <1>6 DEF StreamsInv

\* A line given up was too long to be a message's.
LEMMA KeptAt ==
  ASSUME ConfigOK, SentOK, NEW o \in 0..Len(accepted), NEW j \in Nat, NEW rest, NEW got,
         At(o, j, rest, got)
  PROVE  At(o, j, Kept(framing, rest), got)
<1>1. CASE Kept(framing, rest) = rest BY <1>1
<1>2. CASE Kept(framing, rest) # rest
  <2>1. framing = "line" /\ Len(rest) > MaxLineBytes /\ Kept(framing, rest) = <<>> BY <1>2 DEF Kept
  <2>2. ~(o # 0 /\ Sure(o) /\ j < Size(o))
    <3> SUFFICES ASSUME o # 0, Sure(o), j < Size(o) PROVE FALSE OBVIOUS
    <3> DEFINE p == DumpProto(protocol, accepted[o])
    <3>0. o \in 1..Len(accepted) OBVIOUS
    <3>1. rest = SubSeq(F(o), 1, j) BY DEF At
    <3>2. /\ accepted[o] \in Seq(Nat) /\ Sendable(accepted[o])
          /\ F(o) \in Seq(Nat) /\ Size(o) = Len(F(o))
      BY <3>0, SentGood
    <3>3. p \in Seq(Nat) BY <3>2, ProtoRoundTrip DEF ConfigOK, Sendable
    <3>4. F(o) = Append(p, NL) BY <2>1 DEF F, Framed, LineFramed
    <3>5. Len(p) <= MaxLineBytes BY <2>1 DEF Sure, Fits
    <3> HIDE DEF p
    <3>6. Len(F(o)) = Len(p) + 1 BY <3>3, <3>4
    <3>7. Len(rest) = j BY <3>1, <3>2
    <3> QED BY <2>1, <3>2, <3>3, <3>5, <3>6, <3>7, FramingAssumption DEF FramingAssumption
  <2>3. <<>> \in Seq(Nat) /\ Unbroken(framing, <<>>) BY DEF Unbroken
  <2> QED BY <2>1, <2>2, <2>3 DEF At
<1> QED BY <1>1, <1>2

\* What At says does not depend on what is on the wire.
LEMMA AtSame ==
  ASSUME UNCHANGED <<receiver, framing, protocol, accepted, hurt, faults>>,
         NEW o, NEW j, NEW rest, NEW got
  PROVE  /\ At(o, j, rest, got)' <=> At(o, j, rest, got)
         /\ Calm' <=> Calm
         /\ ConfigOK /\ crc' = crc /\ ended' \in BOOLEAN => ConfigOK'
<1>1. \A i : F(i)' = F(i) BY DEF F, Framed
<1>2. \A i : Size(i)' = Size(i) BY <1>1 DEF Size
<1>3. \A i : Fits(accepted[i])' = Fits(accepted[i]) BY DEF Fits
<1>4. \A i : InFull(i)' = InFull(i) BY DEF InFull
<1>5. \A i : Sure(i)' = Sure(i) BY <1>3, <1>4 DEF Sure
<1>6. Done(o, j)' = Done(o, j) BY <1>2 DEF Done
<1>7. Survivors' = Survivors BY <1>3 DEF Survivors
<1>8. Calm' = Calm BY <1>3 DEF Calm
<1>9. ConfigOK /\ crc' = crc /\ ended' \in BOOLEAN => ConfigOK' BY DEF ConfigOK
<1>10. At(o, j, rest, got)' <=> At(o, j, rest, got) BY <1>1, <1>2, <1>4, <1>5, <1>6, <1>7, <1>8 DEF At
<1> QED BY <1>8, <1>9, <1>10

\* Bytes are read from the wire.
LEMMA TracksShift ==
  ASSUME UNCHANGED <<receiver, framing, protocol, accepted, hurt, faults>>, SentOK,
         NEW n \in 1..Len(wire), wire' = SubSeq(wire, n + 1, Len(wire)),
         NEW of, NEW nth, Tracks(of, nth), NEW size \in Nat, size = Len(wire)
  PROVE  LET more == 1..(size - n + 1)
         IN  Tracks([m \in more |-> of[m + n]], [m \in more |-> nth[m + n]])'
<1> DEFINE more == 1..(size - n + 1)
           a == [m \in more |-> of[m + n]]
           b == [m \in more |-> nth[m + n]]
<1>0. wire \in Seq(Nat) /\ Len(wire) = size BY DEF SentOK
<1>1. wire' \in Seq(Nat) /\ Len(wire') = size - n /\ \A m \in 1..Len(wire') : wire'[m] = wire[m + n]
  BY <1>0
<1>2. \A i : F(i)' = F(i) BY DEF F, Framed
<1>3. \A i : Size(i)' = Size(i) BY <1>2 DEF Size
<1>4. \A i : InFull(i)' = InFull(i) BY DEF InFull
<1>5. \A o, j, p, k : Follows(o, j, p, k)' = Follows(o, j, p, k) BY <1>3, <1>4 DEF Follows
<1>6. \A o, j : LastPut(o, j)' = LastPut(o, j) BY <1>3, <1>4 DEF LastPut
<1>7. ASSUME NEW m \in more
      PROVE  /\ m + n \in 1..(size + 1) /\ a[m] = of[m + n] /\ b[m] = nth[m + n]
             /\ of[m + n] \in 0..Len(accepted) /\ nth[m + n] \in Nat /\ nth[m + n] <= Size(of[m + n])
  <2>1. m + n \in 1..(size + 1) BY <1>0
  <2> QED BY <1>0, <2>1 DEF Tracks
<1>8. more = 1..(Len(wire') + 1) BY <1>0, <1>1
<1>9. a \in [more -> 0..Len(accepted)] /\ b \in [more -> Nat] BY <1>7
<1> HIDE DEF a, b
<1>10. ASSUME NEW m \in 1..(size - n)
       PROVE  /\ a[m + 1] # 0 /\ b[m + 1] # 0 /\ wire'[m] = F(a[m + 1])[b[m + 1]]
              /\ Follows(a[m], b[m], a[m + 1], b[m + 1])
  <2>1. m \in more /\ m + 1 \in more /\ m + n \in 1..size /\ (m + 1) + n = (m + n) + 1 BY <1>0
  <2>2. a[m] = of[m + n] /\ b[m] = nth[m + n] /\ a[m + 1] = of[(m + n) + 1] /\ b[m + 1] = nth[(m + n) + 1]
    BY <1>7, <2>1
  <2>3. wire'[m] = wire[m + n] BY <1>1
  <2> QED BY <1>0, <2>1, <2>2, <2>3 DEF Tracks
<1>11. LastPut(a[size - n + 1], b[size - n + 1])
  <2>1. size - n + 1 \in more /\ (size - n + 1) + n = size + 1 BY <1>0
  <2>2. a[size - n + 1] = of[size + 1] /\ b[size - n + 1] = nth[size + 1] BY <1>7, <2>1
  <2> QED BY <1>0, <2>2 DEF Tracks
<1>12. \A m \in more : b[m] <= Size(a[m]) BY <1>7
<1> HIDE DEF more
<1>13. Tracks(a, b)'
  <2>1. Len(wire)' = size - n BY <1>1
  <2>2. /\ a \in [1..(Len(wire)' + 1) -> 0..Len(accepted')] /\ b \in [1..(Len(wire)' + 1) -> Nat]
        /\ \A m \in 1..(Len(wire)' + 1) : b[m] <= Size(a[m])
    BY <1>8, <1>9, <1>12
  <2>3. ASSUME NEW m \in 1..Len(wire)'
        PROVE  /\ a[m + 1] # 0 /\ b[m + 1] # 0 /\ wire'[m] = F(a[m + 1])[b[m + 1]]
               /\ Follows(a[m], b[m], a[m + 1], b[m + 1])
    BY <1>10, <2>1
  <2>4. LastPut(a[Len(wire)' + 1], b[Len(wire)' + 1]) BY <1>11, <2>1
  <2> QED BY <1>2, <1>3, <1>5, <1>6, <2>2, <2>3, <2>4 DEF Tracks
<1> QED BY <1>13 DEF a, b, more

\* A chunk is read, and parsed with what was left of the chunks before.
LEMMA ReadyReadInv ==
  ASSUME StreamsInv, NEW n \in 1..Len(wire), ReadyRead(n) PROVE StreamsInv'
<1> SUFFICES ASSUME ~crc PROVE StreamsInv' BY DEF StreamsInv, ReadyRead, binaryConfig
<1> DEFINE r == ParseFrames(framing, protocol, buffer \o SubSeq(wire, 1, n))
<1>1. ConfigOK /\ SentOK BY DEF StreamsInv
<1>2. PICK of, nth : Tracks(of, nth) /\ At(of[1], nth[1], buffer, decoded)
  BY DEF StreamsInv, ReadyRead
<1>3. decoded \in Seq(Seq(Nat)) BY <1>2 DEF At
<1> DEFINE o == of[n + 1]
           j == nth[n + 1]
<1>4. ReadTo(o, j, decoded, r)
  <2>1. n \in 0..Len(wire) OBVIOUS
  <2> QED BY <1>1, <1>2, <1>3, <2>1, ChunkRead
<1>5. /\ UNCHANGED <<receiver, framing, protocol, accepted, hurt, faults>>
      /\ crc' = crc /\ ended' = r.raised /\ wire' = SubSeq(wire, n + 1, Len(wire))
      /\ buffer' = Kept(framing, r.rest)
      /\ decoded' = IF r.raised THEN decoded ELSE decoded \o r.msgs
  BY <1>1 DEF ReadyRead, Receive, binaryConfig, ConfigOK
<1> HIDE DEF r
<1>6. r.raised \in BOOLEAN BY <1>4 DEF ReadTo
<1>7. ConfigOK' BY <1>1, <1>5, <1>6, AtSame
<1>8. SentOK'
  <2>1. \A i : Sendable(accepted[i])' = Sendable(accepted[i]) BY <1>5 DEF Sendable
  <2>2. wire' \in Seq(Nat) BY <1>1, <1>5 DEF SentOK
  <2> QED BY <1>1, <1>5, <2>1, <2>2 DEF SentOK
<1>9. Calm' => ~ended' BY <1>4, <1>5, AtSame DEF ReadTo
<1>10. ASSUME ~ended' PROVE \E c, d : Tracks(c, d)' /\ At(c[1], d[1], buffer, decoded)'
  <2>0. PICK size \in Nat : size = Len(wire) BY <1>1 DEF SentOK
  <2> DEFINE more == 1..(size - n + 1)
             c == [m \in more |-> of[m + n]]
             d == [m \in more |-> nth[m + n]]
  <2>1. Tracks(c, d)' BY <1>1, <1>2, <1>5, <2>0, TracksShift
  <2>2. c[1] = o /\ d[1] = j
    <3>1. 1 \in more /\ 1 + n = n + 1 BY <2>0
    <3> QED BY <3>1
  <2>3. At(o, j, r.rest, decoded \o r.msgs) BY <1>4, <1>5, <1>10 DEF ReadTo
  <2>4. o \in 0..Len(accepted) /\ j \in Nat
    <3>1. n + 1 \in 1..(Len(wire) + 1) BY <1>1 DEF SentOK
    <3> QED BY <1>2, <3>1 DEF Tracks
  <2> HIDE DEF o, j
  <2>5. At(o, j, buffer', decoded') BY <1>1, <1>5, <1>10, <2>3, <2>4, KeptAt
  <2>6. At(o, j, buffer, decoded)' BY <1>5, <2>5, AtSame
  <2> HIDE DEF c, d
  <2> QED BY <2>1, <2>2, <2>6
<1> QED BY <1>7, <1>8, <1>9, <1>10 DEF StreamsInv

\* A message is given to the sender.
Grows(msg) ==
  /\ UNCHANGED <<receiver, framing, protocol, crc>>
  /\ accepted' = Append(accepted, msg)
  /\ hurt' = hurt \/ hurt' = hurt \cup {Len(accepted) + 1}
  /\ faults' \in Nat /\ (faults' = 0 => faults = 0 /\ hurt' = hurt)

\* What is known of the messages before it stays so.
LEMMA GrowsSame ==
  ASSUME SentOK, NEW msg \in Seq(Nat), Grows(msg)
  PROVE  /\ Len(accepted') = Len(accepted) + 1 /\ Len(accepted) \in Nat
         /\ \A i \in 1..Len(accepted) : accepted'[i] = accepted[i] /\ F(i)' = F(i)
                                        /\ (Fits(accepted[i])' <=> Fits(accepted[i]))
         /\ \A i \in 0..Len(accepted) : Size(i)' = Size(i) /\ (InFull(i)' <=> InFull(i))
         /\ accepted'[Len(accepted) + 1] = msg
<1>0. accepted \in Seq(Seq(Nat)) /\ Len(accepted) \in Nat /\ hurt \in SUBSET (1..Len(accepted)) BY DEF SentOK
<1>1. Len(accepted') = Len(accepted) + 1 /\ accepted'[Len(accepted) + 1] = msg BY <1>0 DEF Grows
<1>2. ASSUME NEW i \in 1..Len(accepted)
      PROVE  /\ accepted'[i] = accepted[i] /\ F(i)' = F(i)
             /\ Fits(accepted[i])' <=> Fits(accepted[i])
  <2>1. accepted'[i] = accepted[i] BY <1>0 DEF Grows
  <2>2. F(i)' = F(i) BY <2>1 DEF F, Framed, Grows
  <2>3. Fits(accepted[i])' <=> Fits(accepted[i]) BY <2>1 DEF Fits, Grows
  <2> QED BY <2>1, <2>2, <2>3
<1>3. ASSUME NEW i \in 0..Len(accepted) PROVE Size(i)' = Size(i) /\ (InFull(i)' <=> InFull(i))
  <2>1. Size(i)' = Size(i)
    <3>1. CASE i = 0 BY <3>1 DEF Size
    <3>2. CASE i # 0
      <4>1. i \in 1..Len(accepted) BY <1>0, <3>2
      <4>2. F(i)' = F(i) BY <1>2, <4>1
      <4> QED BY <4>2 DEF Size
    <3> QED BY <3>1, <3>2
  <2>2. i # Len(accepted) + 1 BY <1>0
  <2>3. InFull(i)' <=> InFull(i) BY <2>2 DEF InFull, Grows
  <2> QED BY <2>1, <2>3
<1> QED BY <1>0, <1>1, <1>2, <1>3

\* Messages stay where they were found.
LEMMA PlacedSame ==
  ASSUME NEW all, NEW more, NEW got, NEW S, \A i \in S : all[i] = more[i], Placed(all, got, S)
  PROVE  Placed(more, got, S)
BY DEF Placed

\* The receiver has nothing to do with it yet.
LEMMA AtGrows ==
  ASSUME SentOK, NEW msg \in Seq(Nat), Grows(msg), NEW o \in 0..Len(accepted), NEW j, NEW rest, NEW got,
         At(o, j, rest, got)
  PROVE  At(o, j, rest, got)'
<1>0. /\ Len(accepted') = Len(accepted) + 1 /\ Len(accepted) \in Nat
      /\ \A i \in 1..Len(accepted) : accepted'[i] = accepted[i] /\ F(i)' = F(i)
                                     /\ (Fits(accepted[i])' <=> Fits(accepted[i]))
      /\ \A i \in 0..Len(accepted) : Size(i)' = Size(i) /\ (InFull(i)' <=> InFull(i))
  BY GrowsSame
<1>1. Done(o, j)' = Done(o, j)
  <2>1. ASSUME NEW i \in Done(o, j) PROVE i \in Done(o, j)' BY <1>0 DEF Done
  <2>2. ASSUME NEW i \in Done(o, j)' PROVE i \in Done(o, j) BY <1>0 DEF Done
  <2> QED BY <2>1, <2>2
<1>2. Done(o, j) \subseteq 1..Len(accepted) BY DEF Done
<1>3. Done(o, j) \cap Survivors' = Done(o, j) \cap Survivors
  <2>1. ASSUME NEW i \in 1..Len(accepted) PROVE i \in Survivors' <=> i \in Survivors
    <3>1. i # Len(accepted) + 1 /\ i - 1 # Len(accepted) + 1 /\ i \in 1..Len(accepted') BY <1>0
    <3>2. (i \notin hurt' <=> i \notin hurt) /\ (i - 1 \notin hurt' <=> i - 1 \notin hurt)
      BY <3>1 DEF Grows
    <3>3. Fits(accepted[i])' <=> Fits(accepted[i]) BY <1>0
    <3> QED BY <3>1, <3>2, <3>3 DEF Survivors
  <2> QED BY <1>2, <2>1
<1>4. Placed(accepted', got, (Done(o, j) \cap Survivors)')
  <2> DEFINE S == Done(o, j) \cap Survivors
  <2>1. Placed(accepted, got, S) BY DEF At
  <2>2. \A i \in S : accepted[i] = accepted'[i] BY <1>0, <1>2
  <2> HIDE DEF S
  <2>3. Placed(accepted', got, S) BY <2>1, <2>2, PlacedSame
  <2> QED BY <1>1, <1>3, <2>3 DEF S
<1>5. IsLocal(receiver') => \A g \in 1..Len(got) : \E i \in Done(o, j)' : got[g] = accepted'[i]
  BY <1>0, <1>1, <1>2 DEF At, Grows
<1>6. Calm' => Calm BY <1>0 DEF Calm, Grows
<1>7. Calm' => got = SubSeq(accepted', 1, IF j = Size(o)' THEN o ELSE o - 1)
  <2> SUFFICES ASSUME Calm' PROVE got = SubSeq(accepted', 1, IF j = Size(o)' THEN o ELSE o - 1)
    OBVIOUS
  <2> DEFINE n == IF j = Size(o) THEN o ELSE o - 1
  <2>1. got = SubSeq(accepted, 1, n) BY <1>6 DEF At
  <2>2. n \in Int /\ n <= Len(accepted) /\ Size(o)' = Size(o) BY <1>0
  <2>3. accepted \in Seq(Seq(Nat)) /\ accepted' = Append(accepted, msg) BY DEF SentOK, Grows
  <2> HIDE DEF n
  <2>4. SubSeq(Append(accepted, msg), 1, n) = SubSeq(accepted, 1, n) BY <2>2, <2>3
  <2> QED BY <2>1, <2>2, <2>3, <2>4 DEF n
<1>8. o # 0 => (Sure(o)' <=> Sure(o)) /\ F(o)' = F(o)
  <2> SUFFICES ASSUME o # 0 PROVE (Sure(o)' <=> Sure(o)) /\ F(o)' = F(o) OBVIOUS
  <2>1. o \in 1..Len(accepted) /\ o - 1 \in 0..Len(accepted) BY <1>0
  <2> QED BY <1>0, <2>1 DEF Sure
<1>9. Size(o)' = Size(o) /\ (InFull(o)' <=> InFull(o)) /\ framing' = framing BY <1>0 DEF Grows
<1> QED BY <1>4, <1>5, <1>7, <1>8, <1>9 DEF At

\* Bytes behind bytes.
LEMMA BytesConcat ==
  ASSUME NEW a \in Seq(Nat), NEW b \in Seq(Nat)
  PROVE  /\ a \o b \in Seq(Nat) /\ Len(a \o b) = Len(a) + Len(b)
         /\ Len(a) \in Nat /\ Len(b) \in Nat
         /\ \A m \in 1..Len(a) : (a \o b)[m] = a[m]
         /\ \A m \in 1..Len(b) : (a \o b)[Len(a) + m] = b[m]
OBVIOUS

\* The same bytes.
LEMMA BytesEqual ==
  ASSUME NEW a \in Seq(Nat), NEW b \in Seq(Nat), Len(a) = Len(b), SameUpTo(a, b, Len(a))
  PROVE  a = b
BY DEF SameUpTo

\* The bytes at the places ix of a frame are put on the wire.
Puts(f, ix, size) ==
  /\ ix \in [1..size -> 1..Len(f)]
  /\ \A m \in 1..(size - 1) : ix[m] < ix[m + 1]
  /\ wire' = wire \o [m \in 1..size |-> f[ix[m]]]

\* All of them are.
PutsAll(f, ix, size) == size = Len(f) /\ \A m \in 1..size : ix[m] = m

\* What is on the wire still comes from frames.
LEMMA TracksGrow ==
  ASSUME ConfigOK, SentOK, NEW msg \in Seq(Nat), Sendable(msg), Grows(msg),
         NEW f, f = Framed(msg, <<>>), NEW size \in Nat, NEW ix, Puts(f, ix, size),
         (Len(accepted) + 1 \notin hurt' \/ IsLocal(receiver)) => PutsAll(f, ix, size),
         NEW of, NEW nth, Tracks(of, nth)
  PROVE  \E c, d : /\ Tracks(c, d)' /\ c[1] = of[1] /\ d[1] = nth[1]
<1>1. PICK N \in Nat : N = Len(accepted) BY DEF SentOK
<1>2. PICK W \in Nat : W = Len(wire) BY DEF SentOK
<1> DEFINE c == [m \in 1..(W + size + 1) |-> IF m <= W + 1 THEN of[m] ELSE N + 1]
           d == [m \in 1..(W + size + 1) |-> IF m <= W + 1 THEN nth[m] ELSE ix[m - (W + 1)]]
<1>3. /\ Len(accepted') = N + 1 /\ accepted'[N + 1] = msg
      /\ \A i \in 1..N : F(i)' = F(i)
      /\ \A i \in 0..N : Size(i)' = Size(i) /\ (InFull(i)' <=> InFull(i))
  BY <1>1, GrowsSame
<1>4. f \in Seq(Nat) /\ Len(f) \in Nat /\ Len(f) >= 1
  <2>1. GoodFrame(framing, protocol, f, msg, Fits(msg)) BY FramedGood
  <2> QED BY <2>1 DEF GoodFrame
<1>5. F(N + 1)' = f /\ Size(N + 1)' = Len(f)
  <2>1. F(N + 1)' = f BY <1>3 DEF F, Framed, Grows
  <2> QED BY <1>1, <2>1 DEF Size
<1>6. InFull(N + 1)' => PutsAll(f, ix, size) BY <1>1 DEF InFull, Grows
<1>7. /\ wire' \in Seq(Nat) /\ Len(wire') = W + size
      /\ \A m \in 1..W : wire'[m] = wire[m]
      /\ \A m \in 1..size : wire'[W + m] = f[ix[m]]
  <2> DEFINE g == [m \in 1..size |-> f[ix[m]]]
  <2>1. ASSUME NEW m \in 1..size PROVE g[m] = f[ix[m]] /\ g[m] \in Nat
    <3>1. ix[m] \in 1..Len(f) BY DEF Puts
    <3>2. f[ix[m]] \in Nat BY <1>4, <3>1
    <3>3. g[m] = f[ix[m]] OBVIOUS
    <3> QED BY <3>2, <3>3
  <2>2. g \in Seq(Nat) /\ Len(g) = size BY <2>1
  <2>3. wire \in Seq(Nat) /\ wire' = wire \o g BY DEF SentOK, Puts
  <2> HIDE DEF g
  <2>4. wire' \in Seq(Nat) /\ Len(wire') = W + size
    <3>1. wire \o g \in Seq(Nat) /\ Len(wire \o g) = Len(wire) + Len(g) BY <2>2, <2>3, BytesConcat
    <3> QED BY <1>2, <2>2, <2>3, <3>1
  <2>5. \A m \in 1..W : wire'[m] = wire[m] BY <1>2, <2>2, <2>3
  <2>6. ASSUME NEW m \in 1..size PROVE wire'[W + m] = f[ix[m]]
    <3>1. (wire \o g)[W + m] = g[m] BY <1>2, <2>2, <2>3
    <3> QED BY <2>1, <2>3, <3>1
  <2> QED BY <2>4, <2>5, <2>6
<1>8. ASSUME NEW m \in 1..(W + 1)
      PROVE  /\ c[m] = of[m] /\ d[m] = nth[m] /\ of[m] \in 0..N /\ nth[m] \in Nat
             /\ nth[m] <= Size(of[m]) /\ Size(of[m])' = Size(of[m])
             /\ InFull(of[m])' <=> InFull(of[m])
  <2>1. m \in 1..(W + size + 1) /\ m <= W + 1 OBVIOUS
  <2>2. c[m] = of[m] /\ d[m] = nth[m] BY <2>1
  <2>3. of[m] \in 0..N /\ nth[m] \in Nat /\ nth[m] <= Size(of[m]) BY <1>1, <1>2 DEF Tracks
  <2> HIDE DEF c, d
  <2> QED BY <1>3, <2>2, <2>3
<1>9. ASSUME NEW m \in 1..size
      PROVE  c[W + 1 + m] = N + 1 /\ d[W + 1 + m] = ix[m] /\ ix[m] \in 1..Len(f)
  <2>1. W + 1 + m \in 1..(W + size + 1) /\ ~(W + 1 + m <= W + 1) /\ (W + 1 + m) - (W + 1) = m OBVIOUS
  <2>2. c[W + 1 + m] = N + 1 /\ d[W + 1 + m] = ix[m] BY <2>1
  <2> HIDE DEF c, d
  <2> QED BY <2>2 DEF Puts
<1>10. ASSUME NEW m \in 1..(W + size + 1)
       PROVE  m \in 1..(W + 1) \/ \E k \in 1..size : m = W + 1 + k
  <2>1. m \in 1..(W + 1) \/ m - (W + 1) \in 1..size OBVIOUS
  <2>2. m = W + 1 + (m - (W + 1)) OBVIOUS
  <2> QED BY <2>1, <2>2
<1>11. c \in [1..(W + size + 1) -> 0..(N + 1)] /\ d \in [1..(W + size + 1) -> Nat]
  <2>1. ASSUME NEW m \in 1..(W + size + 1) PROVE c[m] \in 0..(N + 1) /\ d[m] \in Nat
    <3> HIDE DEF c, d
    <3>1. CASE m \in 1..(W + 1) BY <1>8, <3>1
    <3>2. CASE \E k \in 1..size : m = W + 1 + k
      <4>1. PICK k \in 1..size : m = W + 1 + k BY <3>2
      <4>2. c[m] = N + 1 /\ d[m] = ix[k] /\ ix[k] \in 1..Len(f) BY <1>9, <4>1
      <4> QED BY <1>4, <4>2
    <3> QED BY <1>10, <3>1, <3>2
  <2> QED BY <2>1
<1> HIDE DEF c, d
<1>12. ASSUME NEW m \in 1..(W + size + 1) PROVE d[m] <= Size(c[m])'
  <2>1. CASE m \in 1..(W + 1) BY <1>8, <2>1
  <2>2. CASE \E k \in 1..size : m = W + 1 + k
    <3>1. PICK k \in 1..size : m = W + 1 + k BY <2>2
    <3>2. c[m] = N + 1 /\ d[m] = ix[k] /\ ix[k] \in 1..Len(f) BY <1>9, <3>1
    <3> QED BY <1>4, <1>5, <3>2
  <2> QED BY <1>10, <2>1, <2>2
<1>13. LastPut(of[W + 1], nth[W + 1]) BY <1>2 DEF Tracks
<1>14. ASSUME NEW m \in 1..W
       PROVE  /\ c[m + 1] # 0 /\ d[m + 1] # 0 /\ wire'[m] = F(c[m + 1])'[d[m + 1]]
              /\ Follows(c[m], d[m], c[m + 1], d[m + 1])'
  <2> DEFINE o == of[m]
             j == nth[m]
             p == of[m + 1]
             k == nth[m + 1]
  <2>1. m \in 1..(W + 1) /\ m + 1 \in 1..(W + 1) OBVIOUS
  <2>2. p # 0 /\ k # 0 /\ wire[m] = F(p)[k] /\ Follows(o, j, p, k) BY <1>2 DEF Tracks
  <2>3. /\ c[m] = o /\ d[m] = j /\ c[m + 1] = p /\ d[m + 1] = k /\ o \in 0..N /\ p \in 0..N
        /\ Size(o)' = Size(o) /\ (InFull(o)' <=> InFull(o)) /\ (InFull(p)' <=> InFull(p))
    BY <1>8, <2>1
  <2> HIDE DEF o, j, p, k
  <2>4. F(p)' = F(p)
    <3>1. p \in 1..N BY <2>2, <2>3
    <3> QED BY <1>3, <3>1
  <2>5. \A i \in (o + 1)..(p - 1) : InFull(i)' <=> InFull(i)
    <3>1. (o + 1)..(p - 1) \subseteq 0..N BY <2>3
    <3> QED BY <1>3, <3>1
  <2>6. Follows(o, j, p, k)' BY <2>2, <2>3, <2>5 DEF Follows
  <2> QED BY <1>7, <2>2, <2>3, <2>4, <2>6
<1>15. ASSUME NEW m \in 1..size
       PROVE  /\ c[W + m + 1] # 0 /\ d[W + m + 1] # 0 /\ wire'[W + m] = F(c[W + m + 1])'[d[W + m + 1]]
              /\ Follows(c[W + m], d[W + m], c[W + m + 1], d[W + m + 1])'
  <2>1. W + m + 1 = W + 1 + m OBVIOUS
  <2>2. c[W + m + 1] = N + 1 /\ d[W + m + 1] = ix[m] /\ ix[m] \in 1..Len(f) BY <1>9, <2>1
  <2>3. wire'[W + m] = f[ix[m]] BY <1>7
  <2>4. CASE m = 1
    <3> DEFINE o == of[W + 1]
               j == nth[W + 1]
    <3>1. W + m = W + 1 /\ W + 1 \in 1..(W + 1) BY <2>4
    <3>2. /\ c[W + m] = o /\ d[W + m] = j /\ o \in 0..N /\ Size(o)' = Size(o)
          /\ (InFull(o)' <=> InFull(o)) /\ LastPut(o, j)
      BY <1>8, <1>13, <3>1
    <3> HIDE DEF o, j
    <3>3. InFull(N + 1)' => ix[m] = 1 BY <1>6, <2>4 DEF PutsAll
    <3>4. \A i \in (o + 1)..((N + 1) - 1) : ~InFull(i)'
      <4>1. (o + 1)..((N + 1) - 1) \subseteq 0..N /\ (N + 1) - 1 = N BY <3>2
      <4> QED BY <1>1, <1>3, <3>2, <4>1 DEF LastPut
    <3>5. o < N + 1 BY <3>2
    <3>6. Follows(o, j, N + 1, ix[m])' BY <3>2, <3>3, <3>4, <3>5 DEF Follows, LastPut
    <3> QED BY <1>5, <2>2, <2>3, <3>2, <3>6
  <2>5. CASE m # 1
    <3> DEFINE l == m - 1
    <3>1. l \in 1..size /\ l \in 1..(size - 1) /\ W + m = W + 1 + l /\ l + 1 = m BY <2>5
    <3> HIDE DEF l
    <3>2. c[W + m] = N + 1 /\ d[W + m] = ix[l] /\ ix[l] \in 1..Len(f) BY <1>9, <3>1
    <3>3. ix[l] < ix[m] BY <3>1 DEF Puts
    <3>4. InFull(N + 1)' => ix[m] = ix[l] + 1 BY <1>6, <3>1 DEF PutsAll
    <3>5. Follows(N + 1, ix[l], N + 1, ix[m])' BY <3>3, <3>4 DEF Follows
    <3> QED BY <1>5, <2>2, <2>3, <3>2, <3>5
  <2> QED BY <2>4, <2>5
<1>16. LastPut(c[W + size + 1], d[W + size + 1])'
  <2>1. CASE size = 0
    <3> DEFINE o == of[W + 1]
               j == nth[W + 1]
    <3>1. W + size + 1 = W + 1 /\ W + 1 \in 1..(W + 1) BY <2>1
    <3>2. /\ c[W + size + 1] = o /\ d[W + size + 1] = j /\ o \in 0..N /\ Size(o)' = Size(o)
          /\ (InFull(o)' <=> InFull(o)) /\ LastPut(o, j)
      BY <1>8, <1>13, <3>1
    <3> HIDE DEF o, j
    <3>3. ~InFull(N + 1)' BY <1>4, <1>6, <2>1 DEF PutsAll
    <3>4. ASSUME NEW i \in (o + 1)..(N + 1) PROVE ~InFull(i)'
      <4>1. CASE i = N + 1 BY <3>3, <4>1
      <4>2. CASE i # N + 1
        <5>1. i \in (o + 1)..N /\ i \in 0..N BY <3>2, <4>2
        <5> QED BY <1>1, <1>3, <3>2, <5>1 DEF LastPut
      <4> QED BY <4>1, <4>2
    <3>5. LastPut(o, j)' BY <1>3, <3>2, <3>4 DEF LastPut
    <3> QED BY <3>2, <3>5
  <2>2. CASE size # 0
    <3>1. size \in 1..size /\ W + size + 1 = W + 1 + size BY <2>2
    <3>2. c[W + size + 1] = N + 1 /\ d[W + size + 1] = ix[size] BY <1>9, <3>1
    <3>3. InFull(N + 1)' => ix[size] = Size(N + 1)' BY <1>5, <1>6, <3>1 DEF PutsAll
    <3>4. ((N + 1) + 1)..(N + 1) = {} OBVIOUS
    <3>5. LastPut(N + 1, ix[size])' BY <1>3, <3>3, <3>4 DEF LastPut
    <3> QED BY <3>2, <3>5
  <2> QED BY <2>1, <2>2
<1>17. ASSUME NEW m \in 1..(W + size)
       PROVE  /\ c[m + 1] # 0 /\ d[m + 1] # 0 /\ wire'[m] = F(c[m + 1])'[d[m + 1]]
              /\ Follows(c[m], d[m], c[m + 1], d[m + 1])'
  <2>1. CASE m \in 1..W BY <1>14, <2>1
  <2>2. CASE m \notin 1..W
    <3>1. PICK l \in 1..size : m = W + l
      <4>1. m - W \in 1..size /\ m = W + (m - W) BY <2>2
      <4> QED BY <4>1
    <3> QED BY <1>15, <3>1
  <2> QED BY <2>1, <2>2
<1>18. Tracks(c, d)' BY <1>3, <1>7, <1>11, <1>12, <1>16, <1>17 DEF Tracks
<1>19. c[1] = of[1] /\ d[1] = nth[1]
  <2>1. 1 \in 1..(W + 1) OBVIOUS
  <2> QED BY <1>8, <2>1
<1> QED BY <1>18, <1>19

\* A frame, or what a fault has left of it, is put on the wire.
LEMMA SendInv ==
  ASSUME StreamsInv, ~crc, ~ended, NEW msg \in Seq(Nat), New(msg), Sendable(msg), Grows(msg),
         UNCHANGED <<buffer, ended, decoded>>,
         NEW f, f = Framed(msg, <<>>), NEW size \in Nat, NEW ix, Puts(f, ix, size),
         (Len(accepted) + 1 \notin hurt' \/ IsLocal(receiver)) => PutsAll(f, ix, size)
  PROVE  StreamsInv'
<1>1. ConfigOK /\ SentOK BY DEF StreamsInv
<1>2. PICK of, nth : Tracks(of, nth) /\ At(of[1], nth[1], buffer, decoded) BY DEF StreamsInv
<1>3. PICK c, d : Tracks(c, d)' /\ c[1] = of[1] /\ d[1] = nth[1] BY <1>1, <1>2, TracksGrow
<1>4. of[1] \in 0..Len(accepted)
  <2>1. 1 \in 1..(Len(wire) + 1) BY <1>1 DEF SentOK
  <2> QED BY <1>2, <2>1 DEF Tracks
<1>5. At(c[1], d[1], buffer, decoded)'
  <2>1. At(of[1], nth[1], buffer', decoded') BY <1>2
  <2>2. At(of[1], nth[1], buffer, decoded)' BY <1>1, <1>4, <2>1, AtGrows
  <2> QED BY <1>3, <2>2
<1>6. ConfigOK' BY <1>1 DEF ConfigOK, Grows
<1>7. SentOK'
  <2>1. /\ Len(accepted') = Len(accepted) + 1 /\ Len(accepted) \in Nat
        /\ \A i \in 1..Len(accepted) : accepted'[i] = accepted[i]
        /\ accepted'[Len(accepted) + 1] = msg
    BY <1>1, GrowsSame
  <2>2. accepted' \in Seq(Seq(Nat)) BY <1>1 DEF SentOK, Grows
  <2>3. ASSUME NEW i \in 1..Len(accepted') PROVE Sendable(accepted[i])'
    <3>1. CASE i = Len(accepted) + 1 BY <2>1, <3>1 DEF Sendable, Grows
    <3>2. CASE i # Len(accepted) + 1
      <4>1. i \in 1..Len(accepted) BY <2>1, <3>2
      <4>2. Sendable(accepted[i]) BY <1>1, <4>1 DEF SentOK
      <4> QED BY <2>1, <4>1, <4>2 DEF Sendable, Grows
    <3> QED BY <3>1, <3>2
  <2>4. ASSUME NEW i \in 1..Len(accepted) PROVE accepted[i] # msg BY DEF New, Contains
  <2>5. ASSUME NEW i \in 1..Len(accepted'), NEW j \in 1..Len(accepted'), accepted'[i] = accepted'[j]
        PROVE  i = j
    <3>1. i \in 1..Len(accepted) \/ i = Len(accepted) + 1 BY <2>1
    <3>2. j \in 1..Len(accepted) \/ j = Len(accepted) + 1 BY <2>1
    <3>3. i \in 1..Len(accepted) /\ j \in 1..Len(accepted) => i = j BY <1>1, <2>1, <2>5 DEF SentOK
    <3> QED BY <2>1, <2>4, <2>5, <3>1, <3>2, <3>3
  <2>6. hurt' \in SUBSET (1..Len(accepted'))
    <3>1. hurt \subseteq 1..Len(accepted) BY <1>1 DEF SentOK
    <3>2. 1..Len(accepted) \subseteq 1..Len(accepted') /\ Len(accepted) + 1 \in 1..Len(accepted')
      BY <2>1
    <3>3. hurt' \subseteq hurt \cup {Len(accepted) + 1} BY DEF Grows
    <3> QED BY <3>1, <3>2, <3>3
  <2>7. faults' \in Nat /\ (faults' = 0 => hurt' = {}) BY <1>1 DEF SentOK, Grows
  <2>8. wire' \in Seq(Nat)
    <3> DEFINE g == [m \in 1..size |-> f[ix[m]]]
    <3>1. f \in Seq(Nat) BY <1>1, FramedGood DEF GoodFrame
    <3>2. ASSUME NEW m \in 1..size PROVE f[ix[m]] \in Nat
      <4>1. ix[m] \in 1..Len(f) BY DEF Puts
      <4> QED BY <3>1, <4>1
    <3>3. g \in Seq(Nat) BY <3>2
    <3>4. wire \in Seq(Nat) /\ wire' = wire \o g BY <1>1 DEF SentOK, Puts
    <3> HIDE DEF g
    <3> QED BY <3>3, <3>4
  <2> QED BY <2>2, <2>3, <2>5, <2>6, <2>7, <2>8 DEF SentOK
<1> QED BY <1>3, <1>5, <1>6, <1>7 DEF StreamsInv

\* Without a checksum a message has one frame.
LEMMA OneFrame == ASSUME ~crc, NEW msg, NEW f \in Frames(msg) PROVE f = Framed(msg, <<>>)
BY DEF Frames

\* A frame is sent.
LEMMA SendBinaryInv ==
  ASSUME StreamsAssumption, StreamsInv, NEW msg \in Bodies, SendBinary(msg) PROVE StreamsInv'
<1> SUFFICES ASSUME ~crc PROVE StreamsInv' BY DEF StreamsInv, SendBinary, binaryConfig
<1>1. msg \in Seq(Nat) /\ ConfigOK /\ SentOK BY DEF StreamsAssumption, StreamsInv
<1>2. /\ ~ended /\ New(msg) /\ Sendable(msg) /\ accepted' = Append(accepted, msg)
      /\ UNCHANGED <<binaryConfig, buffer, ended, hurt, decoded, faults>>
  BY DEF SendBinary
<1>3. PICK f \in Frames(msg) : wire' = wire \o f BY DEF SendBinary
<1>4. f = Framed(msg, <<>>) BY <1>3, OneFrame
<1>5. f \in Seq(Nat) /\ Len(f) \in Nat BY <1>1, <1>2, <1>4, FramedGood DEF GoodFrame
<1> DEFINE ix == [m \in 1..Len(f) |-> m]
<1>6. Puts(f, ix, Len(f))
  <2>1. [m \in 1..Len(f) |-> f[ix[m]]] = f BY <1>5
  <2>2. ix \in [1..Len(f) -> 1..Len(f)] /\ \A m \in 1..(Len(f) - 1) : ix[m] < ix[m + 1] BY <1>5
  <2> HIDE DEF ix
  <2> QED BY <1>3, <2>1, <2>2 DEF Puts
<1>7. PutsAll(f, ix, Len(f)) BY DEF PutsAll
<1> HIDE DEF ix
<1>8. Grows(msg) BY <1>1, <1>2 DEF Grows, binaryConfig, SentOK
<1> QED BY <1>1, <1>2, <1>4, <1>5, <1>6, <1>7, <1>8, SendInv

\* A frame is damaged.
LEMMA SendDamagedInv ==
  ASSUME StreamsAssumption, StreamsInv, NEW msg \in Bodies, SendDamaged(msg) PROVE StreamsInv'
<1> SUFFICES ASSUME ~crc PROVE StreamsInv' BY DEF StreamsInv, SendDamaged, binaryConfig
<1>1. msg \in Seq(Nat) /\ ConfigOK /\ SentOK BY DEF StreamsAssumption, StreamsInv
<1>2. /\ ~ended /\ ~IsLocal(receiver) /\ New(msg) /\ Sendable(msg) /\ accepted' = Append(accepted, msg)
      /\ faults' = faults + 1 /\ hurt' = hurt \cup {Len(accepted')}
      /\ UNCHANGED <<binaryConfig, buffer, ended, decoded>>
  BY DEF SendDamaged
<1>3. PICK f \in Frames(msg) :
        \/ \E i \in 1..Len(f) : wire' = wire \o RemoveAt(f, i)
        \/ \E n \in 0..(Len(f) - 1) : wire' = wire \o SubSeq(f, 1, n)
  BY DEF SendDamaged
<1>4. f = Framed(msg, <<>>) BY <1>3, OneFrame
<1>5. f \in Seq(Nat) /\ Len(f) \in Nat BY <1>1, <1>2, <1>4, FramedGood DEF GoodFrame
<1>6. hurt' = hurt \cup {Len(accepted) + 1} BY <1>1, <1>2 DEF SentOK
<1>7. Grows(msg) BY <1>1, <1>2, <1>6 DEF Grows, binaryConfig, SentOK
<1>8. ASSUME NEW size \in Nat, NEW ix, Puts(f, ix, size) PROVE StreamsInv'
  BY <1>1, <1>2, <1>4, <1>6, <1>7, <1>8, SendInv
<1>9. CASE \E i \in 1..Len(f) : wire' = wire \o RemoveAt(f, i)
  <2>1. PICK i \in 1..Len(f) : wire' = wire \o RemoveAt(f, i) BY <1>9
  <2> DEFINE size == Len(f) - 1
             ix == [m \in 1..size |-> IF m < i THEN m ELSE m + 1]
  <2>2. size \in Nat BY <1>5
  <2>3. RemoveAt(f, i) = [m \in 1..size |-> f[ix[m]]]
    <3> DEFINE a == SubSeq(f, 1, i - 1)
               b == SubSeq(f, i + 1, Len(f))
               g == [m \in 1..size |-> f[ix[m]]]
    <3>1. a \in Seq(Nat) /\ Len(a) = i - 1 /\ b \in Seq(Nat) /\ Len(b) = Len(f) - i BY <1>5
    <3>2. /\ \A m \in 1..(i - 1) : a[m] = f[m]
          /\ \A m \in 1..(Len(f) - i) : b[m] = f[i + m]
      BY <1>5
    <3>3. /\ \A m \in 1..size : m < i => ix[m] = m
          /\ \A m \in 1..size : ~(m < i) => ix[m] = m + 1
      OBVIOUS
    <3>4. ASSUME NEW m \in 1..size PROVE f[ix[m]] \in Nat
      <4>1. ix[m] \in 1..Len(f) BY <1>5
      <4> HIDE DEF ix
      <4> QED BY <1>5, <4>1
    <3>5. g \in Seq(Nat) /\ Len(g) = size /\ \A m \in 1..size : g[m] = f[ix[m]] BY <2>2, <3>4
    <3> HIDE DEF a, b, g, ix
    <3>6. a \o b \in Seq(Nat) /\ Len(a \o b) = size
      <4>1. a \o b \in Seq(Nat) /\ Len(a \o b) = Len(a) + Len(b) BY <3>1, BytesConcat
      <4>2. (i - 1) + (Len(f) - i) = size BY <1>5
      <4> QED BY <3>1, <4>1, <4>2
    <3>7. ASSUME NEW m \in 1..size PROVE (a \o b)[m] = g[m]
      <4>0. m \in Nat /\ i \in Nat BY <1>5
      <4>1. CASE m < i
        <5>1. m \in 1..(i - 1) BY <4>0, <4>1
        <5>2. (a \o b)[m] = a[m] BY <3>1, <5>1, BytesConcat
        <5> QED BY <3>2, <3>3, <3>5, <4>1, <5>1, <5>2
      <4>2. CASE ~(m < i)
        <5>1. PICK k \in 1..(Len(f) - i) : m = (i - 1) + k /\ m + 1 = i + k
          <6>1. m - (i - 1) \in 1..(Len(f) - i) /\ m = (i - 1) + (m - (i - 1)) /\ m + 1 = i + (m - (i - 1))
            BY <1>5, <4>0, <4>2
          <6> QED BY <6>1
        <5>2. (a \o b)[m] = b[k] BY <3>1, <5>1, BytesConcat
        <5>3. g[m] = f[m + 1] BY <3>3, <3>5, <4>2
        <5> QED BY <3>2, <5>1, <5>2, <5>3
      <4> QED BY <4>1, <4>2
    <3> HIDE DEF size
    <3>8. a \o b = g BY <3>5, <3>6, <3>7, BytesEqual DEF SameUpTo
    <3> QED BY <3>8 DEF RemoveAt, a, b, g
  <2>4. ix \in [1..size -> 1..Len(f)] BY <1>5
  <2>5. \A m \in 1..(size - 1) : ix[m] < ix[m + 1] BY <1>5
  <2> HIDE DEF size, ix
  <2>6. Puts(f, ix, size) BY <2>1, <2>3, <2>4, <2>5 DEF Puts
  <2> QED BY <1>8, <2>2, <2>6
<1>10. CASE \E n \in 0..(Len(f) - 1) : wire' = wire \o SubSeq(f, 1, n)
  <2>1. PICK n \in 0..(Len(f) - 1) : wire' = wire \o SubSeq(f, 1, n) BY <1>10
  <2> DEFINE ix == [m \in 1..n |-> m]
  <2>2. SubSeq(f, 1, n) = [m \in 1..n |-> f[ix[m]]] BY <1>5
  <2>3. ix \in [1..n -> 1..Len(f)] /\ \A m \in 1..(n - 1) : ix[m] < ix[m + 1] BY <1>5
  <2> HIDE DEF ix
  <2>4. Puts(f, ix, n) BY <2>1, <2>2, <2>3 DEF Puts
  <2> QED BY <1>8, <2>4
<1> QED BY <1>3, <1>9, <1>10

\* A cut loses the messages on their way, and the server's buffer: nothing is
\* left of what was sent.
LEMMA CutoffInv == ASSUME StreamsInv, Cutoff PROVE StreamsInv'
<1> SUFFICES ASSUME ~crc PROVE StreamsInv' BY DEF StreamsInv, Cutoff, binaryConfig
<1>1. ConfigOK /\ SentOK BY DEF StreamsInv
<1>2. /\ receiver = "local_server" /\ IsLocal(receiver) /\ faults' = faults + 1
      /\ wire' = <<>> /\ buffer' = <<>>
      /\ hurt' = hurt \cup {i \in 1..Len(accepted) : ~Contains(decoded, accepted[i])}
      /\ UNCHANGED <<receiver, framing, protocol, crc, ended, accepted, decoded>>
  BY <1>1 DEF Cutoff, ConfigOK, IsLocal, binaryConfig
<1>3. faults \in Nat /\ accepted \in Seq(Seq(Nat)) /\ hurt \subseteq 1..Len(accepted) BY <1>1 DEF SentOK
<1>4. ConfigOK' BY <1>1, <1>2 DEF ConfigOK
<1>5. SentOK'
  <2>1. \A i : Sendable(accepted[i])' = Sendable(accepted[i]) BY <1>2 DEF Sendable
  <2>2. hurt' \subseteq 1..Len(accepted) BY <1>2, <1>3
  <2>3. faults' \in Nat /\ faults' # 0 BY <1>2, <1>3
  <2>4. <<>> \in Seq(Nat) OBVIOUS
  <2> QED BY <1>1, <1>2, <2>1, <2>2, <2>3, <2>4 DEF SentOK
<1>6. ~Calm' BY <1>2, <1>3 DEF Calm
<1>7. ASSUME ~ended' PROVE \E c, d : Tracks(c, d)' /\ At(c[1], d[1], buffer, decoded)'
  <2>1. PICK of, nth : Tracks(of, nth) /\ At(of[1], nth[1], buffer, decoded)
    BY <1>2, <1>7 DEF StreamsInv
  <2>2. PICK N \in Nat : N = Len(accepted) BY <1>3
  <2>3. \A i : F(i)' = F(i) /\ (InFull(i)' <=> TRUE) /\ (Fits(accepted[i])' <=> Fits(accepted[i]))
    BY <1>2 DEF F, Framed, InFull, Fits
  <2>4. \A i : Size(i)' = Size(i) BY <2>3 DEF Size
  <2>5. PICK L \in Nat : L = Size(N)
    <3>1. CASE N = 0 BY <3>1 DEF Size
    <3>2. CASE N # 0
      <4>1. N \in 1..Len(accepted) BY <2>2, <3>2
      <4>2. Size(N) \in Nat BY <1>1, <4>1, SentGood
      <4> QED BY <4>2
    <3> QED BY <3>1, <3>2
  <2> DEFINE c == [m \in 1..1 |-> N]
             d == [m \in 1..1 |-> L]
  <2>6. c[1] = N /\ d[1] = L /\ Len(wire') = 0 /\ Len(accepted') = N BY <1>2, <2>2
  <2>7. Tracks(c, d)'
    <3>1. /\ c \in [1..(Len(wire') + 1) -> 0..Len(accepted')] /\ d \in [1..(Len(wire') + 1) -> Nat]
      BY <2>6
    <3>2. \A m \in 1..(Len(wire') + 1) : d[m] <= Size(c[m])' BY <2>4, <2>5, <2>6
    <3>3. LastPut(N, L)'
      <4>1. (N + 1)..N = {} OBVIOUS
      <4> QED BY <2>4, <2>5, <2>6, <4>1 DEF LastPut
    <3>4. 1..Len(wire') = {} /\ Len(wire') + 1 = 1 BY <2>6
    <3> HIDE DEF c, d
    <3> QED BY <2>6, <3>1, <3>2, <3>3, <3>4 DEF Tracks
  <2> DEFINE o == of[1]
             j == nth[1]
  <2>8. /\ decoded \in Seq(Seq(Nat)) /\ Placed(accepted, decoded, Done(o, j) \cap Survivors)
        /\ \A g \in 1..Len(decoded) : \E i \in Done(o, j) : decoded[g] = accepted[i]
    BY <1>2, <2>1 DEF At
  <2>9. Done(o, j) \subseteq 1..N BY <2>2 DEF Done
  <2> HIDE DEF o, j, c, d
  <2>10. ASSUME NEW i \in Survivors' PROVE i \in Done(o, j) \cap Survivors
    <3>1. i \in 1..Len(accepted) /\ i \notin hurt' /\ (i - 1) \notin hurt' /\ Fits(accepted[i])
      BY <1>2, <2>3 DEF Survivors
    <3>2. i \in Survivors BY <1>2, <3>1 DEF Survivors
    <3>3. PICK g \in 1..Len(decoded) : decoded[g] = accepted[i] BY <1>2, <3>1 DEF Contains
    <3>4. PICK k \in Done(o, j) : decoded[g] = accepted[k] BY <2>8
    <3>5. k = i BY <1>1, <2>2, <2>9, <3>1, <3>3, <3>4 DEF SentOK
    <3> QED BY <3>2, <3>4, <3>5
  <2>11. Done(N, L)' = 1..N
    <3>1. \A i \in 1..N : i < N \/ i = N OBVIOUS
    <3> QED BY <2>4, <2>5, <2>6, <3>1 DEF Done
  <2>12. Placed(accepted, decoded, (Done(N, L) \cap Survivors)')
    <3> DEFINE S == Done(o, j) \cap Survivors
               T == Done(N, L)' \cap Survivors'
    <3>1. T \subseteq S BY <2>10
    <3>2. Placed(accepted, decoded, S) BY <2>8
    <3> HIDE DEF S, T
    <3>3. <<>> \in Seq(Seq(Nat)) /\ decoded \o <<>> = decoded BY <2>8
    <3>4. Placed(accepted, decoded \o <<>>, T) BY <2>8, <3>1, <3>2, <3>3, PlacedMore
    <3> QED BY <3>3, <3>4 DEF T
  <2>13. At(N, L, <<>>, decoded)'
    <3>1. <<>> \in Seq(Nat) /\ Unbroken(framing', <<>>) BY DEF Unbroken
    <3>2. \A g \in 1..Len(decoded) : \E i \in Done(N, L)' : decoded[g] = accepted[i]
      BY <2>8, <2>9, <2>11
    <3>3. ~(L < Size(N)') BY <2>4, <2>5
    <3> QED BY <1>2, <1>6, <2>8, <2>12, <3>1, <3>2, <3>3 DEF At
  <2>14. At(c[1], d[1], buffer, decoded)' BY <1>2, <2>6, <2>13
  <2> QED BY <2>7, <2>14
<1> QED BY <1>4, <1>5, <1>6, <1>7 DEF StreamsInv

\* Nothing happens.
LEMMA StreamsStutterInv == ASSUME StreamsInv, UNCHANGED streamsVars PROVE StreamsInv'
<1> SUFFICES ASSUME ~crc PROVE StreamsInv' BY DEF StreamsInv, streamsVars
<1>1. UNCHANGED <<receiver, framing, protocol, crc, wire, buffer, ended, accepted, hurt, decoded, faults>>
  BY DEF streamsVars
<1>2. ConfigOK /\ SentOK /\ (Calm => ~ended) BY DEF StreamsInv
<1>3. ConfigOK' /\ SentOK' /\ (Calm' => ~ended')
  <2>1. \A i : Sendable(accepted[i])' = Sendable(accepted[i]) BY <1>1 DEF Sendable
  <2>2. SentOK' BY <1>1, <1>2, <2>1 DEF SentOK
  <2>3. ConfigOK' BY <1>1, <1>2 DEF ConfigOK
  <2>4. Calm' <=> Calm BY <1>1, AtSame
  <2> QED BY <1>1, <1>2, <2>2, <2>3, <2>4
<1>4. ASSUME ~ended' PROVE \E c, d : Tracks(c, d)' /\ At(c[1], d[1], buffer, decoded)'
  <2>1. PICK of, nth : Tracks(of, nth) /\ At(of[1], nth[1], buffer, decoded)
    BY <1>1, <1>4 DEF StreamsInv
  <2>2. \A i : F(i)' = F(i) BY <1>1 DEF F, Framed
  <2>3. \A i : Size(i)' = Size(i) BY <2>2 DEF Size
  <2>4. \A i : InFull(i)' = InFull(i) BY <1>1 DEF InFull
  <2>5. \A o, j, p, k : Follows(o, j, p, k)' = Follows(o, j, p, k) BY <2>3, <2>4 DEF Follows
  <2>6. \A o, j : LastPut(o, j)' = LastPut(o, j) BY <1>1, <2>3, <2>4 DEF LastPut
  <2>7. Tracks(of, nth)' BY <1>1, <2>1, <2>2, <2>3, <2>5, <2>6 DEF Tracks
  <2>8. At(of[1], nth[1], buffer', decoded') BY <1>1, <2>1
  <2>9. At(of[1], nth[1], buffer, decoded)' BY <1>1, <2>8, AtSame
  <2> QED BY <2>7, <2>9
<1> QED BY <1>3, <1>4 DEF StreamsInv

\* Every step of the stream.
LEMMA StreamsNextInv ==
  ASSUME StreamsAssumption, StreamsInv, [StreamsNext]_streamsVars PROVE StreamsInv'
<1>1. CASE \E msg \in Bodies : SendBinary(msg) BY <1>1, SendBinaryInv
<1>2. CASE \E msg \in Bodies : SendDamaged(msg) BY <1>2, SendDamagedInv
<1>3. CASE \E n \in 1..Len(wire) : ReadyRead(n) BY <1>3, ReadyReadInv
<1>4. CASE Cutoff BY <1>4, CutoffInv
<1>5. CASE UNCHANGED streamsVars BY <1>5, StreamsStutterInv
<1> QED BY <1>1, <1>2, <1>3, <1>4, <1>5 DEF StreamsNext

\* Serial, STDIO and local server streams never lose their way (Resync): for any
\* messages, any faults and any chunks, every message sent undamaged behind a
\* frame that was not damaged is received, in order, and without a fault what is
\* received is a prefix of what was sent.  Process, which drops the rest of a
\* chunk, and a client that keeps its buffer over a reconnect are not meant.
THEOREM StreamsResync ==
  ASSUME Receivers \cap {"process", "local_client"} = {}
  PROVE  StreamsSpec => []Resync
<1>1. StreamsInit => StreamsInv BY StreamsAssumption, StreamsInitInv
<1>2. StreamsInv /\ [StreamsNext]_streamsVars => StreamsInv' BY StreamsAssumption, StreamsNextInv
<1>3. StreamsInv => Resync BY StreamsInvResync
<1> QED BY <1>1, <1>2, <1>3, PTL DEF StreamsSpec
=============================================================================
