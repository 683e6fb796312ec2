------------------------------ MODULE Sockets ------------------------------
(***************************************************************************)
(* The servers and clients that talk over local sockets and websockets:    *)
(* connections, their ids and events, per-client routing, broadcast and    *)
(* reconnection.  How bytes become messages is Framing's business: here a  *)
(* message is whole, and one that does not decode is Bad.                  *)
(***************************************************************************)
EXTENDS Integers, Sequences, FiniteSets

CONSTANTS
  Client,       \* client workers, in processes of their own
  Transports,   \* "local" and "ws"
  MaxFails,     \* bound on connections that are refused or lost
  MaxMsgs       \* bound on messages the server or a client sends

\* What is assumed of them.
SocketsAssumption ==
  Transports \subseteq {"local", "ws"} /\ MaxFails \in Nat /\ MaxMsgs \in Nat

VARIABLES
  transport, perClient,   \* the workers' class; config.per_client
  state,      \* of each client's socket; "absent" before the worker exists
  timers,     \* reconnect timers that run, per client
  fails,      \* connections refused or lost so far
  link,       \* the id of each client's connection, 0 for none
  counter,    \* Server::counter; a websocket's address is as unique
  pending,    \* connections the server has not accepted yet
  socks,      \* Server::socks
  telling,    \* the id whose disconnected event the listeners have, 0 for none
  closing,    \* sockets with deleteLater() pending
  announced,  \* ids told as connected and not as disconnected (history)
  toServer,   \* messages on their way, per id
  toClient,   \* messages on their way, per id
  emitted,    \* what the server emitted: id (0 without per_client) and message
  received,   \* per client, the messages it emitted
  sent        \* messages given to OnMsg so far

configVars == <<transport, perClient>>
clientVars == <<state, timers, fails, link>>
serverVars == <<counter, pending, socks, telling, closing, announced>>
flow == <<toServer, toClient, emitted, received, sent>>
vars == <<configVars, clientVars, serverVars, flow>>

Id == 1..(Cardinality(Client) + MaxFails)
Bad == "bad"
Msg(to, n) == [to |-> to, n |-> n]     \* to = 0: not a map with a client's id

Init ==
  /\ transport \in Transports
  /\ perClient \in BOOLEAN
  /\ state = [c \in Client |-> "absent"]
  /\ timers = [c \in Client |-> 0]
  /\ link = [c \in Client |-> 0]
  /\ fails = 0
  /\ counter = 0
  /\ telling = 0
  /\ pending = {} /\ socks = {} /\ closing = {} /\ announced = {}
  /\ toServer = [i \in Id |-> <<>>] /\ toClient = [i \in Id |-> <<>>]
  /\ emitted = {} /\ received = [c \in Client |-> {}]
  /\ sent = 0

\* Client::Client opens its connection.
CreateClient(c) ==
  /\ state[c] = "absent"
  /\ state' = [state EXCEPT ![c] = "connecting"]
  /\ UNCHANGED <<configVars, timers, fails, link, serverVars, flow>>

\* The operating system completes a connection; stateChanged(ConnectedState).
Established(c) ==
  /\ state[c] = "connecting"
  /\ counter' = counter + 1
  /\ state' = [state EXCEPT ![c] = "connected"]
  /\ link' = [link EXCEPT ![c] = counter']
  /\ pending' = pending \union {counter'}
  /\ UNCHANGED <<configVars, timers, fails, socks, telling, closing, announced, flow>>

\* stateChanged(UnconnectedState): a refused or a lost connection starts the
\* reconnect timer.  The server sees the end of a connection on its own time.
Unconnected(c) ==
  /\ state[c] \in {"connecting", "connected"}
  /\ fails < MaxFails
  /\ fails' = fails + 1
  /\ state' = [state EXCEPT ![c] = "unconnected"]
  /\ timers' = [timers EXCEPT ![c] = @ + 1]
  /\ link' = [link EXCEPT ![c] = 0]
  /\ UNCHANGED <<configVars, serverVars, flow>>

\* Mutant of Reopen: only the first failure is retried.
ReopenOnce(c) ==
  /\ timers[c] > 0
  /\ timers' = [timers EXCEPT ![c] = @ - 1]
  /\ state' = IF fails < 2 /\ state[c] = "unconnected"
              THEN [state EXCEPT ![c] = "connecting"] ELSE state
  /\ UNCHANGED <<configVars, fails, link, serverVars, flow>>

\* The timer: connectToServer() or open(); on a socket that is not unconnected
\* it does nothing.
Reopen(c) ==
  /\ timers[c] > 0
  /\ timers' = [timers EXCEPT ![c] = @ - 1]
  /\ state' = IF state[c] = "unconnected" THEN [state EXCEPT ![c] = "connecting"] ELSE state
  /\ UNCHANGED <<configVars, fails, link, serverVars, flow>>

\* The server's event loop is not inside a listener.
AtLoop == telling = 0

\* Server::accept().  Data that arrived first is read by Read() afterwards.
Accept(i) ==
  /\ AtLoop /\ i \in pending
  /\ pending' = pending \ {i}
  /\ socks' = socks \union {i}
  /\ announced' = announced \union {i}
  /\ UNCHANGED <<configVars, clientVars, counter, telling, closing, flow>>

Ended(i) == \A c \in Client : link[c] # i

\* disconnected: the event, whose listeners may send while the socket is routed.
Disconnected(i) ==
  /\ AtLoop /\ i \in socks \ closing /\ Ended(i) /\ toServer[i] = <<>>
  /\ announced' = announced \ {i}
  /\ telling' = i
  /\ UNCHANGED <<configVars, clientVars, counter, pending, socks, closing, flow>>

\* Mutant of DisconnectedTold: the local server forgets to erase the socket.
ToldKept ==
  /\ ~AtLoop
  /\ telling' = 0
  /\ closing' = closing \union {telling}
  /\ UNCHANGED <<configVars, clientVars, counter, pending, socks, announced, flow>>

\* The listeners have returned: a local socket leaves the map at once; a
\* websocket leaves it when it is destroyed.
DisconnectedTold ==
  /\ ~AtLoop
  /\ telling' = 0
  /\ closing' = closing \union {telling}
  /\ socks' = IF transport = "local" THEN socks \ {telling} ELSE socks
  /\ UNCHANGED <<configVars, clientVars, counter, pending, announced, flow>>

\* The event loop deletes the socket; QWebSocket::destroyed erases it.
Deleted(i) ==
  /\ AtLoop /\ i \in closing
  /\ closing' = closing \ {i}
  /\ socks' = IF transport = "ws" THEN socks \ {i} ELSE socks
  /\ UNCHANGED <<configVars, clientVars, counter, pending, telling, announced, flow>>

\* A map with the id of a client goes to that client, whether its socket still
\* lives or not; everything else goes to all of them.
Targets(to) == IF perClient /\ to \in socks THEN {to} ELSE socks

\* Server::OnMsg.
ServerOnMsg(to) ==
  LET m == Msg(to, sent + 1) IN
  /\ sent < MaxMsgs
  /\ sent' = sent + 1
  /\ toClient' = [i \in Id |-> IF i \in Targets(to) /\ ~Ended(i) THEN Append(toClient[i], m)
                               ELSE toClient[i]]
  /\ UNCHANGED <<configVars, clientVars, serverVars, toServer, emitted, received>>

\* Client::OnMsg: write() on a socket that is not connected is lost.
ClientOnMsg(c, m) ==
  /\ state[c] # "absent"
  /\ sent < MaxMsgs
  /\ sent' = sent + 1
  /\ toServer' = IF link[c] = 0 THEN toServer
                 ELSE [toServer EXCEPT ![link[c]] = Append(@, IF m = Bad THEN Msg(-1, 0) ELSE Msg(0, sent + 1))]
  /\ UNCHANGED <<configVars, clientVars, serverVars, toClient, emitted, received>>

\* readyRead or messageReceived at the server: a local server drops what does
\* not decode, a websocket server emits an invalid value for it.
Read(i) ==
  LET m == Head(toServer[i])
      tag == IF perClient THEN i ELSE 0
  IN
  /\ AtLoop /\ i \in socks
  /\ toServer[i] # <<>>
  /\ toServer' = [toServer EXCEPT ![i] = Tail(@)]
  /\ emitted' = IF m.to = -1 /\ transport = "local" THEN emitted ELSE emitted \union {<<tag, m>>}
  /\ UNCHANGED <<configVars, clientVars, serverVars, toClient, received, sent>>

ClientRead(c) ==
  /\ link[c] # 0
  /\ toClient[link[c]] # <<>>
  /\ received' = [received EXCEPT ![c] = @ \union {Head(toClient[link[c]])}]
  /\ toClient' = [toClient EXCEPT ![link[c]] = Tail(@)]
  /\ UNCHANGED <<configVars, clientVars, serverVars, toServer, emitted, sent>>

Next ==
  \/ \E c \in Client : CreateClient(c) \/ Established(c) \/ Unconnected(c) \/ Reopen(c) \/ ClientRead(c)
  \/ \E c \in Client, m \in {"good", Bad} : ClientOnMsg(c, m)
  \/ \E i \in Id : Accept(i) \/ Disconnected(i) \/ Deleted(i) \/ Read(i)
  \/ DisconnectedTold
  \/ \E to \in 0..counter : ServerOnMsg(to)

Fairness ==
  /\ \A c \in Client : WF_vars(Established(c)) /\ WF_vars(Reopen(c)) /\ WF_vars(ClientRead(c))
  /\ \A i \in Id : WF_vars(Accept(i)) /\ WF_vars(Disconnected(i)) /\ WF_vars(Deleted(i))
                   /\ WF_vars(Read(i))
  /\ WF_vars(DisconnectedTold)

Spec == Init /\ [][Next]_vars /\ Fairness

-----------------------------------------------------------------------------
(* Properties                                                              *)

\* Where an id is: waiting to be accepted, routed, or closing; ids are not used
\* again, and a closing connection has been withdrawn.
IdsPlaced ==
  /\ transport \in {"local", "ws"}
  /\ counter \in Nat
  /\ pending \union socks \union closing \subseteq 1..counter
  /\ pending \intersect (socks \union closing) = {}
  /\ closing \intersect announced = {}
  /\ telling = 0 \/ telling \in socks \ announced

\* What the script was told is what it can reach: an id it was told of and not
\* told to forget is routed to that connection, and an id that is routed and was
\* withdrawn is the one the listeners are being told of, or, of a websocket, one
\* about to be deleted.
EventsMatchRouting ==
  /\ announced \subseteq socks
  /\ socks \ announced \subseteq closing \union {telling}
  /\ transport = "local" => socks \ announced \subseteq {telling}

\* The inductive invariant: EventsMatchRouting needs to know where the ids are.
SocketsInv == IdsPlaced /\ EventsMatchRouting

\* Once connections stop failing, every client is connected again and the
\* server routes to the connections the clients have and to no old one.
ComesBack ==
  <>[](LET created == {c \in Client : state[c] # "absent"} IN
       /\ \A c \in created : state[c] = "connected"
       /\ socks = {link[c] : c \in created})
=============================================================================
