------------------------------ MODULE Programs ------------------------------
(***************************************************************************)
(* The event loops of src/src/main.rs: run_client for any number of        *)
(* clients and run_server with its table of connections, joined by a       *)
(* network that may lose datagrams.                                        *)
(*                                                                         *)
(* Of a connection the loops see how many packets its send will yield, and *)
(* whether quiche has it established or closed.  quiche and the layers of  *)
(* core.rs are reduced to this: a datagram, or a timer, makes a connection *)
(* yield one packet more, or not; any datagram may complete the handshake; *)
(* a timer may close the connection.  Between two awaits nothing of an     *)
(* iteration can be cancelled, so a client's iteration is one step; the    *)
(* server's is one step per connection.                                    *)
(***************************************************************************)
EXTENDS Integers, Sequences, FiniteSets

CONSTANTS
  Clients,      \* client programs, named by their address
  Faulty,       \* clients for whose connection the server's send may fail
  None,         \* no entry in the table
  MaxMade,      \* bound: packets all connections ever make
  MaxErrors     \* bound: receive calls that fail

ASSUME ClientsAssumption == Faulty \subseteq Clients /\ None \notin Clients
ASSUME ProgramBounds == MaxMade \in Nat /\ MaxErrors \in Nat

VARIABLES
  client,    \* per client: [pc, out, established, request_sent]
  inbox,     \* the server's UDP socket: source addresses, in order
  mail,      \* per client: datagrams in its socket
  clients,   \* the server's table: [out, closed], or None
  server,    \* "recv", "serve", "sleep" or "exit"
  todo,      \* addresses the loop over the table has still to visit
  made, errors

vars == <<client, inbox, mail, clients, server, todo, made, errors>>

Init ==
  /\ client = [c \in Clients |->
                 [pc |-> "start", out |-> 1, established |-> FALSE, request_sent |-> FALSE]]
  /\ inbox = <<>> /\ mail = [c \in Clients |-> 0]
  /\ clients = [c \in Clients |-> None]
  /\ server = "recv" /\ todo = {}
  /\ made = Cardinality(Clients) /\ errors = 0

(* quiche: a connection yields n packets more. *)
Makes(n) == /\ made + n <= MaxMade
            /\ made' = made + n

(* The network: of n datagrams some arrive. *)
Repeat(c, n) == [j \in 1 .. n |-> c]

-----------------------------------------------------------------------------
(* run_client *)

(* The first packet leaves before the loop is entered. *)
ClientStart(c) ==
  /\ client[c].pc = "start"
  /\ client' = [client EXCEPT ![c].pc = "run", ![c].out = 0]
  /\ \E n \in 0 .. client[c].out : inbox' = inbox \o Repeat(c, n)
  /\ UNCHANGED <<mail, clients, server, todo, made, errors>>

(* A datagram makes conn.recv and poll_http3 yield a packet more, or not. *)
Replies(got) == 0 .. got

(* The request is tried in every iteration after the handshake until quiche*)
(* has taken it.  It is a packet more to send.                             *)
Request(c, up) ==
  IF up /\ ~client[c].request_sent
  THEN {[flag |-> FALSE, n |-> 0], [flag |-> TRUE, n |-> 1]}
  ELSE {[flag |-> client[c].request_sent, n |-> 0]}

(* What is left to send when conn.send has yielded some of its packets and *)
(* then nothing, or failed: a packet of the FEC queue that does not fit    *)
(* the buffer is gone, an error of quiche takes none.                      *)
Left(out, sent) == IF sent = out THEN {0} ELSE {out - sent - 1, out - sent}

(* One iteration: at most one datagram is read, the request may go out,    *)
(* what conn.send yields until it fails is sent, the timers run.  (If      *)
(* reading the socket fails the iteration ends there and changes nothing.) *)
ClientIterate(c) ==
  /\ client[c].pc = "run"
  /\ \E got \in {0, 1}, up \in BOOLEAN : \E reply \in Replies(got) :
       /\ got <= mail[c]
       /\ up => client[c].established \/ got = 1
       /\ client[c].established => up
       /\ mail' = [mail EXCEPT ![c] = @ - got]
       /\ \E req \in Request(c, up), again \in {0, 1} :
            LET yielded == client[c].out + reply + req.n
            IN  \E sent \in 0 .. yielded : \E left \in Left(yielded, sent) :
                  /\ Makes(reply + req.n + again)
                  /\ client' = [client EXCEPT ![c] =
                                  [pc |-> "run", out |-> left + again, established |-> up,
                                   request_sent |-> req.flag]]
                  /\ \E n \in 0 .. sent : inbox' = inbox \o Repeat(c, n)
  /\ UNCHANGED <<clients, server, todo, errors>>

(* Ctrl-C: quiche is told to close, and the program ends.                  *)
ClientStops(c) ==
  /\ client[c].pc = "run"
  /\ client' = [client EXCEPT ![c].pc = "done"]
  /\ UNCHANGED <<inbox, mail, clients, server, todo, made, errors>>

-----------------------------------------------------------------------------
(* run_server *)

(* A datagram from an address without an entry creates a connection.       *)
Entry(c) == IF clients[c] = None THEN [out |-> 0, closed |-> FALSE] ELSE clients[c]
Known == {c \in Clients : clients[c] # None}

RecvOk ==
  /\ server = "recv" /\ inbox # <<>>
  /\ inbox' = Tail(inbox)
  /\ \E n \in {0, 1} :
       /\ Makes(n)
       /\ clients' = [clients EXCEPT ![Head(inbox)] = [Entry(Head(inbox)) EXCEPT !.out = @ + n]]
  /\ server' = "serve" /\ todo' = Known \cup {Head(inbox)}
  /\ UNCHANGED <<client, mail, errors>>

(* conn.recv fails: the iteration is left at once (continue). *)
RecvRejected ==
  /\ server = "recv" /\ inbox # <<>> /\ errors < MaxErrors
  /\ errors' = errors + 1
  /\ inbox' = Tail(inbox)
  /\ clients' = [clients EXCEPT ![Head(inbox)] = Entry(Head(inbox))]
  /\ UNCHANGED <<client, mail, server, todo, made>>

RecvWouldBlock ==
  /\ server = "recv" /\ inbox = <<>>
  /\ server' = "serve" /\ todo' = Known
  /\ UNCHANGED <<client, inbox, mail, clients, made, errors>>

(* Reading the socket fails: the loop, and the program, end. *)
RecvFails ==
  /\ server = "recv" /\ errors < MaxErrors
  /\ errors' = errors + 1
  /\ server' = "exit"
  /\ UNCHANGED <<client, inbox, mail, clients, todo, made>>

(* One entry of the table: conn.send until it yields nothing or fails,     *)
(* then statistics and timers.  For a faulty client an error that takes no *)
(* packet may come back every time; for the others it passes in the end,   *)
(* and the model has only those that take the packet.                      *)
LeftAt(c, sent) ==
  {left \in Left(clients[c].out, sent) :
     c \in Faulty \/ left = 0 \/ left < clients[c].out - sent}

Served(c, sent, left, again, closes) ==
  /\ left \in LeftAt(c, sent)
  /\ Makes(again)
  /\ clients' = [clients EXCEPT ![c] = [out |-> left + again, closed |-> @.closed \/ closes]]
  /\ \E n \in 0 .. sent : mail' = [mail EXCEPT ![c] = @ + n]

ServeBreaksOut(c) ==         \* mutant: an error ends the loop over the table
  /\ server = "serve" /\ c \in todo
  /\ \E sent, left \in 0 .. clients[c].out, again \in {0, 1}, closes \in BOOLEAN :
       /\ Served(c, sent, left, again, closes)
       /\ todo' = IF sent = clients[c].out THEN todo \ {c} ELSE {}
  /\ UNCHANGED <<client, inbox, server, errors>>

Serve(c) ==
  /\ server = "serve" /\ c \in todo
  /\ todo' = todo \ {c}
  /\ \E sent, left \in 0 .. clients[c].out, again \in {0, 1}, closes \in BOOLEAN :
       Served(c, sent, left, again, closes)
  /\ UNCHANGED <<client, inbox, server, errors>>

(* retain: closed connections leave the table. *)
RetainBusy ==                \* mutant: those with something to send stay
  /\ server = "serve" /\ todo = {}
  /\ clients' = [c \in Clients |->
                   IF clients[c] # None /\ clients[c].closed /\ clients[c].out = 0
                   THEN None ELSE clients[c]]
  /\ server' = "sleep"
  /\ UNCHANGED <<client, inbox, mail, todo, made, errors>>

Retain ==
  /\ server = "serve" /\ todo = {}
  /\ clients' = [c \in Clients |->
                   IF clients[c] # None /\ clients[c].closed THEN None ELSE clients[c]]
  /\ server' = "sleep"
  /\ UNCHANGED <<client, inbox, mail, todo, made, errors>>

WakeServes ==                \* mutant: the socket is read before the loop only
  /\ server = "sleep"
  /\ server' = "serve" /\ todo' = Known
  /\ UNCHANGED <<client, inbox, mail, clients, made, errors>>

Wake ==
  /\ server = "sleep"
  /\ server' = "recv"
  /\ UNCHANGED <<client, inbox, mail, clients, todo, made, errors>>

(* Ctrl-C is seen when an iteration begins or sleeps: every connection is  *)
(* closed, and the program ends without another round of sends.            *)
Shutdown ==
  /\ server \in {"recv", "sleep"}
  /\ server' = "exit"
  /\ clients' = [c \in Clients |->
                   IF clients[c] = None THEN None ELSE [clients[c] EXCEPT !.closed = TRUE]]
  /\ UNCHANGED <<client, inbox, mail, todo, made, errors>>

-----------------------------------------------------------------------------
ServerStep ==
  \/ RecvOk \/ RecvRejected \/ RecvWouldBlock
  \/ (\E c \in Clients : Serve(c)) \/ Retain \/ Wake

Next ==
  \/ \E c \in Clients : ClientStart(c) \/ ClientIterate(c) \/ ClientStops(c)
  \/ ServerStep \/ RecvFails \/ Shutdown

Spec == Init /\ [][Next]_vars

(* The server's loop has no other wait than its sleep of 10 ms. *)
FairSpec == Spec /\ WF_vars(ServerStep)

-----------------------------------------------------------------------------
(* A connection that has closed leaves the table in one of the next        *)
(* iterations, even if what it has left can never be sent and datagrams    *)
(* still come from its address; unless the server ends.                    *)
ClosedLeave ==
  \A c \in Clients :
    (clients[c] # None /\ clients[c].closed)
      ~> (server = "exit" \/ clients[c] = None)

(* What a connection has to send is sent, or given up because it does not  *)
(* fit, in one of the next iterations, also if sending fails for another   *)
(* client every time; unless the connection was removed meanwhile or the   *)
(* server has ended.                                                       *)
Flushed ==
  \A c \in Clients \ Faulty :
    (clients[c] # None /\ clients[c].out > 0)
      ~> (server = "exit" \/ clients[c] = None \/ clients[c].out = 0)

(* Every datagram in the server's socket is read in the end, one by one.   *)
InboxRead == (inbox # <<>>) ~> (inbox = <<>> \/ server = "exit")
=============================================================================
