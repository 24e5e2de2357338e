----------------------------- MODULE Connection -----------------------------
(***************************************************************************)
(* The life of a connection: the handshake of runtime.cpp and server.cpp,  *)
(* the accept loop of main.cpp, the XrInstance of the client (entry.cpp)   *)
(* and of the server (server.cpp), and the polling of events.              *)
(*                                                                         *)
(* A client is a process: it connects when the loader negotiates with the  *)
(* runtime, and its end closes the connection.  The server serves one      *)
(* client at a time; the others wait in the listen queue of the socket.    *)
(***************************************************************************)
EXTENDS Integers, Sequences

CONSTANTS
  Clients,        \* processes
  Magics,         \* what a client may send as XRTRANSPORT_MAGIC
  Versions,       \* what its OpenXR and protocol versions may be
  ServerMagic,    \* the server's magic
  ServerVersion,  \* the server's versions
  Uninitialised,  \* what saved_instance may hold in a new Server
  Known,          \* events the serializer was built for
  Unknown,        \* other events of the runtime
  MaxInstances,   \* bound: instances the runtime creates
  MaxEvents       \* bound: events the runtime raises

Null == 0
Instances == 1..MaxInstances

ASSUME ClientsAssumption == Clients # {}
ASSUME UninitialisedAssumption ==
  Null \in Uninitialised /\ Uninitialised \cap Instances = {}
ASSUME EventsAssumption == Known \cap Unknown = {}
ASSUME BoundsAssumption == MaxInstances \in Nat /\ MaxEvents \in Nat

VARIABLES
  backlog,      \* clients in the listen queue
  client,       \* [Clients -> client records]
  to_server,    \* [Clients -> messages on their way to the server]
  to_client,    \* [Clients -> messages on their way to the client]
  client_open,  \* [Clients -> is the client's end of the stream open?]
  server_open,  \* [Clients -> is the server's end of the stream open?]
  server,       \* the server
  live,         \* instances of the runtime
  created,      \* instances the runtime has created
  pending,      \* events the runtime has raised and not yet returned
  raised,       \* history: events raised since the instance was created
  bogus         \* history: was xrDestroyInstance called with a handle that is not live?

streams == <<to_server, to_client, client_open, server_open>>
runtime == <<live, created, pending, raised, bogus>>
vars == <<backlog, client, streams, server, runtime>>

\* at: where the client stands.  magic, version: its build's.  saved: saved_instance.
\* held: the instance that the
\* application holds and has not destroyed.  events: history, the events it got.
NewClient ==
  [at : {"start"}, magic : Magics, version : Versions, saved : {Null}, held : {Null},
   events : {<<>>}]
Handshaking == {"magic", "versions", "verdict"}
Calling == {"creating", "destroying", "polling"}
\* Turned away, or ended by itself.
Gone == {"gone", "quit"}

\* at: where the server stands.  client: whom it serves.  theirs: the client's versions.
\* saved: saved_instance.  reply: the answer of its handler, about to be started ("reply")
\* or to be flushed ("sending").  closed: has its producer closed the transport?
Listening == [at |-> "accept", client |-> CHOOSE c \in Clients : TRUE, theirs |-> 0,
              saved |-> Null, reply |-> <<"none", 0>>, closed |-> FALSE]
Running == {"run", "reply", "sending"}

-----------------------------------------------------------------------------
(* Streams.                                                                *)

ToServer(c, m) == to_server' = [to_server EXCEPT ![c] = Append(@, m)]
ToClient(c, m) == to_client' = [to_client EXCEPT ![c] = Append(@, m)]
FromServer(c) == to_client' = [to_client EXCEPT ![c] = Tail(@)]
FromClient(c) == to_server' = [to_server EXCEPT ![c] = Tail(@)]
ClientCloses(c) == client_open' = [client_open EXCEPT ![c] = FALSE]
ServerCloses(c) == server_open' = [server_open EXCEPT ![c] = FALSE]

At(c, l) == client[c].at = l
IsUp(c) == client[c].at \in {"up"} \cup Calling
Go(c, l) == client' = [client EXCEPT ![c].at = l]

\* The client waits for an answer and the next message is m.
Hears(c, l) == At(c, l) /\ to_client[c] # <<>>
\* The server waits for its client at l and a message is there.
Serving(l) == server.at = l /\ to_server[server.client] # <<>>
Step(l) == server' = [server EXCEPT !.at = l]

-----------------------------------------------------------------------------
(* The client's side of the handshake, in get_runtime.                     *)

\* Mutant of Connect: a client that waits for its handshake connects again.
Reconnects(c) ==
  /\ client[c].at \in {"start", "magic"} /\ server.at # "dead" /\ Len(backlog) < 3
  /\ backlog' = Append(backlog, c)
  /\ ToServer(c, <<"magic", client[c].magic>>)
  /\ Go(c, "magic")
  /\ UNCHANGED <<to_client, client_open, server_open, server, runtime>>

Connect(c) ==
  /\ At(c, "start") /\ server.at # "dead"
  /\ backlog' = Append(backlog, c)
  /\ ToServer(c, <<"magic", client[c].magic>>)
  /\ Go(c, "magic")
  /\ UNCHANGED <<to_client, client_open, server_open, server, runtime>>

\* A failed handshake throws out of xrNegotiateLoaderRuntimeInterface.
Refuse(c) == ClientCloses(c) /\ Go(c, "gone")

\* So does a connection that nobody accepts: the server has terminated.
ConnectRefused(c) ==
  /\ At(c, "start") /\ server.at = "dead"
  /\ Refuse(c)
  /\ UNCHANGED <<backlog, to_server, to_client, server_open, server, runtime>>

ClientMagic(c) ==
  /\ Hears(c, "magic")
  /\ FromServer(c)
  /\ IF Head(to_client[c])[2] = client[c].magic
     THEN /\ ToServer(c, <<"versions", client[c].version>>)
          /\ Go(c, "versions")
          /\ UNCHANGED client_open
     ELSE Refuse(c) /\ UNCHANGED to_server
  /\ UNCHANGED <<backlog, server_open, server, runtime>>

\* Mutant of ClientVersions: the client does not wait for the server's verdict.
SkipsVerdict(c) ==
  /\ Hears(c, "versions")
  /\ FromServer(c)
  /\ LET ok == Head(to_client[c])[2] = client[c].version IN
     /\ ToServer(c, <<"ok", IF ok THEN 1 ELSE 0>>)
     /\ IF ok THEN Go(c, "up") /\ UNCHANGED client_open ELSE Refuse(c)
  /\ UNCHANGED <<backlog, server_open, server, runtime>>

ClientVersions(c) ==
  /\ Hears(c, "versions")
  /\ FromServer(c)
  /\ LET ok == Head(to_client[c])[2] = client[c].version IN
     /\ ToServer(c, <<"ok", IF ok THEN 1 ELSE 0>>)
     /\ IF ok THEN Go(c, "verdict") /\ UNCHANGED client_open ELSE Refuse(c)
  /\ UNCHANGED <<backlog, server_open, server, runtime>>

ClientVerdict(c) ==
  /\ Hears(c, "verdict")
  /\ FromServer(c)
  /\ IF Head(to_client[c])[2] = 1
     THEN Go(c, "up") /\ UNCHANGED client_open
     ELSE Refuse(c)
  /\ UNCHANGED <<backlog, to_server, server_open, server, runtime>>

-----------------------------------------------------------------------------
(* The server's side, and the loop of main.                                *)

Accept ==
  /\ server.at = "accept" /\ backlog # <<>>
  /\ server' = [Listening EXCEPT !.at = "magic", !.client = Head(backlog)]
  /\ backlog' = Tail(backlog)
  /\ UNCHANGED <<client, streams, runtime>>

\* do_handshake returned false, or an exception was caught: try the next client.
TryAgain(c) == ServerCloses(c) /\ server' = Listening

CheckMagic ==
  /\ Serving("magic")
  /\ LET c == server.client IN
     /\ FromClient(c)
     /\ IF Head(to_server[c])[2] = ServerMagic
        THEN ToClient(c, <<"magic", ServerMagic>>) /\ Step("versions") /\ UNCHANGED server_open
        ELSE TryAgain(c) /\ UNCHANGED to_client
  /\ UNCHANGED <<backlog, client, client_open, runtime>>

ExchangeVersions ==
  /\ Serving("versions")
  /\ LET c == server.client IN
     /\ FromClient(c)
     /\ ToClient(c, <<"versions", ServerVersion>>)
     /\ server' = [server EXCEPT !.at = "verdict", !.theirs = Head(to_server[c])[2]]
  /\ UNCHANGED <<backlog, client, client_open, server_open, runtime>>

\* A Server object is constructed when both sides agree; its saved_instance is not set.
Verdict ==
  /\ Serving("verdict")
  /\ LET c == server.client
         ok == server.theirs = ServerVersion
     IN /\ FromClient(c)
        /\ IF Head(to_server[c])[2] = 0
           THEN TryAgain(c) /\ UNCHANGED to_client
           ELSE /\ ToClient(c, <<"ok", IF ok THEN 1 ELSE 0>>)
                /\ IF ok
                   THEN /\ \E h \in Uninitialised :
                             server' = [server EXCEPT !.at = "run", !.saved = h]
                        /\ UNCHANGED server_open
                   ELSE TryAgain(c)
  /\ UNCHANGED <<backlog, client, client_open, runtime>>

\* Mutant of HandshakeEof: it is noticed in the first read only.
EofInMagicOnly ==
  /\ server.at = "magic"
  /\ to_server[server.client] = <<>> /\ ~client_open[server.client]
  /\ TryAgain(server.client)
  /\ UNCHANGED <<backlog, client, to_server, to_client, client_open, runtime>>

\* A read of the handshake meets the end of the stream.
HandshakeEof ==
  /\ server.at \in Handshaking
  /\ to_server[server.client] = <<>> /\ ~client_open[server.client]
  /\ TryAgain(server.client)
  /\ UNCHANGED <<backlog, client, to_server, to_client, client_open, runtime>>

-----------------------------------------------------------------------------
(* The application.                                                        *)

\* xrCreateInstanceImpl: there is one instance in the life of the process, and
\* xrDestroyInstance does not reset saved_instance.
CreateInstance(c) ==
  /\ At(c, "up") /\ client[c].saved = Null
  /\ ToServer(c, <<"create", 0>>)
  /\ Go(c, "creating")
  /\ UNCHANGED <<backlog, to_client, client_open, server_open, server, runtime>>

\* rpc::xrCreateInstance returns.
Created(c) ==
  /\ Hears(c, "creating")
  /\ LET h == Head(to_client[c])[2] IN
     client' = [client EXCEPT ![c] =
       IF h # Null
       THEN [@ EXCEPT !.at = "up", !.saved = h, !.held = h]
       ELSE [@ EXCEPT !.at = "up"]]
  /\ FromServer(c)
  /\ UNCHANGED <<backlog, to_server, client_open, server_open, server, runtime>>

\* The generated stub of xrDestroyInstance.
DestroyInstance(c) ==
  /\ At(c, "up") /\ client[c].held # Null
  /\ ToServer(c, <<"destroy", client[c].held>>)
  /\ client' = [client EXCEPT ![c].at = "destroying", ![c].held = Null]
  /\ UNCHANGED <<backlog, to_client, client_open, server_open, server, runtime>>

Destroyed(c) ==
  /\ Hears(c, "destroying")
  /\ FromServer(c)
  /\ Go(c, "up")
  /\ UNCHANGED <<backlog, to_server, client_open, server_open, server, runtime>>

\* xrPollEventImpl.
PollEvent(c) ==
  /\ At(c, "up") /\ client[c].held # Null
  /\ ToServer(c, <<"poll", 0>>)
  /\ Go(c, "polling")
  /\ UNCHANGED <<backlog, to_client, client_open, server_open, server, runtime>>

Polled(c) ==
  /\ Hears(c, "polling")
  /\ LET m == Head(to_client[c]) IN
     client' = [client EXCEPT ![c].at = "up",
                              ![c].events = IF m[1] = "event" THEN Append(@, m[2]) ELSE @]
  /\ FromServer(c)
  /\ UNCHANGED <<backlog, to_server, client_open, server_open, server, runtime>>

\* The connection ended.  A stub catches the exception and returns an error; neither
\* xrPollEventImpl nor xrNegotiateLoaderRuntimeInterface does, and the process dies.
ClientEof(c) ==
  /\ client[c].at \in Handshaking \cup Calling
  /\ to_client[c] = <<>> /\ ~server_open[c]
  /\ IF client[c].at \in {"creating", "destroying"}
     THEN Go(c, "up") /\ UNCHANGED client_open
     ELSE Refuse(c)
  /\ UNCHANGED <<backlog, to_server, to_client, server_open, server, runtime>>

\* The process ends, in good order or not.
Quit(c) ==
  /\ client[c].at \notin {"start"} \cup Gone
  /\ ClientCloses(c) /\ Go(c, "quit")
  /\ UNCHANGED <<backlog, to_server, to_client, server_open, server, runtime>>

-----------------------------------------------------------------------------
(* The handlers of the server, and the end of Server::run.                 *)

\* The producer meets the end of the stream and closes the transport, at any moment after
\* the client has gone; the consumer may be in a handler.
MeetEof ==
  /\ server.at \in Running /\ ~server.closed /\ ~client_open[server.client]
  /\ server' = [server EXCEPT !.closed = TRUE]
  /\ UNCHANGED <<backlog, client, streams, runtime>>

\* The consumer takes no message of a closed transport.
Asked(what) ==
  Serving("run") /\ ~server.closed /\ Head(to_server[server.client])[1] = what
Reply(r) == server' = [server EXCEPT !.at = "reply", !.reply = r]

\* Mutant of HandleCreate: saved_instance is not set.
ForgetsInstance ==
  /\ Asked("create")
  /\ FromClient(server.client)
  /\ created < MaxInstances
  /\ created' = created + 1
  /\ live' = live \cup {created'}
  /\ Reply(<<"created", created'>>)
  /\ pending' = <<>> /\ raised' = <<>>
  /\ UNCHANGED <<backlog, client, to_client, client_open, server_open, bogus>>

\* create_instance_handler.
HandleCreate ==
  /\ Asked("create")
  /\ FromClient(server.client)
  /\ \/ /\ Reply(<<"created", Null>>)
        /\ UNCHANGED <<live, created, pending, raised>>
     \/ /\ created < MaxInstances
        /\ created' = created + 1
        /\ live' = live \cup {created'}
        /\ server' = [server EXCEPT !.at = "reply", !.saved = created',
                                    !.reply = <<"created", created'>>]
        /\ pending' = <<>> /\ raised' = <<>>
  /\ UNCHANGED <<backlog, client, to_client, client_open, server_open, bogus>>

\* destroy_instance_handler.
HandleDestroy ==
  /\ Asked("destroy")
  /\ FromClient(server.client)
  /\ LET h == Head(to_server[server.client])[2] IN
     IF h = server.saved
     THEN /\ live' = live \ {h}
          /\ bogus' = (bogus \/ h \notin live)
          /\ server' = [server EXCEPT !.at = "reply", !.saved = Null,
                                      !.reply = <<"destroyed", 1>>]
     ELSE Reply(<<"destroyed", 0>>) /\ UNCHANGED <<live, bogus>>
  /\ UNCHANGED <<backlog, client, to_client, client_open, server_open, created, pending, raised>>

\* Mutant of HandlePoll: what follows the event is dropped with what precedes it.
DropsTheRest ==
  /\ Asked("poll")
  /\ FromClient(server.client)
  /\ pending' = <<>>
  /\ LET known == SelectSeq(pending, LAMBDA e : e \in Known) IN
     Reply(IF known = <<>> THEN <<"unavailable", 0>> ELSE <<"event", Head(known)>>)
  /\ UNCHANGED <<backlog, client, to_client, client_open, server_open, live, created, raised, bogus>>

\* The POLL_EVENT handler: events that cannot be serialized are dropped.
HandlePoll ==
  /\ Asked("poll")
  /\ FromClient(server.client)
  /\ LET first == {i \in DOMAIN pending :
                     pending[i] \in Known /\ \A j \in 1..i - 1 : pending[j] \in Unknown}
     IN \/ /\ first = {}
           /\ pending' = <<>>
           /\ Reply(<<"unavailable", 0>>)
        \/ \E i \in first :
             /\ pending' = SubSeq(pending, i + 1, Len(pending))
             /\ Reply(<<"event", pending[i]>>)
  /\ UNCHANGED <<backlog, client, to_client, client_open, server_open, live, created, raised, bogus>>

\* The handler starts its answer.
StartReply ==
  /\ server.at = "reply" /\ ~server.closed
  /\ Step("sending")
  /\ UNCHANGED <<backlog, client, streams, runtime>>

\* start_message throws when the transport is closed; dispatch_to_handler logs it.
ReplyClosed ==
  /\ server.at = "reply" /\ server.closed
  /\ Step("run")
  /\ UNCHANGED <<backlog, client, streams, runtime>>

\* The flush succeeds; with the client gone, what it wrote stays in the socket.
SendReply ==
  /\ server.at = "sending" /\ ~server.closed
  /\ IF client_open[server.client]
     THEN ToClient(server.client, server.reply) ELSE UNCHANGED to_client
  /\ Step("run")
  /\ UNCHANGED <<backlog, client, to_server, client_open, server_open, runtime>>

\* The flush throws: the producer has closed the transport, or the peer has reset the
\* stream.  ~MessageLockOut flushes again, throws out of a destructor, and std::terminate
\* ends the server: its streams and its listen queue are gone, the instance is not destroyed.
FlushFails ==
  /\ server.at = "sending" /\ ~client_open[server.client]
  /\ Step("dead")
  /\ server_open' = [c \in Clients |-> FALSE]
  /\ backlog' = <<>>
  /\ UNCHANGED <<client, to_server, to_client, client_open, runtime>>

\* Mutant of EndRun: run() leaves the instance to the client.
LeavesInstance ==
  /\ server.at = "run" /\ server.closed
  /\ TryAgain(server.client)
  /\ UNCHANGED <<backlog, client, to_server, to_client, client_open, runtime>>

\* The threads of a closed transport end, whatever is still queued; run() then destroys
\* the instance if the client did not.
EndRun ==
  /\ server.at = "run" /\ server.closed
  /\ IF server.saved # Null
     THEN /\ live' = live \ {server.saved}
          /\ bogus' = (bogus \/ server.saved \notin live)
     ELSE UNCHANGED <<live, bogus>>
  /\ TryAgain(server.client)
  /\ UNCHANGED <<backlog, client, to_server, to_client, client_open, created, pending, raised>>

\* The runtime raises an event.
Raise(e) ==
  /\ live # {} /\ Len(raised) < MaxEvents
  /\ pending' = Append(pending, e)
  /\ raised' = Append(raised, e)
  /\ UNCHANGED <<backlog, client, streams, server, live, created, bogus>>

Init ==
  /\ backlog = <<>>
  /\ client \in [Clients -> NewClient]
  /\ to_server = [c \in Clients |-> <<>>]
  /\ to_client = [c \in Clients |-> <<>>]
  /\ client_open = [c \in Clients |-> TRUE]
  /\ server_open = [c \in Clients |-> TRUE]
  /\ server = Listening
  /\ live = {} /\ created = 0 /\ pending = <<>> /\ raised = <<>>
  /\ bogus = FALSE

\* What a client does by itself once it has begun.
ClientStep(c) ==
  ClientMagic(c) \/ ClientVersions(c) \/ ClientVerdict(c)
    \/ Created(c) \/ Destroyed(c) \/ Polled(c) \/ ClientEof(c)

AppStep(c) ==
  Connect(c) \/ ConnectRefused(c) \/ CreateInstance(c) \/ DestroyInstance(c) \/ PollEvent(c)

ServerStep ==
  Accept \/ CheckMagic \/ ExchangeVersions \/ Verdict \/ HandshakeEof
    \/ MeetEof \/ HandleCreate \/ HandleDestroy \/ HandlePoll
    \/ StartReply \/ ReplyClosed \/ SendReply \/ FlushFails \/ EndRun

Next ==
  \/ \E c \in Clients : ClientStep(c) \/ AppStep(c) \/ Quit(c)
  \/ ServerStep
  \/ \E e \in Known \cup Unknown : Raise(e)

Spec == Init /\ [][Next]_vars

\* Both programs run; an application that is up ends some day.
Fairness ==
  /\ WF_vars(ServerStep)
  /\ \A c \in Clients : WF_vars(ClientStep(c)) /\ WF_vars(IsUp(c) /\ Quit(c))
FairSpec == Spec /\ Fairness

-----------------------------------------------------------------------------
(* Properties.                                                             *)

\* Types, and a client waits for its handshake at most once.
TypeOK ==
  /\ \A i, j \in DOMAIN backlog : backlog[i] = backlog[j] => i = j
  /\ \A c \in Clients :
       /\ client[c].at \in {"start", "up"} \cup Gone \cup Handshaking \cup Calling
       /\ client[c].saved \in {Null} \cup Instances
       /\ client[c].held \in {Null} \cup Instances
  /\ server.at \in {"accept", "dead"} \cup Running \cup Handshaking
  /\ server.closed \in BOOLEAN
  /\ server.client \in Clients
  /\ server.saved \in Uninitialised \cup Instances
  /\ live \subseteq Instances /\ created \in 0..MaxInstances
  /\ bogus \in BOOLEAN

\* The two sides decide alike: a client whose do_handshake returned true is the client
\* whose Server object is running, and their magic and versions are equal.
HandshakeAgrees ==
  \A c \in Clients : IsUp(c) =>
    /\ server.client = c /\ server.at \in Running
    /\ client[c].magic = ServerMagic /\ client[c].version = ServerVersion

\* Whatever the last client did, and wherever it stopped (an instance whose creation was
\* never answered included), a server that comes back to its accept loop has left no
\* instance in the runtime.  A server comes back unless a flush to a client that is gone
\* terminates it; then it leaves the instance of that client, if there is one, and no other.
CleanSlate ==
  /\ server.at \in {"accept"} \cup Handshaking => live = {}
  /\ server.at = "dead" => ~client_open[server.client] /\ live = {server.saved} \cap Instances

\* The instance an application holds is the one of the runtime, and the one the server
\* uses for its own calls (events, clock synchronization).
HeldIsLive ==
  \A c \in Clients : IsUp(c) /\ client[c].held # Null =>
    live = {client[c].held} /\ server.saved = client[c].held

\* The known events of s, in their order.
Deliverable(s) ==
  LET kept[i \in 0..Len(s)] ==
        IF i = 0 THEN <<>>
        ELSE IF s[i] \in Known THEN Append(kept[i - 1], s[i]) ELSE kept[i - 1]
  IN kept[Len(s)]

\* Between two calls of the application, the events it got from xrPollEvent and the ones
\* that still wait in the runtime are the known events in the order in which they were
\* raised: the server's loop skips the others and loses none.
EventsInOrder ==
  \A c \in Clients : At(c, "up") /\ client[c].held # Null =>
    client[c].events \o Deliverable(pending) = Deliverable(raised)

\* Provided that the clients before it end, a client that connects is served; if it does not
\* end by itself, it is turned away only for its magic or its versions, or because the server
\* has been terminated by the death of another client in the middle of a call.
EveryoneIsServed ==
  \A c \in Clients : At(c, "magic") ~>
    \/ IsUp(c) \/ At(c, "quit")
    \/ /\ At(c, "gone")
       /\ \/ client[c].magic # ServerMagic \/ client[c].version # ServerVersion
          \/ server.at = "dead"

\* server.cpp: "Once handler loop terminates, destroy the instance if the client didn't".
\* The runtime's xrDestroyInstance is called with live instances only.
DestroysOnlyInstances == ~bogus
=============================================================================
