-------------------------- MODULE ConnectionProofs --------------------------
(***************************************************************************)
(* Proofs about Connection, for any number of clients, whatever versions   *)
(* they were built with, and any bounds.                                   *)
(***************************************************************************)
EXTENDS Connection, SequenceTheorems, WellFoundedInduction, TLAPS

\* The server runs, or was terminated while it did.
Ran == Running \cup {"dead"}

USE DEF Gone, Running, Ran

-----------------------------------------------------------------------------
(* The inductive invariant                                                 *)

\* Client c waits in the listen queue; the server talks to it.
Queued(c) == \E i \in DOMAIN backlog : backlog[i] = c
Served(c) == server.at \notin {"accept", "dead"} /\ server.client = c

\* A stream holds one message at most.
Small(q) == q = <<>> \/ q = <<Head(q)>>
Quiet(c) == to_server[c] = <<>> /\ to_client[c] = <<>>
Asks(c, m) == to_server[c] = <<m>> /\ to_client[c] = <<>>
Answers(c, m) == to_server[c] = <<>> /\ to_client[c] = <<m>>

\* The builds of the two sides match.
Matches(c) == client[c].magic = ServerMagic /\ client[c].version = ServerVersion

\* The answer to a creation tells the client about the instance the server saved.
TellsInstance(m) ==
  /\ m = <<"created", m[2]>>
  /\ m[2] = Null => server.saved \notin Instances
  /\ m[2] # Null => m[2] = server.saved /\ m[2] \in Instances

\* What the client knows about the server's instance when it is not creating one.
KnowsInstance(c) ==
  /\ client[c].saved = Null => client[c].held = Null /\ server.saved \notin Instances
  /\ client[c].held # Null => client[c].held = server.saved /\ server.saved \in Instances

\* A request of the client, the handler that works on it, or its answer.
InCall(c, req) ==
  \/ server.at = "run" /\ Asks(c, req)
  \/ server.at \in {"reply", "sending"} /\ Quiet(c)
  \/ server.at = "run" /\ Answers(c, server.reply)

\* How far the two sides of an open conversation are, by where the client stands.
Talk(c) ==
  /\ ~server.closed
  /\ client[c].at = "magic" =>
       \/ server.at = "magic" /\ Asks(c, <<"magic", client[c].magic>>)
       \/ /\ server.at = "versions" /\ Answers(c, <<"magic", ServerMagic>>)
  /\ client[c].at = "versions" =>
       /\ client[c].magic = ServerMagic
       /\ \/ server.at = "versions" /\ Asks(c, <<"versions", client[c].version>>)
          \/ /\ server.at = "verdict" /\ server.theirs = client[c].version
             /\ Answers(c, <<"versions", ServerVersion>>)
  /\ client[c].at = "verdict" =>
       /\ Matches(c)
       /\ \/ server.at = "verdict" /\ server.theirs = ServerVersion /\ Asks(c, <<"ok", 1>>)
          \/ server.at = "run" /\ Answers(c, <<"ok", 1>>) /\ server.saved \notin Instances
  /\ client[c].at = "up" => Matches(c) /\ server.at = "run" /\ Quiet(c) /\ KnowsInstance(c)
  /\ client[c].at = "creating" =>
       /\ Matches(c) /\ client[c].saved = Null /\ client[c].held = Null
       /\ \/ server.at = "run" /\ Asks(c, <<"create", 0>>) /\ server.saved \notin Instances
          \/ server.at \in {"reply", "sending"} /\ Quiet(c) /\ TellsInstance(server.reply)
          \/ server.at = "run" /\ Answers(c, server.reply) /\ TellsInstance(server.reply)
  /\ client[c].at = "destroying" =>
       /\ Matches(c) /\ client[c].saved # Null /\ client[c].held = Null
       /\ \/ server.at = "run" /\ to_client[c] = <<>> /\ to_server[c] # <<>>
             /\ Head(to_server[c])[1] = "destroy" /\ Small(to_server[c])
          \/ server.at \in {"reply", "sending"} /\ Quiet(c)
          \/ server.at = "run" /\ Answers(c, server.reply)
  /\ client[c].at = "polling" =>
       /\ Matches(c) /\ client[c].held # Null /\ KnowsInstance(c)
       /\ InCall(c, <<"poll", 0>>)

\* A client has not begun, waits to be accepted, talks to the server, or is done with.
Progress(c) ==
  /\ client_open[c] <=> client[c].at \notin Gone
  /\ client[c].at \in {"start", "magic", "versions", "verdict"} =>
       client[c].saved = Null /\ client[c].held = Null
  /\ client[c].at = "start" =>
       /\ ~Queued(c) /\ ~Served(c) /\ Quiet(c)
       /\ server.at # "dead" => server_open[c]
  /\ Queued(c) => /\ ~Served(c) /\ client[c].at \in {"magic"} \cup Gone
                  /\ Asks(c, <<"magic", client[c].magic>>)
  /\ Queued(c) \/ Served(c) => server_open[c]
  /\ ~Queued(c) /\ ~Served(c) /\ client[c].at # "start" =>
       client[c].at \in Gone \/ (client[c].at = "magic" /\ to_client[c] = <<>> /\ ~server_open[c])
  /\ Served(c) /\ client[c].at \notin Gone => Talk(c)
  /\ Small(to_server[c])

\* The runtime has the instance that the server saved, and no other.
OneInstance ==
  IF server.at \in Ran
  THEN /\ live = {server.saved} \cap Instances
       /\ to_server[server.client] # <<>> /\ Head(to_server[server.client])[1] = "create" =>
            server.saved \notin Instances
  ELSE live = {}

\* Only a client that has gone terminates the server.
Deserted == server.at = "dead" => ~client_open[server.client]

ClientFields == {"at", "magic", "version", "saved", "held", "events"}
ServerFields == {"at", "client", "theirs", "saved", "reply", "closed"}
Shape ==
  /\ backlog \in Seq(Clients)
  /\ DOMAIN client = Clients /\ \A c \in Clients : DOMAIN client[c] = ClientFields
  /\ DOMAIN to_server = Clients /\ DOMAIN to_client = Clients
  /\ client_open \in [Clients -> BOOLEAN] /\ server_open \in [Clients -> BOOLEAN]
  /\ DOMAIN server = ServerFields

CInv ==
  /\ TypeOK /\ Shape
  /\ OneInstance /\ Deserted
  /\ \A c \in Clients : Progress(c)

-----------------------------------------------------------------------------
(* Streams, records and the listen queue                                   *)

\* A stream with one message.
LEMMA OneMessage ==
  \A m : Append(<<>>, m) = <<m>> /\ Head(<<m>>) = m /\ Tail(<<m>>) = <<>> /\ <<m>> # <<>>
OBVIOUS

\* What Go and the assignments to the fields of a client change.
LEMMA GoFacts ==
  ASSUME Shape, NEW c \in Clients, NEW l, Go(c, l)
  PROVE  /\ client'[c].at = l /\ client'[c].magic = client[c].magic
         /\ client'[c].version = client[c].version /\ client'[c].saved = client[c].saved
         /\ client'[c].held = client[c].held
         /\ DOMAIN client' = Clients /\ \A d \in Clients : DOMAIN client'[d] = ClientFields
         /\ \A d \in Clients \ {c} : client'[d] = client[d]
BY DEF Shape, Go, ClientFields

\* Sending to the server and to the client, and receiving.
LEMMA StreamFacts ==
  ASSUME Shape, NEW c \in Clients
  PROVE  /\ \A m : ToServer(c, m) => /\ to_server'[c] = Append(to_server[c], m)
                                     /\ DOMAIN to_server' = Clients
                                     /\ \A d \in Clients \ {c} : to_server'[d] = to_server[d]
         /\ \A m : ToClient(c, m) => /\ to_client'[c] = Append(to_client[c], m)
                                     /\ DOMAIN to_client' = Clients
                                     /\ \A d \in Clients \ {c} : to_client'[d] = to_client[d]
         /\ FromServer(c) => /\ to_client'[c] = Tail(to_client[c])
                             /\ DOMAIN to_client' = Clients
                             /\ \A d \in Clients \ {c} : to_client'[d] = to_client[d]
         /\ FromClient(c) => /\ to_server'[c] = Tail(to_server[c])
                             /\ DOMAIN to_server' = Clients
                             /\ \A d \in Clients \ {c} : to_server'[d] = to_server[d]
         /\ ClientCloses(c) => /\ client_open' \in [Clients -> BOOLEAN]
                               /\ client_open'[c] = FALSE
                               /\ \A d \in Clients \ {c} : client_open'[d] = client_open[d]
         /\ ServerCloses(c) => /\ server_open' \in [Clients -> BOOLEAN]
                               /\ server_open'[c] = FALSE
                               /\ \A d \in Clients \ {c} : server_open'[d] = server_open[d]
BY DEF Shape, ToServer, ToClient, FromServer, FromClient, ClientCloses, ServerCloses

\* A message put into an empty stream is the only one there, and the only message of a
\* stream leaves it empty.
LEMMA Sends ==
  ASSUME Shape, NEW c \in Clients, NEW m, ToServer(c, m), to_server[c] = <<>>
  PROVE  to_server'[c] = <<m>>
<1>1. to_server'[c] = Append(to_server[c], m)
  BY StreamFacts
<1>2. QED
  BY <1>1, OneMessage
\* A client takes the only message it is sent.
LEMMA Receives ==
  ASSUME Shape, NEW c \in Clients, NEW m, FromServer(c), to_client[c] = <<m>>
  PROVE  to_client'[c] = <<>>
<1>1. to_client'[c] = Tail(to_client[c])
  BY StreamFacts
<1>2. QED
  BY <1>1, OneMessage

\* No client is queued twice.
Distinct == \A i, j \in DOMAIN backlog : backlog[i] = backlog[j] => i = j

\* A client that connects goes to the end of the queue.
LEMMA Enqueue ==
  ASSUME backlog \in Seq(Clients), NEW c \in Clients, backlog' = Append(backlog, c)
  PROVE  /\ backlog' \in Seq(Clients)
         /\ \A d : Queued(d)' <=> Queued(d) \/ d = c
         /\ Distinct /\ ~Queued(c) => Distinct'
<1>1. /\ Len(backlog) \in Nat /\ DOMAIN backlog = 1 .. Len(backlog)
      /\ backlog' \in Seq(Clients) /\ Len(backlog') = Len(backlog) + 1
      /\ DOMAIN backlog' = 1 .. Len(backlog) + 1
      /\ \A i \in 1 .. Len(backlog) : backlog'[i] = backlog[i]
      /\ backlog'[Len(backlog) + 1] = c
  BY LenProperties, AppendProperties
<1>2. \A d : Queued(d)' <=> Queued(d) \/ d = c
  BY <1>1 DEF Queued
<1>3. Distinct /\ ~Queued(c) => Distinct'
  BY <1>1 DEF Queued, Distinct
<1>4. QED
  BY <1>1, <1>2, <1>3

\* The client that is accepted leaves the queue, and the others stay.
LEMMA Dequeue ==
  ASSUME backlog \in Seq(Clients), backlog # <<>>, backlog' = Tail(backlog), Distinct,
         NEW h, h = Head(backlog)
  PROVE  /\ backlog' \in Seq(Clients)
         /\ h \in Clients /\ Queued(h) /\ ~Queued(h)'
         /\ \A d : d # h => (Queued(d)' <=> Queued(d))
         /\ Distinct'
<1>1. /\ Len(backlog) \in Nat \ {0} /\ DOMAIN backlog = 1 .. Len(backlog)
      /\ h \in Clients /\ h = backlog[1]
      /\ backlog' \in Seq(Clients) /\ DOMAIN backlog' = 1 .. Len(backlog) - 1
      /\ \A i \in 1 .. Len(backlog) - 1 : backlog'[i] = backlog[i + 1]
  <2>1. Len(backlog) \in Nat \ {0} /\ DOMAIN backlog = 1 .. Len(backlog)
    BY LenProperties, EmptySeq
  <2>2. /\ Head(backlog) \in Clients /\ backlog' \in Seq(Clients)
        /\ Len(backlog') = Len(backlog) - 1
        /\ \A i \in 1 .. Len(backlog') : backlog'[i] = backlog[i + 1]
    BY HeadTailProperties
  <2>3. Head(backlog) = backlog[1]
    OBVIOUS
  <2>4. QED
    BY <2>1, <2>2, <2>3, LenProperties
<1>2. Queued(h) /\ ~Queued(h)'
  <2>1. 1 \in DOMAIN backlog
    BY <1>1
  <2>2. ASSUME NEW i \in DOMAIN backlog' PROVE backlog'[i] # h
    <3>1. i + 1 \in DOMAIN backlog /\ i + 1 # 1 /\ backlog'[i] = backlog[i + 1]
      BY <1>1
    <3>2. QED
      BY <1>1, <2>1, <3>1 DEF Distinct
  <2>3. QED
    BY <1>1, <2>1, <2>2 DEF Queued
<1>3. ASSUME NEW d, d # h PROVE Queued(d)' <=> Queued(d)
  <2>1. ASSUME NEW i \in DOMAIN backlog, backlog[i] = d
        PROVE  \E j \in DOMAIN backlog' : backlog'[j] = d
    <3>1. i - 1 \in DOMAIN backlog' /\ backlog'[i - 1] = d
      BY <1>1, <1>3, <2>1
    <3>2. QED
      BY <3>1
  <2>2. ASSUME NEW j \in DOMAIN backlog', backlog'[j] = d
        PROVE  \E i \in DOMAIN backlog : backlog[i] = d
    <3>1. j + 1 \in DOMAIN backlog /\ backlog[j + 1] = d
      BY <1>1, <2>2
    <3>2. QED
      BY <3>1
  <2>3. QED
    BY <2>1, <2>2 DEF Queued
<1>4. Distinct'
  BY <1>1 DEF Distinct
<1>5. QED
  BY <1>1, <1>2, <1>3, <1>4

-----------------------------------------------------------------------------
(* Steps of a client                                                       *)

SameFor(d) ==
  /\ client'[d] = client[d] /\ to_server'[d] = to_server[d] /\ to_client'[d] = to_client[d]
  /\ client_open'[d] = client_open[d] /\ server_open'[d] = server_open[d]

\* A step that does not touch client d, nor the server while it serves d.
LEMMA Elsewhere ==
  ASSUME NEW d \in Clients, Progress(d), SameFor(d), Queued(d)' <=> Queued(d),
         \/ server' = server
         \/ ~Served(d) /\ ~Served(d)' /\ server.at # "dead"
  PROVE  Progress(d)'
<1>1. Served(d)' <=> Served(d)
  BY DEF Served
<1>2. CASE server' = server
  BY <1>1, <1>2 DEF Progress, SameFor, Quiet, Asks, Answers, Talk, Matches, TellsInstance,
     KnowsInstance, InCall, Small
<1>3. CASE ~Served(d) /\ ~Served(d)' /\ server.at # "dead"
  BY <1>1, <1>3 DEF Progress, SameFor, Quiet, Asks, Small
<1>4. QED
  BY <1>2, <1>3

\* A step of client c preserves the invariant if it preserves c's own part of it.
LEMMA ClientFrame ==
  ASSUME CInv, NEW c \in Clients,
         UNCHANGED <<server, server_open, live, created, bogus>>,
         \A d \in Clients \ {c} : SameFor(d) /\ (Queued(d)' <=> Queued(d)),
         Shape', Distinct', Progress(c)',
         client'[c].at \in {"start", "up"} \cup Gone \cup Handshaking \cup Calling,
         client'[c].saved \in {Null} \cup Instances, client'[c].held \in {Null} \cup Instances,
         ~client_open[c] => ~client_open'[c],
         server.client = c /\ server.at \in Ran =>
           \/ to_server'[c] = to_server[c]
           \/ to_server'[c] # <<>> /\ Head(to_server'[c])[1] = "create" =>
                 server.saved \notin Instances
  PROVE  CInv'
<1>1. \A d \in Clients : Progress(d)'
  BY Elsewhere DEF CInv
<1>2. TypeOK'
  BY DEF CInv, TypeOK, SameFor, Distinct
<1>3. OneInstance'
  BY DEF CInv, OneInstance, SameFor, TypeOK
<1>4. Deserted'
  BY DEF CInv, Deserted, SameFor, TypeOK
<1>5. QED
  BY <1>1, <1>2, <1>3, <1>4 DEF CInv

\* The step takes client c to l, its streams to the server and to itself hold a and b
\* then, and the rest of the state stays.
Becomes(c, l, a, b, open) ==
  /\ client'[c].at = l
  /\ client'[c].magic = client[c].magic /\ client'[c].version = client[c].version
  /\ to_server'[c] = a /\ to_client'[c] = b
  /\ client_open'[c] = open /\ server_open' = server_open
  /\ ~client_open[c] => ~client_open'[c]
  /\ \A d \in Clients \ {c} : SameFor(d)
  /\ Shape'
  /\ UNCHANGED <<backlog, server, live, created, bogus>>
Keeps(c) == client'[c].saved = client[c].saved /\ client'[c].held = client[c].held

\* The server and the queue do not see such a step.
LEMMA BecomesFrame ==
  ASSUME CInv, NEW c \in Clients, NEW l, NEW a, NEW b, NEW open, Becomes(c, l, a, b, open)
  PROVE  /\ Queued(c)' <=> Queued(c)
         /\ Served(c)' <=> Served(c)
         /\ /\ Progress(c)'
            /\ l \in {"start", "up"} \cup Gone \cup Handshaking \cup Calling
            /\ client'[c].saved \in {Null} \cup Instances
            /\ client'[c].held \in {Null} \cup Instances
            /\ server.client = c /\ server.at \in Ran =>
                 \/ a = to_server[c]
                 \/ a # <<>> /\ Head(a)[1] = "create" => server.saved \notin Instances
            => CInv'
<1>1. \A d : Queued(d)' <=> Queued(d)
  BY DEF Becomes, Queued
<1>2. Served(c)' <=> Served(c)
  BY DEF Becomes, Served
<1>3. Distinct'
  BY DEF CInv, TypeOK, Distinct, Becomes
<1>4. QED
  BY <1>1, <1>2, <1>3, ClientFrame DEF Becomes

\* The record of client c changes, and those of the others do not.
Moved(c, l) ==
  /\ client'[c].at = l
  /\ client'[c].magic = client[c].magic /\ client'[c].version = client[c].version
  /\ DOMAIN client' = Clients /\ \A d \in Clients : DOMAIN client'[d] = ClientFields
  /\ \A d \in Clients \ {c} : client'[d] = client[d]

\* What a client changes in its streams.
LEMMA StreamsChange ==
  ASSUME Shape, NEW c \in Clients, NEW l, Moved(c, l),
         UNCHANGED <<backlog, server_open, server, runtime>>,
         client_open' = client_open \/ ClientCloses(c),
         to_server' = to_server \/ \E m : ToServer(c, m),
         to_client' = to_client \/ FromServer(c)
  PROVE  Becomes(c, l, to_server'[c], to_client'[c], client_open'[c])
<1>1. DOMAIN to_server' = Clients /\ \A d \in Clients \ {c} : to_server'[d] = to_server[d]
  BY StreamFacts DEF Shape
<1>2. DOMAIN to_client' = Clients /\ \A d \in Clients \ {c} : to_client'[d] = to_client[d]
  BY StreamFacts DEF Shape
<1>3. /\ client_open' \in [Clients -> BOOLEAN]
      /\ \A d \in Clients \ {c} : client_open'[d] = client_open[d]
      /\ ~client_open[c] => ~client_open'[c]
  BY StreamFacts DEF Shape
<1>4. QED
  BY <1>1, <1>2, <1>3 DEF Becomes, Shape, Moved, SameFor, runtime

\* The server's magic arrives.
LEMMA ClientMagicStep == ASSUME CInv, NEW c \in Clients, ClientMagic(c) PROVE CInv'
<1>1. Shape /\ Progress(c) /\ TypeOK
  BY DEF CInv
<1>2. /\ Served(c) /\ ~Queued(c) /\ client_open[c] = TRUE /\ server_open[c] = TRUE
      /\ client[c].saved = Null /\ client[c].held = Null
      /\ client[c].at = "magic" /\ server.at = "versions"
      /\ Answers(c, <<"magic", ServerMagic>>)
  BY <1>1, OneMessage DEF ClientMagic, Hears, At, Progress, Talk, Quiet, Answers, Asks
<1>3. CASE client[c].magic = ServerMagic
  <2>1. Go(c, "versions") /\ ToServer(c, <<"versions", client[c].version>>) /\ FromServer(c) /\ client_open' = client_open
    BY <1>1, <1>2, <1>3, OneMessage DEF ClientMagic, Refuse, Answers
  <2>2. Moved(c, "versions") /\ Keeps(c)
    BY <1>1, <2>1, GoFacts DEF Moved, Keeps
  <2>3. to_server'[c] = <<<<"versions", client[c].version>>>> /\ to_client'[c] = <<>> /\ client_open'[c] = TRUE
    <3>1. to_server'[c] = <<<<"versions", client[c].version>>>>
      BY <1>1, <1>2, <2>1, Sends DEF Quiet, Answers
    <3>2. to_client'[c] = <<>>
      BY <1>1, <1>2, <2>1, Receives DEF Quiet, Answers
    <3>3. client_open'[c] = TRUE
      BY <1>1, <1>2, <2>1, StreamFacts
    <3>4. QED
      BY <3>1, <3>2, <3>3
  <2>4. Becomes(c, "versions", <<<<"versions", client[c].version>>>>, <<>>, TRUE)
    <3>1. Becomes(c, "versions", to_server'[c], to_client'[c], client_open'[c])
      BY <1>1, <2>1, <2>2, StreamsChange DEF ClientMagic
    <3>2. QED
      BY <2>3, <3>1
  <2>5. Progress(c)'
    BY <1>1, <1>2, <1>3, <2>2, <2>4, BecomesFrame, OneMessage
    DEF Progress, Talk, Becomes, Keeps, Quiet, Asks, Answers, Matches, Small
  <2>6. /\ client'[c].saved \in {Null} \cup Instances /\ client'[c].held \in {Null} \cup Instances
        /\ "versions" \in {"start", "up"} \cup Gone \cup Handshaking \cup Calling
    BY <1>1, <1>2, <1>3, <2>2 DEF TypeOK, Keeps, Handshaking, Calling
  <2>7. <<<<"versions", client[c].version>>>> # <<>> /\ Head(<<<<"versions", client[c].version>>>>)[1] = "create" => <<<<"versions", client[c].version>>>> = to_server[c] \/ server.saved \notin Instances
    BY <1>2, OneMessage
  <2>8. QED
    BY <2>4, <2>5, <2>6, <2>7, BecomesFrame
<1>4. CASE client[c].magic # ServerMagic
  <2>1. Go(c, "gone") /\ to_server' = to_server /\ FromServer(c) /\ ClientCloses(c)
    BY <1>1, <1>2, <1>4, OneMessage DEF ClientMagic, Refuse, Answers
  <2>2. Moved(c, "gone") /\ Keeps(c)
    BY <1>1, <2>1, GoFacts DEF Moved, Keeps
  <2>3. to_server'[c] = <<>> /\ to_client'[c] = <<>> /\ client_open'[c] = FALSE
    <3>1. to_server'[c] = <<>>
      BY <1>1, <1>2, <2>1, Sends DEF Quiet, Answers
    <3>2. to_client'[c] = <<>>
      BY <1>1, <1>2, <2>1, Receives DEF Quiet, Answers
    <3>3. client_open'[c] = FALSE
      BY <1>1, <1>2, <2>1, StreamFacts
    <3>4. QED
      BY <3>1, <3>2, <3>3
  <2>4. Becomes(c, "gone", <<>>, <<>>, FALSE)
    <3>1. Becomes(c, "gone", to_server'[c], to_client'[c], client_open'[c])
      BY <1>1, <2>1, <2>2, StreamsChange DEF ClientMagic
    <3>2. QED
      BY <2>3, <3>1
  <2>5. Progress(c)'
    BY <1>1, <1>2, <1>4, <2>2, <2>4, BecomesFrame, OneMessage
    DEF Progress, Talk, Becomes, Keeps, Quiet, Asks, Answers, Matches, Small
  <2>6. /\ client'[c].saved \in {Null} \cup Instances /\ client'[c].held \in {Null} \cup Instances
        /\ "gone" \in {"start", "up"} \cup Gone \cup Handshaking \cup Calling
    BY <1>1, <1>2, <1>4, <2>2 DEF TypeOK, Keeps, Handshaking, Calling
  <2>7. <<>> # <<>> /\ Head(<<>>)[1] = "create" => <<>> = to_server[c] \/ server.saved \notin Instances
    BY <1>2, OneMessage
  <2>8. QED
    BY <2>4, <2>5, <2>6, <2>7, BecomesFrame
<1>5. QED
  BY <1>3, <1>4

\* The server's versions arrive.
LEMMA ClientVersionsStep == ASSUME CInv, NEW c \in Clients, ClientVersions(c) PROVE CInv'
<1>1. Shape /\ Progress(c) /\ TypeOK
  BY DEF CInv
<1>2. /\ Served(c) /\ ~Queued(c) /\ client_open[c] = TRUE /\ server_open[c] = TRUE
      /\ client[c].saved = Null /\ client[c].held = Null
      /\ client[c].at = "versions" /\ client[c].magic = ServerMagic
      /\ server.at = "verdict" /\ server.theirs = client[c].version
      /\ Answers(c, <<"versions", ServerVersion>>)
  BY <1>1, OneMessage DEF ClientVersions, Hears, At, Progress, Talk, Quiet, Answers, Asks
<1>3. CASE client[c].version = ServerVersion
  <2>1. Go(c, "verdict") /\ ToServer(c, <<"ok", 1>>) /\ FromServer(c) /\ client_open' = client_open
    BY <1>1, <1>2, <1>3, OneMessage DEF ClientVersions, Refuse, Answers
  <2>2. Moved(c, "verdict") /\ Keeps(c)
    BY <1>1, <2>1, GoFacts DEF Moved, Keeps
  <2>3. to_server'[c] = <<<<"ok", 1>>>> /\ to_client'[c] = <<>> /\ client_open'[c] = TRUE
    <3>1. to_server'[c] = <<<<"ok", 1>>>>
      BY <1>1, <1>2, <2>1, Sends DEF Quiet, Answers
    <3>2. to_client'[c] = <<>>
      BY <1>1, <1>2, <2>1, Receives DEF Quiet, Answers
    <3>3. client_open'[c] = TRUE
      BY <1>1, <1>2, <2>1, StreamFacts
    <3>4. QED
      BY <3>1, <3>2, <3>3
  <2>4. Becomes(c, "verdict", <<<<"ok", 1>>>>, <<>>, TRUE)
    <3>1. Becomes(c, "verdict", to_server'[c], to_client'[c], client_open'[c])
      BY <1>1, <2>1, <2>2, StreamsChange DEF ClientVersions
    <3>2. QED
      BY <2>3, <3>1
  <2>5. Progress(c)'
    BY <1>1, <1>2, <1>3, <2>2, <2>4, BecomesFrame, OneMessage
    DEF Progress, Talk, Becomes, Keeps, Quiet, Asks, Answers, Matches, Small
  <2>6. /\ client'[c].saved \in {Null} \cup Instances /\ client'[c].held \in {Null} \cup Instances
        /\ "verdict" \in {"start", "up"} \cup Gone \cup Handshaking \cup Calling
    BY <1>1, <1>2, <1>3, <2>2 DEF TypeOK, Keeps, Handshaking, Calling
  <2>7. <<<<"ok", 1>>>> # <<>> /\ Head(<<<<"ok", 1>>>>)[1] = "create" => <<<<"ok", 1>>>> = to_server[c] \/ server.saved \notin Instances
    BY <1>2, OneMessage
  <2>8. QED
    BY <2>4, <2>5, <2>6, <2>7, BecomesFrame
<1>4. CASE client[c].version # ServerVersion
  <2>1. Go(c, "gone") /\ ToServer(c, <<"ok", 0>>) /\ FromServer(c) /\ ClientCloses(c)
    BY <1>1, <1>2, <1>4, OneMessage DEF ClientVersions, Refuse, Answers
  <2>2. Moved(c, "gone") /\ Keeps(c)
    BY <1>1, <2>1, GoFacts DEF Moved, Keeps
  <2>3. to_server'[c] = <<<<"ok", 0>>>> /\ to_client'[c] = <<>> /\ client_open'[c] = FALSE
    <3>1. to_server'[c] = <<<<"ok", 0>>>>
      BY <1>1, <1>2, <2>1, Sends DEF Quiet, Answers
    <3>2. to_client'[c] = <<>>
      BY <1>1, <1>2, <2>1, Receives DEF Quiet, Answers
    <3>3. client_open'[c] = FALSE
      BY <1>1, <1>2, <2>1, StreamFacts
    <3>4. QED
      BY <3>1, <3>2, <3>3
  <2>4. Becomes(c, "gone", <<<<"ok", 0>>>>, <<>>, FALSE)
    <3>1. Becomes(c, "gone", to_server'[c], to_client'[c], client_open'[c])
      BY <1>1, <2>1, <2>2, StreamsChange DEF ClientVersions
    <3>2. QED
      BY <2>3, <3>1
  <2>5. Progress(c)'
    BY <1>1, <1>2, <1>4, <2>2, <2>4, BecomesFrame, OneMessage
    DEF Progress, Talk, Becomes, Keeps, Quiet, Asks, Answers, Matches, Small
  <2>6. /\ client'[c].saved \in {Null} \cup Instances /\ client'[c].held \in {Null} \cup Instances
        /\ "gone" \in {"start", "up"} \cup Gone \cup Handshaking \cup Calling
    BY <1>1, <1>2, <1>4, <2>2 DEF TypeOK, Keeps, Handshaking, Calling
  <2>7. <<<<"ok", 0>>>> # <<>> /\ Head(<<<<"ok", 0>>>>)[1] = "create" => <<<<"ok", 0>>>> = to_server[c] \/ server.saved \notin Instances
    BY <1>2, OneMessage
  <2>8. QED
    BY <2>4, <2>5, <2>6, <2>7, BecomesFrame
<1>5. QED
  BY <1>3, <1>4

\* The server's verdict arrives; it is never a refusal.
LEMMA ClientVerdictStep == ASSUME CInv, NEW c \in Clients, ClientVerdict(c) PROVE CInv'
<1>1. Shape /\ Progress(c) /\ TypeOK
  BY DEF CInv
<1>2. /\ Served(c) /\ ~Queued(c) /\ client_open[c] = TRUE /\ server_open[c] = TRUE
      /\ client[c].saved = Null /\ client[c].held = Null
      /\ client[c].at = "verdict" /\ Matches(c)
      /\ server.at = "run" /\ server.saved \notin Instances
      /\ Answers(c, <<"ok", 1>>)
  BY <1>1, OneMessage DEF ClientVerdict, Hears, At, Progress, Talk, Quiet, Answers, Asks, Matches
<1>3. CInv'
  <2>1. Go(c, "up") /\ to_server' = to_server /\ FromServer(c) /\ client_open' = client_open
    BY <1>1, <1>2, OneMessage DEF ClientVerdict, Refuse, Answers
  <2>2. Moved(c, "up") /\ Keeps(c)
    BY <1>1, <2>1, GoFacts DEF Moved, Keeps
  <2>3. to_server'[c] = <<>> /\ to_client'[c] = <<>> /\ client_open'[c] = TRUE
    <3>1. to_server'[c] = <<>>
      BY <1>1, <1>2, <2>1, Sends DEF Quiet, Answers
    <3>2. to_client'[c] = <<>>
      BY <1>1, <1>2, <2>1, Receives DEF Quiet, Answers
    <3>3. client_open'[c] = TRUE
      BY <1>1, <1>2, <2>1, StreamFacts
    <3>4. QED
      BY <3>1, <3>2, <3>3
  <2>4. Becomes(c, "up", <<>>, <<>>, TRUE)
    <3>1. Becomes(c, "up", to_server'[c], to_client'[c], client_open'[c])
      BY <1>1, <2>1, <2>2, StreamsChange DEF ClientVerdict
    <3>2. QED
      BY <2>3, <3>1
  <2>5. Progress(c)'
    BY <1>1, <1>2, <2>2, <2>4, BecomesFrame, OneMessage
    DEF Progress, Talk, Becomes, Keeps, Quiet, Asks, Answers, Matches, Small, KnowsInstance
  <2>6. /\ client'[c].saved \in {Null} \cup Instances /\ client'[c].held \in {Null} \cup Instances
        /\ "up" \in {"start", "up"} \cup Gone \cup Handshaking \cup Calling
    BY <1>1, <1>2, <2>2 DEF TypeOK, Keeps, Handshaking, Calling, KnowsInstance
  <2>7. <<>> # <<>> /\ Head(<<>>)[1] = "create" => <<>> = to_server[c] \/ server.saved \notin Instances
    BY <1>2, OneMessage
  <2>8. QED
    BY <2>4, <2>5, <2>6, <2>7, BecomesFrame
<1>4. QED
  BY <1>3

\* xrCreateInstance asks for the only instance of the process.
LEMMA CreateInstanceStep == ASSUME CInv, NEW c \in Clients, CreateInstance(c) PROVE CInv'
<1>1. Shape /\ Progress(c) /\ TypeOK
  BY DEF CInv
<1>2. /\ Served(c) /\ ~Queued(c) /\ client_open[c] = TRUE /\ server_open[c] = TRUE
      /\ client[c].saved = Null /\ client[c].held = Null
      /\ client[c].at = "up" /\ Matches(c)
      /\ server.at = "run" /\ server.saved \notin Instances
      /\ Quiet(c)
  BY <1>1, OneMessage DEF CreateInstance, Hears, At, Progress, Talk, Quiet, Answers, Asks, Matches, KnowsInstance
<1>3. CInv'
  <2>1. Go(c, "creating") /\ ToServer(c, <<"create", 0>>) /\ to_client' = to_client /\ client_open' = client_open
    BY <1>1, <1>2, OneMessage DEF CreateInstance, Refuse, Answers
  <2>2. Moved(c, "creating") /\ Keeps(c)
    BY <1>1, <2>1, GoFacts DEF Moved, Keeps
  <2>3. to_server'[c] = <<<<"create", 0>>>> /\ to_client'[c] = <<>> /\ client_open'[c] = TRUE
    <3>1. to_server'[c] = <<<<"create", 0>>>>
      BY <1>1, <1>2, <2>1, Sends DEF Quiet, Answers
    <3>2. to_client'[c] = <<>>
      BY <1>1, <1>2, <2>1, Receives DEF Quiet, Answers
    <3>3. client_open'[c] = TRUE
      BY <1>1, <1>2, <2>1, StreamFacts
    <3>4. QED
      BY <3>1, <3>2, <3>3
  <2>4. Becomes(c, "creating", <<<<"create", 0>>>>, <<>>, TRUE)
    <3>1. Becomes(c, "creating", to_server'[c], to_client'[c], client_open'[c])
      BY <1>1, <2>1, <2>2, StreamsChange DEF CreateInstance
    <3>2. QED
      BY <2>3, <3>1
  <2>5. Progress(c)'
    BY <1>1, <1>2, <2>2, <2>4, BecomesFrame, OneMessage
    DEF Progress, Talk, Becomes, Keeps, Quiet, Asks, Answers, Matches, Small
  <2>6. /\ client'[c].saved \in {Null} \cup Instances /\ client'[c].held \in {Null} \cup Instances
        /\ "creating" \in {"start", "up"} \cup Gone \cup Handshaking \cup Calling
    BY <1>1, <1>2, <2>2 DEF TypeOK, Keeps, Handshaking, Calling
  <2>7. <<<<"create", 0>>>> # <<>> /\ Head(<<<<"create", 0>>>>)[1] = "create" => <<<<"create", 0>>>> = to_server[c] \/ server.saved \notin Instances
    BY <1>2, OneMessage
  <2>8. QED
    BY <2>4, <2>5, <2>6, <2>7, BecomesFrame
<1>4. QED
  BY <1>3

\* xrCreateInstance returns.
LEMMA CreatedStep == ASSUME CInv, NEW c \in Clients, Created(c) PROVE CInv'
<1>1. Shape /\ Progress(c) /\ TypeOK
  BY DEF CInv
<1>2. /\ Served(c) /\ ~Queued(c) /\ client_open[c] = TRUE /\ server_open[c] = TRUE
      /\ client[c].saved = Null /\ client[c].held = Null
      /\ client[c].at = "creating" /\ Matches(c)
      /\ server.at = "run" /\ TellsInstance(server.reply)
      /\ Answers(c, server.reply)
  BY <1>1, OneMessage DEF Created, Hears, At, Progress, Talk, Quiet, Answers, Asks, Matches
<1>3. CASE server.reply[2] = Null
  <2>1. to_server' = to_server /\ FromServer(c) /\ client_open' = client_open
    BY <1>1, <1>2, <1>3, OneMessage DEF Created, Refuse, Answers
  <2>2. Moved(c, "up") /\ Keeps(c)
    <3>1. to_client[c] # <<>> => Head(to_client[c]) = server.reply
      BY <1>2, OneMessage DEF Answers, Quiet
    <3>2. client' = [client EXCEPT ![c] = [client[c] EXCEPT !.at = "up"]]
      BY <1>2, <1>3, <3>1, OneMessage DEF Created, Hears, Answers
    <3>3. QED
      BY <1>1, <3>2 DEF Moved, Keeps, Shape, ClientFields
  <2>3. to_server'[c] = <<>> /\ to_client'[c] = <<>> /\ client_open'[c] = TRUE
    <3>1. to_server'[c] = <<>>
      BY <1>1, <1>2, <2>1, Sends DEF Quiet, Answers
    <3>2. to_client'[c] = <<>>
      BY <1>1, <1>2, <2>1, Receives DEF Quiet, Answers
    <3>3. client_open'[c] = TRUE
      BY <1>1, <1>2, <2>1, StreamFacts
    <3>4. QED
      BY <3>1, <3>2, <3>3
  <2>4. Becomes(c, "up", <<>>, <<>>, TRUE)
    <3>1. Becomes(c, "up", to_server'[c], to_client'[c], client_open'[c])
      BY <1>1, <2>1, <2>2, StreamsChange DEF Created
    <3>2. QED
      BY <2>3, <3>1
  <2>5. Progress(c)'
    BY <1>1, <1>2, <1>3, <2>2, <2>4, BecomesFrame, OneMessage
    DEF Progress, Talk, Becomes, Keeps, Quiet, Asks, Answers, Matches, Small, KnowsInstance, TellsInstance
  <2>6. /\ client'[c].saved \in {Null} \cup Instances /\ client'[c].held \in {Null} \cup Instances
        /\ "up" \in {"start", "up"} \cup Gone \cup Handshaking \cup Calling
    BY <1>1, <1>2, <1>3, <2>2 DEF TypeOK, Keeps, Handshaking, Calling, KnowsInstance, TellsInstance
  <2>7. <<>> # <<>> /\ Head(<<>>)[1] = "create" => <<>> = to_server[c] \/ server.saved \notin Instances
    BY <1>2, OneMessage
  <2>8. QED
    BY <2>4, <2>5, <2>6, <2>7, BecomesFrame
<1>4. CASE server.reply[2] # Null
  <2>1. to_server' = to_server /\ FromServer(c) /\ client_open' = client_open
    BY <1>1, <1>2, <1>4, OneMessage DEF Created, Refuse, Answers
  <2>2. Moved(c, "up") /\ client'[c].saved = server.reply[2] /\ client'[c].held = server.reply[2]
    <3>1. to_client[c] # <<>> => Head(to_client[c]) = server.reply
      BY <1>2, OneMessage DEF Answers, Quiet
    <3>2. client' = [client EXCEPT ![c] = [client[c] EXCEPT !.at = "up", !.saved = server.reply[2], !.held = server.reply[2]]]
      BY <1>2, <1>4, <3>1, OneMessage DEF Created, Hears, Answers
    <3>3. QED
      BY <1>1, <3>2 DEF Moved, Keeps, Shape, ClientFields
  <2>3. to_server'[c] = <<>> /\ to_client'[c] = <<>> /\ client_open'[c] = TRUE
    <3>1. to_server'[c] = <<>>
      BY <1>1, <1>2, <2>1, Sends DEF Quiet, Answers
    <3>2. to_client'[c] = <<>>
      BY <1>1, <1>2, <2>1, Receives DEF Quiet, Answers
    <3>3. client_open'[c] = TRUE
      BY <1>1, <1>2, <2>1, StreamFacts
    <3>4. QED
      BY <3>1, <3>2, <3>3
  <2>4. Becomes(c, "up", <<>>, <<>>, TRUE)
    <3>1. Becomes(c, "up", to_server'[c], to_client'[c], client_open'[c])
      BY <1>1, <2>1, <2>2, StreamsChange DEF Created
    <3>2. QED
      BY <2>3, <3>1
  <2>5. Progress(c)'
    BY <1>1, <1>2, <1>4, <2>2, <2>4, BecomesFrame, OneMessage
    DEF Progress, Talk, Becomes, Keeps, Quiet, Asks, Answers, Matches, Small, KnowsInstance, TellsInstance
  <2>6. /\ client'[c].saved \in {Null} \cup Instances /\ client'[c].held \in {Null} \cup Instances
        /\ "up" \in {"start", "up"} \cup Gone \cup Handshaking \cup Calling
    BY <1>1, <1>2, <1>4, <2>2 DEF TypeOK, Keeps, Handshaking, Calling, KnowsInstance, TellsInstance
  <2>7. <<>> # <<>> /\ Head(<<>>)[1] = "create" => <<>> = to_server[c] \/ server.saved \notin Instances
    BY <1>2, OneMessage
  <2>8. QED
    BY <2>4, <2>5, <2>6, <2>7, BecomesFrame
<1>5. QED
  BY <1>3, <1>4

\* xrDestroyInstance gives the instance up.
LEMMA DestroyInstanceStep == ASSUME CInv, NEW c \in Clients, DestroyInstance(c) PROVE CInv'
<1>1. Shape /\ Progress(c) /\ TypeOK
  BY DEF CInv
<1>2. /\ Served(c) /\ ~Queued(c) /\ client_open[c] = TRUE /\ server_open[c] = TRUE
      /\ client[c].saved # Null
      /\ client[c].at = "up" /\ Matches(c)
      /\ server.at = "run" /\ Quiet(c)
  BY <1>1, OneMessage DEF DestroyInstance, Hears, At, Progress, Talk, Quiet, Answers, Asks, Matches, KnowsInstance
<1>3. CInv'
  <2>1. ToServer(c, <<"destroy", client[c].held>>) /\ to_client' = to_client /\ client_open' = client_open
    BY <1>1, <1>2, OneMessage DEF DestroyInstance, Refuse, Answers
  <2>2. Moved(c, "destroying") /\ client'[c].saved = client[c].saved /\ client'[c].held = Null
    <3>1. to_client[c] # <<>> => Head(to_client[c]) = server.reply
      BY <1>2, OneMessage DEF Answers, Quiet
    <3>2. client' = [client EXCEPT ![c] = [client[c] EXCEPT !.at = "destroying", !.held = Null]]
      BY <1>2, <3>1, OneMessage DEF DestroyInstance, Hears, Answers
    <3>3. QED
      BY <1>1, <3>2 DEF Moved, Keeps, Shape, ClientFields
  <2>3. to_server'[c] = <<<<"destroy", client[c].held>>>> /\ to_client'[c] = <<>> /\ client_open'[c] = TRUE
    <3>1. to_server'[c] = <<<<"destroy", client[c].held>>>>
      BY <1>1, <1>2, <2>1, Sends DEF Quiet, Answers
    <3>2. to_client'[c] = <<>>
      BY <1>1, <1>2, <2>1, Receives DEF Quiet, Answers
    <3>3. client_open'[c] = TRUE
      BY <1>1, <1>2, <2>1, StreamFacts
    <3>4. QED
      BY <3>1, <3>2, <3>3
  <2>4. Becomes(c, "destroying", <<<<"destroy", client[c].held>>>>, <<>>, TRUE)
    <3>1. Becomes(c, "destroying", to_server'[c], to_client'[c], client_open'[c])
      BY <1>1, <2>1, <2>2, StreamsChange DEF DestroyInstance
    <3>2. QED
      BY <2>3, <3>1
  <2>5. Progress(c)'
    BY <1>1, <1>2, <2>2, <2>4, BecomesFrame, OneMessage
    DEF Progress, Talk, Becomes, Keeps, Quiet, Asks, Answers, Matches, Small
  <2>6. /\ client'[c].saved \in {Null} \cup Instances /\ client'[c].held \in {Null} \cup Instances
        /\ "destroying" \in {"start", "up"} \cup Gone \cup Handshaking \cup Calling
    BY <1>1, <1>2, <2>2 DEF TypeOK, Keeps, Handshaking, Calling
  <2>7. <<<<"destroy", client[c].held>>>> # <<>> /\ Head(<<<<"destroy", client[c].held>>>>)[1] = "create" => <<<<"destroy", client[c].held>>>> = to_server[c] \/ server.saved \notin Instances
    BY <1>2, OneMessage
  <2>8. QED
    BY <2>4, <2>5, <2>6, <2>7, BecomesFrame
<1>4. QED
  BY <1>3

\* xrDestroyInstance returns.
LEMMA DestroyedStep == ASSUME CInv, NEW c \in Clients, Destroyed(c) PROVE CInv'
<1>1. Shape /\ Progress(c) /\ TypeOK
  BY DEF CInv
<1>2. /\ Served(c) /\ ~Queued(c) /\ client_open[c] = TRUE /\ server_open[c] = TRUE
      /\ client[c].saved # Null /\ client[c].held = Null
      /\ client[c].at = "destroying" /\ Matches(c)
      /\ server.at = "run"
      /\ Answers(c, server.reply)
  BY <1>1, OneMessage DEF Destroyed, Hears, At, Progress, Talk, Quiet, Answers, Asks, Matches
<1>3. CInv'
  <2>1. Go(c, "up") /\ to_server' = to_server /\ FromServer(c) /\ client_open' = client_open
    BY <1>1, <1>2, OneMessage DEF Destroyed, Refuse, Answers
  <2>2. Moved(c, "up") /\ Keeps(c)
    BY <1>1, <2>1, GoFacts DEF Moved, Keeps
  <2>3. to_server'[c] = <<>> /\ to_client'[c] = <<>> /\ client_open'[c] = TRUE
    <3>1. to_server'[c] = <<>>
      BY <1>1, <1>2, <2>1, Sends DEF Quiet, Answers
    <3>2. to_client'[c] = <<>>
      BY <1>1, <1>2, <2>1, Receives DEF Quiet, Answers
    <3>3. client_open'[c] = TRUE
      BY <1>1, <1>2, <2>1, StreamFacts
    <3>4. QED
      BY <3>1, <3>2, <3>3
  <2>4. Becomes(c, "up", <<>>, <<>>, TRUE)
    <3>1. Becomes(c, "up", to_server'[c], to_client'[c], client_open'[c])
      BY <1>1, <2>1, <2>2, StreamsChange DEF Destroyed
    <3>2. QED
      BY <2>3, <3>1
  <2>5. Progress(c)'
    BY <1>1, <1>2, <2>2, <2>4, BecomesFrame, OneMessage
    DEF Progress, Talk, Becomes, Keeps, Quiet, Asks, Answers, Matches, Small, KnowsInstance
  <2>6. /\ client'[c].saved \in {Null} \cup Instances /\ client'[c].held \in {Null} \cup Instances
        /\ "up" \in {"start", "up"} \cup Gone \cup Handshaking \cup Calling
    BY <1>1, <1>2, <2>2 DEF TypeOK, Keeps, Handshaking, Calling, KnowsInstance
  <2>7. <<>> # <<>> /\ Head(<<>>)[1] = "create" => <<>> = to_server[c] \/ server.saved \notin Instances
    BY <1>2, OneMessage
  <2>8. QED
    BY <2>4, <2>5, <2>6, <2>7, BecomesFrame
<1>4. QED
  BY <1>3

\* xrPollEvent asks for an event.
LEMMA PollEventStep == ASSUME CInv, NEW c \in Clients, PollEvent(c) PROVE CInv'
<1>1. Shape /\ Progress(c) /\ TypeOK
  BY DEF CInv
<1>2. /\ Served(c) /\ ~Queued(c) /\ client_open[c] = TRUE /\ server_open[c] = TRUE
      /\ client[c].held # Null /\ KnowsInstance(c)
      /\ client[c].at = "up" /\ Matches(c)
      /\ server.at = "run" /\ Quiet(c)
  BY <1>1, OneMessage DEF PollEvent, Hears, At, Progress, Talk, Quiet, Answers, Asks, Matches
<1>3. CInv'
  <2>1. Go(c, "polling") /\ ToServer(c, <<"poll", 0>>) /\ to_client' = to_client /\ client_open' = client_open
    BY <1>1, <1>2, OneMessage DEF PollEvent, Refuse, Answers
  <2>2. Moved(c, "polling") /\ Keeps(c)
    BY <1>1, <2>1, GoFacts DEF Moved, Keeps
  <2>3. to_server'[c] = <<<<"poll", 0>>>> /\ to_client'[c] = <<>> /\ client_open'[c] = TRUE
    <3>1. to_server'[c] = <<<<"poll", 0>>>>
      BY <1>1, <1>2, <2>1, Sends DEF Quiet, Answers
    <3>2. to_client'[c] = <<>>
      BY <1>1, <1>2, <2>1, Receives DEF Quiet, Answers
    <3>3. client_open'[c] = TRUE
      BY <1>1, <1>2, <2>1, StreamFacts
    <3>4. QED
      BY <3>1, <3>2, <3>3
  <2>4. Becomes(c, "polling", <<<<"poll", 0>>>>, <<>>, TRUE)
    <3>1. Becomes(c, "polling", to_server'[c], to_client'[c], client_open'[c])
      BY <1>1, <2>1, <2>2, StreamsChange DEF PollEvent
    <3>2. QED
      BY <2>3, <3>1
  <2>5. Progress(c)'
    BY <1>1, <1>2, <2>2, <2>4, BecomesFrame, OneMessage
    DEF Progress, Talk, Becomes, Keeps, Quiet, Asks, Answers, Matches, Small, KnowsInstance, InCall
  <2>6. /\ client'[c].saved \in {Null} \cup Instances /\ client'[c].held \in {Null} \cup Instances
        /\ "polling" \in {"start", "up"} \cup Gone \cup Handshaking \cup Calling
    BY <1>1, <1>2, <2>2 DEF TypeOK, Keeps, Handshaking, Calling, KnowsInstance, InCall
  <2>7. <<<<"poll", 0>>>> # <<>> /\ Head(<<<<"poll", 0>>>>)[1] = "create" => <<<<"poll", 0>>>> = to_server[c] \/ server.saved \notin Instances
    BY <1>2, OneMessage
  <2>8. QED
    BY <2>4, <2>5, <2>6, <2>7, BecomesFrame
<1>4. QED
  BY <1>3

\* xrPollEvent returns.
LEMMA PolledStep == ASSUME CInv, NEW c \in Clients, Polled(c) PROVE CInv'
<1>1. Shape /\ Progress(c) /\ TypeOK
  BY DEF CInv
<1>2. /\ Served(c) /\ ~Queued(c) /\ client_open[c] = TRUE /\ server_open[c] = TRUE
      /\ client[c].held # Null /\ KnowsInstance(c)
      /\ client[c].at = "polling" /\ Matches(c)
      /\ server.at = "run"
      /\ Answers(c, server.reply)
  BY <1>1, OneMessage DEF Polled, Hears, At, Progress, Talk, Quiet, Answers, Asks, Matches, InCall
<1>3. CInv'
  <2>1. to_server' = to_server /\ FromServer(c) /\ client_open' = client_open
    BY <1>1, <1>2, OneMessage DEF Polled, Refuse, Answers
  <2>2. Moved(c, "up") /\ Keeps(c)
    <3>1. to_client[c] # <<>> => Head(to_client[c]) = server.reply
      BY <1>2, OneMessage DEF Answers, Quiet
    <3>2. \E es : client' = [client EXCEPT ![c].at = "up", ![c].events = es]
      BY <1>2, <3>1, OneMessage DEF Polled, Hears, Answers
    <3>3. QED
      BY <1>1, <3>2 DEF Moved, Keeps, Shape, ClientFields
  <2>3. to_server'[c] = <<>> /\ to_client'[c] = <<>> /\ client_open'[c] = TRUE
    <3>1. to_server'[c] = <<>>
      BY <1>1, <1>2, <2>1, Sends DEF Quiet, Answers
    <3>2. to_client'[c] = <<>>
      BY <1>1, <1>2, <2>1, Receives DEF Quiet, Answers
    <3>3. client_open'[c] = TRUE
      BY <1>1, <1>2, <2>1, StreamFacts
    <3>4. QED
      BY <3>1, <3>2, <3>3
  <2>4. Becomes(c, "up", <<>>, <<>>, TRUE)
    <3>1. Becomes(c, "up", to_server'[c], to_client'[c], client_open'[c])
      BY <1>1, <2>1, <2>2, StreamsChange DEF Polled
    <3>2. QED
      BY <2>3, <3>1
  <2>5. Progress(c)'
    BY <1>1, <1>2, <2>2, <2>4, BecomesFrame, OneMessage
    DEF Progress, Talk, Becomes, Keeps, Quiet, Asks, Answers, Matches, Small, KnowsInstance
  <2>6. /\ client'[c].saved \in {Null} \cup Instances /\ client'[c].held \in {Null} \cup Instances
        /\ "up" \in {"start", "up"} \cup Gone \cup Handshaking \cup Calling
    BY <1>1, <1>2, <2>2 DEF TypeOK, Keeps, Handshaking, Calling, KnowsInstance
  <2>7. <<>> # <<>> /\ Head(<<>>)[1] = "create" => <<>> = to_server[c] \/ server.saved \notin Instances
    BY <1>2, OneMessage
  <2>8. QED
    BY <2>4, <2>5, <2>6, <2>7, BecomesFrame
<1>4. QED
  BY <1>3

\* The stream ends under a waiting client: the server has refused its magic.
LEMMA ClientEofStep == ASSUME CInv, NEW c \in Clients, ClientEof(c) PROVE CInv'
<1>1. Shape /\ Progress(c) /\ TypeOK
  BY DEF CInv
<1>2. /\ ~Served(c) /\ ~Queued(c) /\ client_open[c] = TRUE /\ server_open[c] = FALSE
      /\ client[c].at = "magic" /\ to_client[c] = <<>>
      /\ Refuse(c) /\ UNCHANGED to_client
  BY <1>1, OneMessage DEF ClientEof, Hears, At, Progress, Talk, Quiet, Answers, Asks, Handshaking, Calling, ClientEof, TypeOK
<1>3. CInv'
  <2>1. Go(c, "gone") /\ to_server' = to_server /\ to_client' = to_client /\ ClientCloses(c)
    BY <1>1, <1>2, OneMessage DEF ClientEof, Refuse, Answers
  <2>2. Moved(c, "gone") /\ Keeps(c)
    BY <1>1, <2>1, GoFacts DEF Moved, Keeps
  <2>3. to_server'[c] = to_server[c] /\ to_client'[c] = <<>> /\ client_open'[c] = FALSE
    <3>1. to_server'[c] = to_server[c]
      BY <1>1, <1>2, <2>1, Sends DEF Quiet, Answers
    <3>2. to_client'[c] = <<>>
      BY <1>1, <1>2, <2>1, Receives DEF Quiet, Answers
    <3>3. client_open'[c] = FALSE
      BY <1>1, <1>2, <2>1, StreamFacts
    <3>4. QED
      BY <3>1, <3>2, <3>3
  <2>4. Becomes(c, "gone", to_server[c], <<>>, FALSE)
    <3>1. Becomes(c, "gone", to_server'[c], to_client'[c], client_open'[c])
      BY <1>1, <2>1, <2>2, StreamsChange DEF ClientEof
    <3>2. QED
      BY <2>3, <3>1
  <2>5. Progress(c)'
    BY <1>1, <1>2, <2>2, <2>4, BecomesFrame, OneMessage
    DEF Progress, Talk, Becomes, Keeps, Quiet, Asks, Answers, Matches, Small
  <2>6. /\ client'[c].saved \in {Null} \cup Instances /\ client'[c].held \in {Null} \cup Instances
        /\ "gone" \in {"start", "up"} \cup Gone \cup Handshaking \cup Calling
    BY <1>1, <1>2, <2>2 DEF TypeOK, Keeps, Handshaking, Calling
  <2>7. to_server[c] # <<>> /\ Head(to_server[c])[1] = "create" => to_server[c] = to_server[c] \/ server.saved \notin Instances
    BY <1>2, OneMessage
  <2>8. QED
    BY <2>4, <2>5, <2>6, <2>7, BecomesFrame
<1>4. QED
  BY <1>3

\* The process of the client ends.
LEMMA QuitStep == ASSUME CInv, NEW c \in Clients, Quit(c) PROVE CInv'
<1>1. Shape /\ Progress(c) /\ TypeOK
  BY DEF CInv
<1>2. /\ client[c].at \notin {"start"} \cup Gone
  BY <1>1, OneMessage DEF Quit, Hears, At, Progress, Talk, Quiet, Answers, Asks
<1>3. CInv'
  <2>1. Go(c, "quit") /\ to_server' = to_server /\ to_client' = to_client /\ ClientCloses(c)
    BY <1>1, <1>2, OneMessage DEF Quit, Refuse, Answers
  <2>2. Moved(c, "quit") /\ Keeps(c)
    BY <1>1, <2>1, GoFacts DEF Moved, Keeps
  <2>3. to_server'[c] = to_server[c] /\ to_client'[c] = to_client[c] /\ client_open'[c] = FALSE
    <3>1. to_server'[c] = to_server[c]
      BY <1>1, <1>2, <2>1, Sends DEF Quiet, Answers
    <3>2. to_client'[c] = to_client[c]
      BY <1>1, <1>2, <2>1, Receives DEF Quiet, Answers
    <3>3. client_open'[c] = FALSE
      BY <1>1, <1>2, <2>1, StreamFacts
    <3>4. QED
      BY <3>1, <3>2, <3>3
  <2>4. Becomes(c, "quit", to_server[c], to_client[c], FALSE)
    <3>1. Becomes(c, "quit", to_server'[c], to_client'[c], client_open'[c])
      BY <1>1, <2>1, <2>2, StreamsChange DEF Quit
    <3>2. QED
      BY <2>3, <3>1
  <2>5. Progress(c)'
    BY <1>1, <1>2, <2>2, <2>4, BecomesFrame, OneMessage
    DEF Progress, Talk, Becomes, Keeps, Quiet, Asks, Answers, Matches, Small
  <2>6. /\ client'[c].saved \in {Null} \cup Instances /\ client'[c].held \in {Null} \cup Instances
        /\ "quit" \in {"start", "up"} \cup Gone \cup Handshaking \cup Calling
    BY <1>1, <1>2, <2>2 DEF TypeOK, Keeps, Handshaking, Calling
  <2>7. to_server[c] # <<>> /\ Head(to_server[c])[1] = "create" => to_server[c] = to_server[c] \/ server.saved \notin Instances
    BY <1>2, OneMessage
  <2>8. QED
    BY <2>4, <2>5, <2>6, <2>7, BecomesFrame
<1>4. QED
  BY <1>3

\* A connection is refused once the server has terminated.
LEMMA ConnectRefusedStep == ASSUME CInv, NEW c \in Clients, ConnectRefused(c) PROVE CInv'
<1>1. Shape /\ Progress(c) /\ TypeOK
  BY DEF CInv
<1>2. /\ client[c].at = "start" /\ server.at = "dead" /\ ~Served(c) /\ ~Queued(c)
  BY <1>1, OneMessage DEF ConnectRefused, Hears, At, Served, Progress, Talk, Quiet, Answers, Asks
<1>3. CInv'
  <2>1. Go(c, "gone") /\ to_server' = to_server /\ to_client' = to_client /\ ClientCloses(c)
    BY <1>1, <1>2, OneMessage DEF ConnectRefused, Refuse, Answers
  <2>2. Moved(c, "gone") /\ Keeps(c)
    BY <1>1, <2>1, GoFacts DEF Moved, Keeps
  <2>3. to_server'[c] = to_server[c] /\ to_client'[c] = to_client[c] /\ client_open'[c] = FALSE
    <3>1. to_server'[c] = to_server[c]
      BY <1>1, <1>2, <2>1, Sends DEF Quiet, Answers
    <3>2. to_client'[c] = to_client[c]
      BY <1>1, <1>2, <2>1, Receives DEF Quiet, Answers
    <3>3. client_open'[c] = FALSE
      BY <1>1, <1>2, <2>1, StreamFacts
    <3>4. QED
      BY <3>1, <3>2, <3>3
  <2>4. Becomes(c, "gone", to_server[c], to_client[c], FALSE)
    <3>1. Becomes(c, "gone", to_server'[c], to_client'[c], client_open'[c])
      BY <1>1, <2>1, <2>2, StreamsChange DEF ConnectRefused
    <3>2. QED
      BY <2>3, <3>1
  <2>5. Progress(c)'
    BY <1>1, <1>2, <2>2, <2>4, BecomesFrame, OneMessage
    DEF Progress, Talk, Becomes, Keeps, Quiet, Asks, Answers, Matches, Small
  <2>6. /\ client'[c].saved \in {Null} \cup Instances /\ client'[c].held \in {Null} \cup Instances
        /\ "gone" \in {"start", "up"} \cup Gone \cup Handshaking \cup Calling
    BY <1>1, <1>2, <2>2 DEF TypeOK, Keeps, Handshaking, Calling
  <2>7. to_server[c] # <<>> /\ Head(to_server[c])[1] = "create" => to_server[c] = to_server[c] \/ server.saved \notin Instances
    BY <1>2, OneMessage
  <2>8. QED
    BY <2>4, <2>5, <2>6, <2>7, BecomesFrame
<1>4. QED
  BY <1>3

\* A client connects.
LEMMA ConnectStep == ASSUME CInv, NEW c \in Clients, Connect(c) PROVE CInv'
<1>1. /\ Shape /\ Progress(c) /\ client[c].at = "start" /\ Distinct /\ server.at # "dead"
      /\ ~Queued(c) /\ ~Served(c) /\ Quiet(c) /\ client_open[c] = TRUE /\ server_open[c]
      /\ client[c].saved = Null /\ client[c].held = Null
  BY DEF CInv, Connect, At, TypeOK, Distinct, Progress, Shape
<1>2. /\ Moved(c, "magic") /\ Keeps(c)
      /\ DOMAIN to_server' = Clients
      /\ \A d \in Clients \ {c} : SameFor(d)
      /\ UNCHANGED <<server_open, client_open, to_client, server, live, created, bogus>>
      /\ to_server'[c] = <<<<"magic", client[c].magic>>>>
      /\ backlog' = Append(backlog, c)
  <2>1. /\ Go(c, "magic") /\ ToServer(c, <<"magic", client[c].magic>>)
        /\ backlog' = Append(backlog, c)
        /\ UNCHANGED <<server_open, client_open, to_client, server, live, created, bogus>>
    BY DEF Connect, runtime
  <2>2. Moved(c, "magic") /\ Keeps(c)
    BY <1>1, <2>1, GoFacts DEF Moved, Keeps
  <2>3. /\ to_server'[c] = Append(to_server[c], <<"magic", client[c].magic>>)
        /\ DOMAIN to_server' = Clients
        /\ \A d \in Clients \ {c} : to_server'[d] = to_server[d]
    BY <1>1, <2>1, StreamFacts
  <2>4. to_server'[c] = <<<<"magic", client[c].magic>>>>
    BY <1>1, <2>3, OneMessage DEF Quiet
  <2>5. QED
    BY <2>1, <2>2, <2>3, <2>4 DEF SameFor, Moved
<1>3. /\ backlog' \in Seq(Clients)
      /\ \A d : Queued(d)' <=> Queued(d) \/ d = c
      /\ Distinct'
  BY <1>1, <1>2, Enqueue DEF Shape
<1>4. Shape'
  BY <1>1, <1>2, <1>3 DEF Shape, Moved
<1>5. Queued(c)' /\ ~Served(c)'
  BY <1>1, <1>2, <1>3 DEF Served
<1>6. Progress(c)'
  <2>1. Small(to_server'[c]) /\ Asks(c, <<"magic", client[c].magic>>)'
    BY <1>1, <1>2, OneMessage DEF Small, Asks, Quiet, Moved
  <2>2. QED
    BY <1>1, <1>2, <1>5, <2>1 DEF Progress, Asks, Moved, Keeps
<1>7. server.client = c => server.at \notin Ran
  BY <1>1 DEF Served
<1>8. QED
  BY <1>1, <1>2, <1>3, <1>4, <1>6, <1>7, ClientFrame DEF Handshaking, Moved, Keeps

-----------------------------------------------------------------------------
(* Steps of the server                                                     *)

\* The step of the server with client c takes it to l; a, b and open as above.
Turns(c, l, a, b, open) ==
  /\ server'.at = l /\ l # "dead" /\ server'.client \in Clients /\ server'.closed \in BOOLEAN
  /\ l # "accept" => server'.client = c
  /\ to_server'[c] = a /\ to_client'[c] = b /\ server_open'[c] = open
  /\ \A d \in Clients \ {c} : SameFor(d)
  /\ UNCHANGED <<backlog, client, client_open>>
  /\ Shape'

\* The other clients do not see such a step.
LEMMA TurnsFrame ==
  ASSUME CInv, NEW c \in Clients, Served(c), NEW l, NEW a, NEW b, NEW open,
         Turns(c, l, a, b, open)
  PROVE  /\ Queued(c)' <=> Queued(c)
         /\ Served(c)' <=> l # "accept"
         /\ /\ Progress(c)' /\ OneInstance'
            /\ l \in {"accept"} \cup Running \cup Handshaking
            /\ server'.saved \in Uninitialised \cup Instances
            /\ live' \subseteq Instances /\ created' \in 0 .. MaxInstances /\ bogus' \in BOOLEAN
            => CInv'
<1>1. \A d : Queued(d)' <=> Queued(d)
  BY DEF Turns, Queued
<1>2. (Served(c)' <=> l # "accept") /\ Deserted'
  BY DEF Turns, Served, Deserted
<1>3. ASSUME NEW d \in Clients \ {c} PROVE Progress(d)'
  <2>1. ~Served(d) /\ ~Served(d)' /\ server.at # "dead"
    BY DEF Turns, Served
  <2>2. QED
    BY <1>1, <2>1, Elsewhere DEF Turns, CInv
<1>4. ASSUME l \in {"accept"} \cup Running \cup Handshaking,
             server'.saved \in Uninitialised \cup Instances,
             live' \subseteq Instances, created' \in 0 .. MaxInstances, bogus' \in BOOLEAN
      PROVE  TypeOK'
  BY <1>4 DEF CInv, TypeOK, Turns
<1>5. QED
  BY <1>1, <1>2, <1>3, <1>4 DEF Turns, CInv

\* The fields of a server that listens, and of one whose fields are assigned to.
LEMMA ServerFacts ==
  ASSUME Shape, TypeOK
  PROVE  /\ DOMAIN Listening = ServerFields /\ Listening.at = "accept"
         /\ Listening.client \in Clients /\ Listening.saved = Null /\ Listening.closed = FALSE
         /\ \A l : Step(l) => /\ DOMAIN server' = ServerFields /\ server'.at = l
                              /\ server'.client = server.client /\ server'.saved = server.saved
                              /\ server'.theirs = server.theirs /\ server'.reply = server.reply
                              /\ server'.closed = server.closed
         /\ \A r : Reply(r) => /\ DOMAIN server' = ServerFields /\ server'.at = "reply"
                               /\ server'.client = server.client /\ server'.saved = server.saved
                               /\ server'.reply = r /\ server'.closed = server.closed
<1>1. (CHOOSE c \in Clients : TRUE) \in Clients
  BY ClientsAssumption
<1>2. QED
  BY <1>1 DEF Shape, Step, Reply, Listening, ServerFields

\* What a step changes in the streams of the client that is served.
LEMMA TurnStreams ==
  ASSUME Shape, NEW c \in Clients, DOMAIN server' = ServerFields,
         server'.client \in Clients, server'.at # "accept" => server'.client = c,
         server'.at # "dead", server'.closed \in BOOLEAN,
         UNCHANGED <<backlog, client, client_open>>,
         server_open' = server_open \/ ServerCloses(c),
         to_server' = to_server \/ FromClient(c),
         to_client' = to_client \/ \E m : ToClient(c, m)
  PROVE  Turns(c, server'.at, to_server'[c], to_client'[c], server_open'[c])
<1>1. DOMAIN to_server' = Clients /\ \A d \in Clients \ {c} : to_server'[d] = to_server[d]
  BY StreamFacts DEF Shape
<1>2. DOMAIN to_client' = Clients /\ \A d \in Clients \ {c} : to_client'[d] = to_client[d]
  BY StreamFacts DEF Shape
<1>3. /\ server_open' \in [Clients -> BOOLEAN]
      /\ \A d \in Clients \ {c} : server_open'[d] = server_open[d]
  BY StreamFacts DEF Shape
<1>4. QED
  BY <1>1, <1>2, <1>3 DEF Turns, Shape, SameFor

\* The message the server takes is the only one on its way.
LEMMA Takes ==
  ASSUME Shape, NEW c \in Clients, FromClient(c), Small(to_server[c]), to_server[c] # <<>>
  PROVE  to_server'[c] = <<>>
<1>1. to_server'[c] = Tail(to_server[c])
  BY StreamFacts
<1>2. QED
  BY <1>1, OneMessage DEF Small

\* A message to a client that has none waiting.
LEMMA Tells ==
  ASSUME Shape, NEW c \in Clients, NEW m, ToClient(c, m), to_client[c] = <<>>
  PROVE  to_client'[c] = <<m>>
<1>1. to_client'[c] = Append(to_client[c], m)
  BY StreamFacts
<1>2. QED
  BY <1>1, OneMessage

\* The server goes back to its accept loop: the client is refused or has gone.
LEMMA TryAgainStep ==
  ASSUME CInv, NEW c \in Clients, Served(c), TryAgain(c),
         UNCHANGED <<backlog, client, client_open>>,
         to_server' = to_server \/ (FromClient(c) /\ to_server[c] # <<>>),
         to_client' = to_client \/ \E m : ToClient(c, m),
         \/ client[c].at \in Gone
         \/ client[c].at = "magic" /\ to_client[c] = <<>> /\ to_client' = to_client,
         live' = {}, created' = created, bogus' \in BOOLEAN
  PROVE  CInv'
<1>1. Shape /\ TypeOK /\ Progress(c)
  BY DEF CInv
<1>2. /\ DOMAIN server' = ServerFields /\ server'.at = "accept"
      /\ server'.client \in Clients /\ server'.saved = Null /\ server'.closed = FALSE
  BY <1>1, ServerFacts DEF TryAgain
<1>3. server_open'[c] = FALSE
  BY <1>1, StreamFacts DEF TryAgain
<1>4. Turns(c, "accept", to_server'[c], to_client'[c], FALSE)
  BY <1>1, <1>2, <1>3, TurnStreams DEF TryAgain
<1>5. Small(to_server'[c]) /\ ~Queued(c)
  BY <1>1, Takes DEF Progress, Small
<1>6. Progress(c)'
  BY <1>1, <1>3, <1>4, <1>5, TurnsFrame DEF Progress, Turns
<1>7. OneInstance'
  BY <1>2 DEF OneInstance
<1>8. QED
  BY <1>1, <1>2, <1>4, <1>6, <1>7, TurnsFrame, UninitialisedAssumption DEF TypeOK

\* The server accepts the first client of the queue.
LEMMA AcceptStep == ASSUME CInv, Accept PROVE CInv'
<1> PICK c : c = Head(backlog)
  OBVIOUS
<1>1. Shape /\ TypeOK /\ Distinct /\ OneInstance /\ server.at = "accept" /\ backlog # <<>>
  BY DEF CInv, TypeOK, Distinct, Accept
<1>2. /\ backlog' \in Seq(Clients) /\ c \in Clients /\ Queued(c) /\ ~Queued(c)'
      /\ \A d : d # c => (Queued(d)' <=> Queued(d))
      /\ Distinct'
  BY <1>1, Dequeue DEF Shape, Accept
<1>3. /\ DOMAIN server' = ServerFields /\ server'.at = "magic" /\ server'.client = c
      /\ server'.saved = Null /\ server'.closed = FALSE
  BY <1>1, ServerFacts DEF Accept, ServerFields
<1>4. UNCHANGED <<client, to_server, to_client, client_open, server_open, live, created, bogus>>
  BY DEF Accept, streams, runtime
<1>5. Shape' /\ TypeOK' /\ OneInstance' /\ Deserted'
  BY <1>1, <1>2, <1>3, <1>4, UninitialisedAssumption
  DEF Shape, TypeOK, OneInstance, Distinct, Handshaking, Deserted
<1>6. ASSUME NEW d \in Clients \ {c} PROVE Progress(d)'
  <2>1. Progress(d) /\ SameFor(d) /\ ~Served(d) /\ ~Served(d)' /\ server.at # "dead"
    BY <1>1, <1>3, <1>4 DEF CInv, SameFor, Served
  <2>2. QED
    BY <1>2, <2>1, Elsewhere
<1>7. Progress(c)'
  <2>1. Progress(c) /\ Served(c)'
    BY <1>2, <1>3 DEF CInv, Served
  <2>2. QED
    BY <1>2, <1>3, <1>4, <2>1 DEF Progress, Talk, Asks
<1>8. QED
  BY <1>2, <1>5, <1>6, <1>7 DEF CInv

\* The client's magic arrives.
LEMMA CheckMagicStep == ASSUME CInv, CheckMagic PROVE CInv'
<1> PICK c : c = server.client
  OBVIOUS
<1>1. /\ Shape /\ TypeOK /\ OneInstance /\ c \in Clients /\ Progress(c) /\ Served(c)
      /\ server.at = "magic" /\ to_server[c] # <<>> /\ FromClient(c)
      /\ UNCHANGED <<backlog, client, client_open, live, created, bogus>>
  BY DEF CInv, CheckMagic, Serving, Served, TypeOK, runtime
<1>2. /\ live = {} /\ Small(to_server[c]) /\ ~Queued(c) /\ server_open[c]
      /\ \/ client[c].at \in Gone
         \/ client[c].at = "magic" /\ Asks(c, <<"magic", client[c].magic>>)
  BY <1>1 DEF OneInstance, Progress, Talk, Quiet, Handshaking, Calling, TypeOK, InCall,
     Answers
<1>3. CASE Head(to_server[c])[2] = ServerMagic
  <2>1. /\ ToClient(c, <<"magic", ServerMagic>>) /\ Step("versions")
        /\ UNCHANGED server_open
    BY <1>3 DEF CheckMagic
  <2>2. /\ DOMAIN server' = ServerFields /\ server'.at = "versions"
        /\ server'.client = c /\ server'.saved = server.saved /\ server'.closed = server.closed
        /\ server'.closed \in BOOLEAN
    BY <1>1, <2>1, ServerFacts DEF TypeOK
  <2>3. to_server'[c] = <<>>
    BY <1>1, <1>2, Takes
  <2>4. Turns(c, "versions", <<>>, to_client'[c], server_open[c])
    BY <1>1, <2>1, <2>2, <2>3, TurnStreams
  <2>5. client[c].at \notin Gone => to_client'[c] = <<<<"magic", ServerMagic>>>>
    BY <1>1, <1>2, <2>1, Tells DEF Asks
  <2>6. Progress(c)'
    BY <1>1, <1>2, <2>2, <2>3, <2>4, <2>5, TurnsFrame
    DEF Progress, Turns, Talk, Answers, Small
  <2>7. OneInstance'
    BY <1>1, <1>2, <2>2 DEF OneInstance
  <2>8. QED
    BY <1>1, <2>2, <2>4, <2>6, <2>7, TurnsFrame DEF TypeOK, Handshaking
<1>4. CASE Head(to_server[c])[2] # ServerMagic
  <2>1. TryAgain(c) /\ UNCHANGED to_client
    BY <1>4 DEF CheckMagic
  <2>2. QED
    BY <1>1, <1>2, <2>1, TryAgainStep DEF Asks, TypeOK
<1>5. QED
  BY <1>3, <1>4

\* The versions are exchanged.
LEMMA ExchangeVersionsStep == ASSUME CInv, ExchangeVersions PROVE CInv'
<1> PICK c : c = server.client
  OBVIOUS
<1>1. /\ Shape /\ TypeOK /\ OneInstance /\ c \in Clients /\ Progress(c) /\ Served(c)
      /\ server.at = "versions" /\ to_server[c] # <<>> /\ FromClient(c)
      /\ ToClient(c, <<"versions", ServerVersion>>)
      /\ UNCHANGED <<backlog, client, client_open, server_open, live, created, bogus>>
  BY DEF CInv, ExchangeVersions, Serving, Served, TypeOK, runtime
<1>2. /\ live = {} /\ Small(to_server[c]) /\ ~Queued(c) /\ server_open[c]
      /\ \/ client[c].at \in Gone
         \/ /\ client[c].at = "versions" /\ client[c].magic = ServerMagic
            /\ Asks(c, <<"versions", client[c].version>>)
  BY <1>1 DEF OneInstance, Progress, Talk, Quiet, Handshaking, Calling, TypeOK, Answers,
     InCall
<1>3. /\ DOMAIN server' = ServerFields /\ server'.at = "verdict" /\ server'.client = c
      /\ server'.saved = server.saved /\ server'.theirs = Head(to_server[c])[2]
      /\ server'.closed = server.closed
  BY <1>1 DEF ExchangeVersions, Shape, ServerFields
<1>4. /\ client[c].at \notin Gone => server'.theirs = client[c].version
      /\ server'.closed \in BOOLEAN
  BY <1>1, <1>2, <1>3, OneMessage DEF Asks, TypeOK
<1>5. to_server'[c] = <<>>
  BY <1>1, <1>2, Takes
<1>6. client[c].at \notin Gone => to_client'[c] = <<<<"versions", ServerVersion>>>>
  BY <1>1, <1>2, Tells DEF Asks
<1>7. Turns(c, "verdict", <<>>, to_client'[c], server_open[c])
  BY <1>1, <1>3, <1>4, <1>5, TurnStreams
<1>8. Progress(c)'
  BY <1>1, <1>2, <1>3, <1>4, <1>5, <1>6, <1>7, TurnsFrame
  DEF Progress, Turns, Talk, Answers, Small
<1>9. OneInstance'
  BY <1>1, <1>2, <1>3 DEF OneInstance
<1>10. QED
  BY <1>1, <1>3, <1>7, <1>8, <1>9, TurnsFrame DEF TypeOK, Handshaking

\* The client's verdict arrives; one that is still there agrees.
LEMMA VerdictStep == ASSUME CInv, Verdict PROVE CInv'
<1> PICK c : c = server.client
  OBVIOUS
<1>1. /\ Shape /\ TypeOK /\ OneInstance /\ c \in Clients /\ Progress(c) /\ Served(c)
      /\ server.at = "verdict" /\ to_server[c] # <<>> /\ FromClient(c)
      /\ UNCHANGED <<backlog, client, client_open, live, created, bogus>>
  BY DEF CInv, Verdict, Serving, Served, TypeOK, runtime
<1>2. /\ live = {} /\ Small(to_server[c]) /\ ~Queued(c) /\ server_open[c]
      /\ \/ client[c].at \in Gone
         \/ /\ client[c].at = "verdict" /\ Matches(c) /\ server.theirs = ServerVersion
            /\ Asks(c, <<"ok", 1>>)
  BY <1>1 DEF OneInstance, Progress, Talk, Quiet, Handshaking, Calling, TypeOK, Answers,
     InCall
<1>3. client[c].at \notin Gone => Head(to_server[c])[2] = 1
  BY <1>2, OneMessage DEF Asks
<1>4. CASE Head(to_server[c])[2] = 0
  <2>1. TryAgain(c) /\ UNCHANGED to_client /\ client[c].at \in Gone
    BY <1>3, <1>4 DEF Verdict
  <2>2. QED
    BY <1>1, <1>2, <2>1, TryAgainStep DEF TypeOK
<1>5. CASE Head(to_server[c])[2] # 0 /\ server.theirs # ServerVersion
  <2>1. TryAgain(c) /\ ToClient(c, <<"ok", 0>>) /\ client[c].at \in Gone
    BY <1>2, <1>5 DEF Verdict
  <2>2. QED
    BY <1>1, <1>2, <2>1, TryAgainStep DEF TypeOK
<1>6. CASE Head(to_server[c])[2] # 0 /\ server.theirs = ServerVersion
  <2>1. PICK h \in Uninitialised :
          /\ server' = [server EXCEPT !.at = "run", !.saved = h]
          /\ ToClient(c, <<"ok", 1>>) /\ UNCHANGED server_open
    BY <1>6 DEF Verdict
  <2>2. /\ DOMAIN server' = ServerFields /\ server'.at = "run" /\ server'.client = c
        /\ server'.saved = h /\ server'.closed = server.closed /\ server'.closed \in BOOLEAN
    BY <1>1, <2>1 DEF Shape, ServerFields, TypeOK
  <2>3. h \notin Instances
    BY UninitialisedAssumption
  <2>4. to_server'[c] = <<>>
    BY <1>1, <1>2, Takes
  <2>5. client[c].at \notin Gone => to_client'[c] = <<<<"ok", 1>>>>
    BY <1>1, <1>2, <2>1, Tells DEF Asks
  <2>6. Turns(c, "run", <<>>, to_client'[c], server_open[c])
    BY <1>1, <2>1, <2>2, <2>4, TurnStreams
  <2>7. Progress(c)'
    BY <1>1, <1>2, <2>2, <2>3, <2>4, <2>5, <2>6, TurnsFrame
    DEF Progress, Turns, Talk, Answers, Small, Matches
  <2>8. OneInstance'
    BY <1>1, <1>2, <2>2, <2>3, <2>4 DEF OneInstance
  <2>9. QED
    BY <1>1, <2>2, <2>6, <2>7, <2>8, TurnsFrame DEF TypeOK
<1>7. QED
  BY <1>4, <1>5, <1>6

\* A read of the handshake meets the end of the stream.
LEMMA HandshakeEofStep == ASSUME CInv, HandshakeEof PROVE CInv'
<1> PICK c : c = server.client
  OBVIOUS
<1>1. /\ OneInstance /\ c \in Clients /\ Progress(c) /\ Served(c) /\ TryAgain(c) /\ TypeOK
      /\ server.at \in Handshaking /\ ~client_open[c]
      /\ UNCHANGED <<backlog, client, client_open, to_server, to_client, live, created, bogus>>
  BY DEF CInv, HandshakeEof, Served, TypeOK, runtime, Handshaking
<1>2. live = {} /\ client[c].at \in Gone
  BY <1>1 DEF OneInstance, Progress, Handshaking
<1>3. live' = {} /\ bogus' \in BOOLEAN
  BY <1>1, <1>2 DEF TypeOK
<1>4. /\ to_server' = to_server /\ to_client' = to_client /\ created' = created
      /\ UNCHANGED <<backlog, client, client_open>>
  BY <1>1
<1>5. QED
  BY <1>1, <1>2, <1>3, <1>4, TryAgainStep

\* The transport of a client that has gone stops: the server destroys the instance.
LEMMA EndRunStep == ASSUME CInv, EndRun PROVE CInv'
<1> PICK c : c = server.client
  OBVIOUS
<1>1. /\ OneInstance /\ c \in Clients /\ Progress(c) /\ Served(c) /\ TryAgain(c)
      /\ server.at = "run" /\ server.closed
      /\ UNCHANGED <<backlog, client, client_open, to_server, to_client, created>>
  BY DEF CInv, EndRun, Served, TypeOK
<1>2. client[c].at \in Gone /\ live = {server.saved} \cap Instances
  BY <1>1 DEF OneInstance, Progress, Talk
<1>3. live' = {} /\ bogus' \in BOOLEAN
  <2>1. CASE server.saved # Null
    BY <1>2, <2>1 DEF EndRun
  <2>2. CASE server.saved = Null
    BY <1>2, <2>2 DEF EndRun, CInv, TypeOK, Null, Instances
  <2>3. QED
    BY <2>1, <2>2
<1>4. /\ to_server' = to_server /\ to_client' = to_client /\ created' = created
      /\ UNCHANGED <<backlog, client, client_open>>
  BY <1>1
<1>5. QED
  BY <1>1, <1>2, <1>3, <1>4, TryAgainStep

\* A handler takes the request of the client and prepares its answer.
LEMMA HandlerStep ==
  ASSUME CInv, NEW c \in Clients, c = server.client, Serving("run"), FromClient(c),
         UNCHANGED <<backlog, client, to_client, client_open, server_open>>,
         DOMAIN server' = ServerFields, server'.at = "reply", server'.client = c,
         server'.closed = server.closed,
         server'.saved \in Uninitialised \cup Instances, live' = {server'.saved} \cap Instances,
         created' \in 0 .. MaxInstances, bogus' \in BOOLEAN,
         client[c].at = "creating" =>
           (Head(to_server[c])[1] = "create" => TellsInstance(server.reply)'),
         client[c].at = "polling" =>
           (Head(to_server[c])[1] = "poll" => server'.saved = server.saved)
  PROVE  CInv'
<1>1. /\ Shape /\ TypeOK /\ OneInstance /\ Progress(c) /\ Served(c)
      /\ server.at = "run" /\ to_server[c] # <<>>
  BY DEF CInv, Serving, Served
<1>2. /\ Small(to_server[c]) /\ ~Queued(c) /\ server_open[c]
      /\ \/ client[c].at \in Gone
         \/ /\ client[c].at \in Calling /\ Matches(c) /\ to_client[c] = <<>>
            /\ ~server.closed
            /\ client[c].at = "creating" => /\ Head(to_server[c])[1] = "create"
                                            /\ client[c].saved = Null /\ client[c].held = Null
            /\ client[c].at = "destroying" => client[c].saved # Null /\ client[c].held = Null
            /\ client[c].at = "polling" => /\ Head(to_server[c])[1] = "poll"
                                           /\ client[c].held # Null /\ KnowsInstance(c)
  BY <1>1, OneMessage DEF Progress, Talk, Quiet, Handshaking, Calling, TypeOK, Answers, Asks, InCall
<1>3. to_server'[c] = <<>> /\ server'.closed \in BOOLEAN
  BY <1>1, <1>2, Takes DEF TypeOK
<1>4. Turns(c, "reply", <<>>, to_client[c], server_open[c])
  BY <1>1, <1>3, TurnStreams
<1>5. client[c].at \notin Gone => Talk(c)'
  BY <1>1, <1>2, <1>3, <1>4 DEF Talk, Turns, Quiet, KnowsInstance, InCall, Calling, Matches
<1>6. Progress(c)'
  BY <1>1, <1>2, <1>3, <1>4, <1>5, TurnsFrame DEF Progress, Turns, Small, Calling
<1>7. OneInstance'
  BY <1>3 DEF OneInstance
<1>8. QED
  BY <1>1, <1>4, <1>6, <1>7, TurnsFrame DEF TypeOK

\* create_instance_handler: the client asks only while there is no instance.
LEMMA HandleCreateStep == ASSUME CInv, HandleCreate PROVE CInv'
<1> PICK c : c = server.client
  OBVIOUS
<1>1. /\ Shape /\ TypeOK /\ OneInstance /\ c \in Clients /\ Serving("run") /\ FromClient(c)
      /\ Head(to_server[c])[1] = "create" /\ bogus' = bogus
      /\ UNCHANGED <<backlog, client, to_client, client_open, server_open>>
  BY DEF CInv, HandleCreate, Asked, TypeOK
<1>2. server.saved \notin Instances /\ live = {}
  BY <1>1 DEF OneInstance, Serving
<1>3. CASE Reply(<<"created", Null>>) /\ UNCHANGED <<live, created, pending, raised>>
  <2>1. /\ DOMAIN server' = ServerFields /\ server'.at = "reply" /\ server'.client = c
        /\ server'.saved = server.saved /\ server'.reply = <<"created", Null>>
        /\ server'.closed = server.closed
    BY <1>1, <1>3, ServerFacts
  <2>2. TellsInstance(server.reply)'
    BY <1>2, <2>1 DEF TellsInstance
  <2>3. /\ server'.saved \in Uninitialised \cup Instances /\ live' = {server'.saved} \cap Instances
        /\ created' \in 0 .. MaxInstances /\ bogus' \in BOOLEAN
    BY <1>1, <1>2, <1>3, <2>1 DEF TypeOK
  <2>4. QED
    BY <1>1, <2>1, <2>2, <2>3, HandlerStep
<1>4. CASE /\ created < MaxInstances /\ created' = created + 1 /\ live' = live \cup {created'}
           /\ server' = [server EXCEPT !.at = "reply", !.saved = created',
                                       !.reply = <<"created", created'>>]
  <2>1. /\ DOMAIN server' = ServerFields /\ server'.at = "reply" /\ server'.client = c
        /\ server'.saved = created' /\ server'.reply = <<"created", created'>>
        /\ server'.closed = server.closed
    BY <1>1, <1>4 DEF Shape, ServerFields
  <2>2. created' \in Instances /\ created' \in 0 .. MaxInstances
    BY <1>1, <1>4, BoundsAssumption DEF TypeOK, Instances
  <2>3. TellsInstance(server.reply)'
    BY <2>1, <2>2 DEF TellsInstance, Null, Instances
  <2>4. /\ server'.saved \in Uninitialised \cup Instances /\ live' = {server'.saved} \cap Instances
        /\ bogus' \in BOOLEAN
    BY <1>1, <1>2, <1>4, <2>1, <2>2 DEF TypeOK
  <2>5. client[c].at = "polling" =>
          (Head(to_server[c])[1] = "poll" => server'.saved = server.saved)
    BY <1>1
  <2>6. QED
    BY <1>1, <2>1, <2>2, <2>3, <2>4, <2>5, HandlerStep
<1>5. QED
  BY <1>3, <1>4 DEF HandleCreate

\* destroy_instance_handler: the saved instance is forgotten when it is destroyed.
LEMMA HandleDestroyStep == ASSUME CInv, HandleDestroy PROVE CInv'
<1> PICK c : c = server.client
  OBVIOUS
<1>1. /\ Shape /\ TypeOK /\ OneInstance /\ c \in Clients /\ Serving("run") /\ FromClient(c)
      /\ Head(to_server[c])[1] = "destroy" /\ created' = created
      /\ UNCHANGED <<backlog, client, to_client, client_open, server_open>>
  BY DEF CInv, HandleDestroy, Asked, TypeOK
<1>2. live = {server.saved} \cap Instances
  BY <1>1 DEF OneInstance, Serving
<1>3. /\ client[c].at = "creating" => Head(to_server[c])[1] # "create"
      /\ client[c].at = "polling" => Head(to_server[c])[1] # "poll"
  BY <1>1
<1>4. CASE Head(to_server[c])[2] = server.saved
  <2>1. /\ server' = [server EXCEPT !.at = "reply", !.saved = Null, !.reply = <<"destroyed", 1>>]
        /\ live' = live \ {server.saved} /\ bogus' \in BOOLEAN
    BY <1>1, <1>4 DEF HandleDestroy, TypeOK
  <2>2. /\ DOMAIN server' = ServerFields /\ server'.at = "reply" /\ server'.client = c
        /\ server'.saved = Null /\ server'.closed = server.closed
    BY <1>1, <2>1 DEF Shape, ServerFields
  <2>3. /\ server'.saved \in Uninitialised \cup Instances /\ live' = {server'.saved} \cap Instances
        /\ created' \in 0 .. MaxInstances
    BY <1>1, <1>2, <2>1, <2>2, UninitialisedAssumption DEF TypeOK
  <2>4. QED
    BY <1>1, <1>3, <2>1, <2>2, <2>3, HandlerStep
<1>5. CASE Head(to_server[c])[2] # server.saved
  <2>1. Reply(<<"destroyed", 0>>) /\ UNCHANGED <<live, bogus>>
    BY <1>5 DEF HandleDestroy
  <2>2. /\ DOMAIN server' = ServerFields /\ server'.at = "reply" /\ server'.client = c
        /\ server'.saved = server.saved /\ server'.closed = server.closed
    BY <1>1, <2>1, ServerFacts
  <2>3. /\ server'.saved \in Uninitialised \cup Instances /\ live' = {server'.saved} \cap Instances
        /\ created' \in 0 .. MaxInstances /\ bogus' \in BOOLEAN
    BY <1>1, <1>2, <2>1, <2>2 DEF TypeOK
  <2>4. QED
    BY <1>1, <1>3, <2>2, <2>3, HandlerStep
<1>6. QED
  BY <1>4, <1>5

\* The POLL_EVENT handler leaves the instance alone.
LEMMA HandlePollStep == ASSUME CInv, HandlePoll PROVE CInv'
<1> PICK c : c = server.client
  OBVIOUS
<1>1. /\ Shape /\ TypeOK /\ OneInstance /\ c \in Clients /\ Serving("run") /\ FromClient(c)
      /\ Head(to_server[c])[1] = "poll" /\ UNCHANGED <<live, created, bogus>>
      /\ UNCHANGED <<backlog, client, to_client, client_open, server_open>>
  BY DEF CInv, HandlePoll, Asked, TypeOK
<1>2. PICK r : Reply(r)
  BY DEF HandlePoll
<1>3. /\ DOMAIN server' = ServerFields /\ server'.at = "reply" /\ server'.client = c
      /\ server'.saved = server.saved /\ server'.closed = server.closed
  BY <1>1, <1>2, ServerFacts
<1>4. /\ server'.saved \in Uninitialised \cup Instances /\ live' = {server'.saved} \cap Instances
      /\ created' \in 0 .. MaxInstances /\ bogus' \in BOOLEAN
  BY <1>1, <1>3 DEF TypeOK, OneInstance, Serving
<1>5. client[c].at = "creating" => Head(to_server[c])[1] # "create"
  BY <1>1
<1>6. QED
  BY <1>1, <1>3, <1>4, <1>5, HandlerStep

\* A step that moves only the server, which serves c, from l to m within the run.
Advances(c, l, m, closed) ==
  /\ server.client = c /\ server.at = l
  /\ DOMAIN server' = ServerFields /\ server'.at = m /\ server'.client = c
  /\ server'.saved = server.saved /\ server'.reply = server.reply /\ server'.closed = closed
  /\ UNCHANGED <<backlog, client, to_server, client_open, server_open, live, created, bogus>>

\* What such a step leaves to be shown is the part of its client.
LEMMA AdvancesFrame ==
  ASSUME CInv, NEW c \in Clients, NEW l \in Running, NEW m \in Running, NEW closed \in BOOLEAN,
         Advances(c, l, m, closed), to_client' = to_client \/ \E r : ToClient(c, r),
         client[c].at \notin Gone => Talk(c)'
  PROVE  CInv'
<1>1. Shape /\ TypeOK /\ OneInstance /\ Progress(c) /\ Served(c)
  BY DEF CInv, Served, Advances
<1>2. Turns(c, m, to_server[c], to_client'[c], server_open[c])
  <2>1. m # "accept" /\ m # "dead"
    OBVIOUS
  <2>2. QED
    BY <1>1, <2>1, TurnStreams DEF Advances
<1>3. Progress(c)'
  BY <1>1, <1>2, TurnsFrame DEF Progress, Turns, Small, Advances
<1>4. OneInstance'
  BY <1>1 DEF OneInstance, Advances
<1>5. QED
  BY <1>1, <1>2, <1>3, <1>4, TurnsFrame DEF TypeOK, Advances

\* The producer meets the end of the stream of a client that has gone.
LEMMA MeetEofStep == ASSUME CInv, MeetEof PROVE CInv'
<1> PICK c : c = server.client
  OBVIOUS
<1>1. /\ c \in Clients /\ Progress(c) /\ server.at \in Running /\ ~client_open[c]
      /\ UNCHANGED to_client
  BY DEF CInv, MeetEof, TypeOK, streams
<1>2. Advances(c, server.at, server.at, TRUE)
  BY <1>1 DEF Advances, MeetEof, streams, runtime, CInv, Shape, ServerFields
<1>3. client[c].at \in Gone
  BY <1>1 DEF Progress
<1>4. QED
  BY <1>1, <1>2, <1>3, AdvancesFrame

\* The handler starts its answer.
LEMMA StartReplyStep == ASSUME CInv, StartReply PROVE CInv'
<1> PICK c : c = server.client
  OBVIOUS
<1>1. /\ Shape /\ TypeOK /\ c \in Clients /\ Progress(c) /\ Served(c)
      /\ server.at = "reply" /\ ~server.closed /\ Step("sending")
      /\ UNCHANGED <<backlog, client, streams, runtime>>
  BY DEF CInv, StartReply, Served, TypeOK
<1>2. Advances(c, "reply", "sending", FALSE) /\ UNCHANGED to_client
  BY <1>1, ServerFacts DEF Advances, streams, runtime, TypeOK
<1>3. client[c].at \notin Gone => Talk(c)
  BY <1>1 DEF Progress
<1>4. client[c].at \notin Gone => Talk(c)'
  BY <1>1, <1>2, <1>3 DEF Talk, Advances, Quiet, KnowsInstance, InCall, Matches, TellsInstance
<1>5. QED
  BY <1>1, <1>2, <1>4, AdvancesFrame

\* A closed transport starts no answer: its client has gone.
LEMMA ReplyClosedStep == ASSUME CInv, ReplyClosed PROVE CInv'
<1> PICK c : c = server.client
  OBVIOUS
<1>1. /\ Shape /\ TypeOK /\ c \in Clients /\ Progress(c) /\ Served(c)
      /\ server.at = "reply" /\ server.closed /\ Step("run")
      /\ UNCHANGED <<backlog, client, streams, runtime>>
  BY DEF CInv, ReplyClosed, Served, TypeOK
<1>2. Advances(c, "reply", "run", TRUE) /\ UNCHANGED to_client
  BY <1>1, ServerFacts DEF Advances, streams, runtime, TypeOK
<1>3. client[c].at \in Gone
  BY <1>1 DEF Progress, Talk
<1>4. QED
  BY <1>1, <1>2, <1>3, AdvancesFrame

\* The answer of the handler goes to the client, if it is still there.
LEMMA SendReplyStep == ASSUME CInv, SendReply PROVE CInv'
<1> PICK c : c = server.client
  OBVIOUS
<1>1. /\ Shape /\ TypeOK /\ c \in Clients /\ Progress(c) /\ Served(c)
      /\ server.at = "sending" /\ ~server.closed /\ Step("run")
      /\ UNCHANGED <<backlog, client, to_server, client_open, server_open, live, created, bogus>>
  BY DEF CInv, SendReply, Served, TypeOK, runtime
<1>2. \/ client[c].at \in Gone
      \/ client[c].at \in Calling /\ Matches(c) /\ Quiet(c) /\ client_open[c] /\ Talk(c)
  BY <1>1 DEF Progress, Talk, Handshaking, Calling, TypeOK, InCall
<1>3. Advances(c, "sending", "run", FALSE)
  BY <1>1, ServerFacts DEF Advances, TypeOK
<1>4. client[c].at \notin Gone => to_client'[c] = <<server.reply>>
  BY <1>1, <1>2, Tells DEF SendReply, Quiet
<1>5. to_client' = to_client \/ \E m : ToClient(c, m)
  BY DEF SendReply
<1>6. client[c].at \notin Gone => Talk(c)'
  BY <1>1, <1>2, <1>3, <1>4
  DEF Talk, Advances, Quiet, Answers, KnowsInstance, InCall, Calling, Matches, TellsInstance
<1>7. QED
  BY <1>1, <1>3, <1>5, <1>6, AdvancesFrame

\* A flush that fails terminates the server: every stream and the listen queue are gone.
LEMMA FlushFailsStep == ASSUME CInv, FlushFails PROVE CInv'
<1>1. /\ Shape /\ TypeOK /\ OneInstance /\ server.client \in Clients
      /\ server.at = "sending" /\ ~client_open[server.client]
  BY DEF CInv, FlushFails, TypeOK
<1>2. /\ DOMAIN server' = ServerFields /\ server'.at = "dead"
      /\ server'.client = server.client /\ server'.saved = server.saved
      /\ server'.closed = server.closed
  BY <1>1, ServerFacts DEF FlushFails
<1>3. /\ backlog' = <<>> /\ server_open' = [c \in Clients |-> FALSE]
      /\ UNCHANGED <<client, to_server, to_client, client_open, live, created, bogus>>
  BY DEF FlushFails, runtime
<1>4. DOMAIN backlog' = {} /\ backlog' \in Seq(Clients)
  BY <1>3
<1>5. TypeOK' /\ Shape' /\ OneInstance' /\ Deserted'
  BY <1>1, <1>2, <1>3, <1>4 DEF TypeOK, Shape, OneInstance, Deserted
<1>6. ASSUME NEW c \in Clients PROVE Progress(c)'
  <2>1. Progress(c) /\ ~Served(c)' /\ ~Queued(c)' /\ server_open'[c] = FALSE
    BY <1>2, <1>3, <1>4 DEF CInv, Served, Queued
  <2>2. client[c].at \in {"start", "magic"} \cup Gone \/ Served(c)
    BY <2>1 DEF Progress
  <2>3. Served(c) => client[c].at \in Gone
    BY <1>1, <2>1 DEF Served, Progress
  <2>4. QED
    BY <1>2, <1>3, <2>1, <2>2, <2>3 DEF Progress, Quiet, Asks, Small
<1>7. QED
  BY <1>5, <1>6 DEF CInv

-----------------------------------------------------------------------------
(* The theorems                                                            *)

\* The initial state satisfies the invariant.
LEMMA InitCInv == Init => CInv
<1> SUFFICES ASSUME Init PROVE CInv
  OBVIOUS
<1>1. /\ DOMAIN Listening = ServerFields /\ Listening.at = "accept"
      /\ Listening.client \in Clients /\ Listening.saved = Null /\ Listening.closed = FALSE
  <2>1. (CHOOSE c \in Clients : TRUE) \in Clients
    BY ClientsAssumption
  <2>2. QED
    BY <2>1 DEF Listening, ServerFields
<1>2. \A c \in Clients : /\ client[c].at = "start" /\ client[c].saved = Null
                         /\ client[c].held = Null /\ DOMAIN client[c] = ClientFields
  BY DEF Init, NewClient, ClientFields
<1>3. Shape
  BY <1>1, <1>2 DEF Init, Shape, NewClient
<1>4. TypeOK
  <2>1. DOMAIN backlog = {}
    BY DEF Init
  <2>2. server.at = "accept" /\ server.client \in Clients /\ server.saved \in Uninitialised
        /\ server.closed \in BOOLEAN
    BY <1>1, UninitialisedAssumption DEF Init
  <2>3. live = {} /\ created = 0 /\ bogus = FALSE
    BY DEF Init
  <2>4. created \in 0 .. MaxInstances
    BY <2>3, BoundsAssumption
  <2>5. QED
    BY <1>2, <2>1, <2>2, <2>3, <2>4 DEF TypeOK
<1>5. OneInstance /\ Deserted
  BY <1>1 DEF Init, OneInstance, Deserted
<1>6. ASSUME NEW c \in Clients PROVE Progress(c)
  BY <1>1, <1>2 DEF Init, Progress, Queued, Served, Quiet, Small
<1>7. QED
  BY <1>3, <1>4, <1>5, <1>6 DEF CInv

\* A step that changes none of the variables the invariant is about.
LEMMA Unseen ==
  ASSUME CInv, UNCHANGED <<backlog, client, streams, server, live, created, bogus>>
  PROVE  CInv'
<1>1. /\ UNCHANGED <<backlog, client, to_server, to_client, client_open, server_open, server>>
      /\ UNCHANGED <<live, created, bogus>>
  BY DEF streams
<1>2. TypeOK' /\ Shape' /\ OneInstance' /\ Deserted'
  BY <1>1 DEF CInv, TypeOK, Shape, OneInstance, Deserted
<1>3. ASSUME NEW c \in Clients PROVE Progress(c)'
  <2>1. SameFor(c) /\ (Queued(c)' <=> Queued(c)) /\ Progress(c)
    BY <1>1 DEF SameFor, Queued, CInv
  <2>2. QED
    BY <1>1, <2>1, Elsewhere
<1>4. QED
  BY <1>2, <1>3 DEF CInv

\* Every step preserves the invariant.
LEMMA NextCInv == CInv /\ [Next]_vars => CInv'
<1> SUFFICES ASSUME CInv, [Next]_vars PROVE CInv'
  OBVIOUS
<1>1. ASSUME NEW c \in Clients, ClientStep(c) PROVE CInv'
  BY <1>1, ClientMagicStep, ClientVersionsStep, ClientVerdictStep, CreatedStep, DestroyedStep,
     PolledStep, ClientEofStep DEF ClientStep
<1>2. ASSUME NEW c \in Clients, AppStep(c) PROVE CInv'
  BY <1>2, ConnectStep, ConnectRefusedStep, CreateInstanceStep, DestroyInstanceStep, PollEventStep DEF AppStep
<1>3. ASSUME NEW c \in Clients, Quit(c) PROVE CInv'
  BY <1>3, QuitStep
<1>4. CASE ServerStep
  BY <1>4, AcceptStep, CheckMagicStep, ExchangeVersionsStep, VerdictStep, HandshakeEofStep,
     MeetEofStep, HandleCreateStep, HandleDestroyStep, HandlePollStep, StartReplyStep,
     ReplyClosedStep, SendReplyStep, FlushFailsStep, EndRunStep
  DEF ServerStep
<1>5. ASSUME NEW e, Raise(e) PROVE CInv'
  BY <1>5, Unseen DEF Raise
<1>6. CASE UNCHANGED vars
  BY <1>6, Unseen DEF vars, runtime
<1>7. QED
  BY <1>1, <1>2, <1>3, <1>4, <1>5, <1>6 DEF Next

\* The invariant holds in every reachable state.
LEMMA InductiveCInv == Spec => []CInv
<1>1. QED
  BY InitCInv, NextCInv, PTL DEF Spec

\* The variables of both programs keep their types, and a client waits in the listen queue
\* at most once.
THEOREM TypeCorrect == Spec => []TypeOK
<1>1. CInv => TypeOK
  BY DEF CInv
<1>2. QED
  BY <1>1, InductiveCInv, PTL

\* do_handshake decides alike on both sides, for any number of clients, of any builds,
\* that connect, are refused and end in any order: a client that is up is the one the
\* server runs for, and its magic and versions are the server's.
THEOREM HandshakeIsSound == Spec => []HandshakeAgrees
<1>1. CInv => HandshakeAgrees
  BY DEF CInv, HandshakeAgrees, IsUp, Calling, Progress, Talk, Served, Matches, InCall
<1>2. QED
  BY <1>1, InductiveCInv, PTL

\* Between two clients the runtime has no instance: Server::run destroys what the client
\* left, wherever it stopped.  Only a flush to a client that has gone keeps it from that: it
\* terminates the server, which leaves the instance of that client and no other.
THEOREM SlateIsClean == Spec => []CleanSlate
<1>1. CInv => CleanSlate
  BY DEF CInv, CleanSlate, OneInstance, Deserted, Handshaking
<1>2. QED
  BY <1>1, InductiveCInv, PTL

\* The instance that an application holds is the only one of the runtime, and it is the
\* server's saved_instance.
THEOREM HeldInstanceIsLive == Spec => []HeldIsLive
<1>1. CInv => HeldIsLive
  <2> SUFFICES ASSUME CInv, NEW c \in Clients, IsUp(c), client[c].held # Null
               PROVE  live = {client[c].held} /\ server.saved = client[c].held
    BY DEF HeldIsLive
  <2>1. Progress(c) /\ OneInstance
    BY DEF CInv
  <2>2. Served(c) /\ server.at \in Running /\ KnowsInstance(c)
    BY <2>1 DEF Progress, IsUp, Calling, Talk, InCall
  <2>3. QED
    BY <2>1, <2>2 DEF OneInstance, KnowsInstance
<1>2. QED
  BY <1>1, InductiveCInv, PTL

-----------------------------------------------------------------------------
(* The known events of a sequence                                          *)

\* A set of natural numbers that is not empty has a least element.
LEMMA LeastNat ==
  ASSUME NEW T \in SUBSET Nat, T # {}
  PROVE  \E m \in T : \A k \in T : m <= k
<1>1. \E x \in T : \A y \in T : ~ (<<y, x>> \in OpToRel(<, Nat))
  BY NatLessThanWellFounded, WFMin
<1>2. OpToRel(<, Nat) = {p \in Nat \X Nat : p[1] < p[2]}
  BY DEF OpToRel
<1>3. PICK x \in T : \A y \in T : ~ (<<y, x>> \in {p \in Nat \X Nat : p[1] < p[2]})
  BY <1>1, <1>2, Zenon
<1>4. ASSUME NEW y \in T PROVE x <= y
  <2>1. ~ (<<y, x>> \in {p \in Nat \X Nat : p[1] < p[2]})
    BY <1>3
  <2>2. ~(y < x)
    BY <2>1
  <2>3. QED
    BY <2>2
<1>5. QED
  BY <1>4

\* Induction over 0 .. n, for a set of numbers.
LEMMA UpTo ==
  ASSUME NEW n \in Nat, NEW S, 0 \in S, \A i \in 1 .. n : i - 1 \in S => i \in S
  PROVE  0 .. n \subseteq S
<1>1. SUFFICES ASSUME NEW k \in 0 .. n, k \notin S PROVE FALSE
  OBVIOUS
<1> DEFINE T == {i \in 0 .. n : i \notin S}
<1>2. PICK m \in T : \A j \in T : m <= j
  <2>1. T \in SUBSET Nat /\ k \in T
    BY <1>1
  <2>2. QED
    BY <2>1, LeastNat
<1>3. m \in 1 .. n /\ m - 1 \in 0 .. n /\ m - 1 \notin T
  BY <1>2
<1>4. QED
  BY <1>3

\* What the recursion of Deliverable does with the i-th event of s.
Keep(s, i, q) == IF s[i] \in Known THEN Append(q, s[i]) ELSE q

\* f is the table that this recursion computes for s.
Filters(f, s) ==
  /\ DOMAIN f = 0 .. Len(s) /\ f[0] = <<>>
  /\ \A i \in 1 .. Len(s) : f[i] = Keep(s, i, f[i - 1])

\* The entries of a table are sequences of known events.
LEMMA FiltersType ==
  ASSUME NEW E, NEW s \in Seq(E), NEW f, Filters(f, s)
  PROVE  \A i \in 0 .. Len(s) : f[i] \in Seq(Known)
<1> DEFINE S == {i \in 0 .. Len(s) : f[i] \in Seq(Known)}
<1>1. Len(s) \in Nat /\ <<>> \in Seq(Known)
  OBVIOUS
<1>2. 0 \in S
  <2>1. f[0] = <<>> /\ 0 \in 0 .. Len(s)
    BY <1>1 DEF Filters
  <2>2. f[0] \in Seq(Known)
    BY <1>1, <2>1
  <2>3. QED
    BY <2>1, <2>2
<1>3. ASSUME NEW i \in 1 .. Len(s), i - 1 \in S PROVE i \in S
  <2>1. f[i] = Keep(s, i, f[i - 1]) /\ f[i - 1] \in Seq(Known)
    BY <1>3 DEF Filters
  <2>2. \A q \in Seq(Known) : Keep(s, i, q) \in Seq(Known)
    BY AppendProperties DEF Keep
  <2>3. QED
    BY <2>1, <2>2
<1> HIDE DEF S
<1>4. 0 .. Len(s) \subseteq S
  BY <1>1, <1>2, <1>3, UpTo
<1>5. QED
  BY <1>4 DEF S

\* Two tables agree as far as their sequences do.
LEMMA FiltersAgree ==
  ASSUME NEW E, NEW s \in Seq(E), NEW t \in Seq(E), NEW f, NEW g, Filters(f, s), Filters(g, t),
         NEW n \in Nat, n <= Len(s), n <= Len(t), \A i \in 1 .. n : s[i] = t[i]
  PROVE  f[n] = g[n]
<1> DEFINE S == {i \in 0 .. n : f[i] = g[i]}
<1>1. Len(s) \in Nat /\ Len(t) \in Nat
  OBVIOUS
<1>2. 0 \in S
  BY <1>1 DEF Filters
<1>3. ASSUME NEW i \in 1 .. n, i - 1 \in S PROVE i \in S
  BY <1>1, <1>3 DEF Filters, Keep
<1> HIDE DEF S
<1>4. 0 .. n \subseteq S
  BY <1>1, <1>2, <1>3, UpTo
<1>5. QED
  BY <1>4 DEF S

\* There is such a table for every sequence.
LEMMA FiltersExists ==
  ASSUME NEW E, NEW s \in Seq(E)
  PROVE  \E f : Filters(f, s)
<1> DEFINE Upto(f, n) ==
             /\ DOMAIN f = 0 .. n /\ f[0] = <<>>
             /\ \A i \in 1 .. n : f[i] = Keep(s, i, f[i - 1])
           S == {n \in 0 .. Len(s) : \E f : Upto(f, n)}
<1>1. Len(s) \in Nat
  OBVIOUS
<1>2. 0 \in S
  <2>1. Upto([i \in 0 .. 0 |-> <<>>], 0)
    OBVIOUS
  <2>2. \E f : Upto(f, 0)
    BY <2>1
  <2>3. 0 \in 0 .. Len(s)
    BY <1>1
  <2> HIDE DEF Upto
  <2>4. QED
    BY <2>2, <2>3
<1>3. ASSUME NEW n \in 1 .. Len(s), n - 1 \in S PROVE n \in S
  <2>1. PICK f : Upto(f, n - 1)
    BY <1>3
  <2> DEFINE g == [i \in 0 .. n |-> IF i < n THEN f[i] ELSE Keep(s, n, f[n - 1])]
  <2>2. Upto(g, n)
    BY <1>1, <2>1
  <2> HIDE DEF g
  <2>3. QED
    BY <2>2
<1> HIDE DEF S
<1>4. 0 .. Len(s) \subseteq S
  BY <1>1, <1>2, <1>3, UpTo
<1>5. \E f : Upto(f, Len(s))
  <2>1. Len(s) \in S
    BY <1>1, <1>4
  <2>2. QED
    BY <2>1 DEF S
<1>6. QED
  BY <1>5 DEF Filters

\* Deliverable is the last entry of the table.
LEMMA DeliverableTable ==
  ASSUME NEW E, NEW s \in Seq(E), NEW f, Filters(f, s)
  PROVE  Deliverable(s) = f[Len(s)]
<1> DEFINE Rec(g) == [i \in 0 .. Len(s) |->
                        IF i = 0 THEN <<>>
                        ELSE IF s[i] \in Known THEN Append(g[i - 1], s[i]) ELSE g[i - 1]]
           k == CHOOSE g : g = Rec(g)
<1>1. Len(s) \in Nat
  OBVIOUS
<1>2. \E h : h = Rec(h)
  <2> DEFINE h == [i \in 0 .. Len(s) |-> f[i]]
  <2>1. ASSUME NEW i \in 0 .. Len(s)
        PROVE  f[i] = IF i = 0 THEN <<>>
                      ELSE IF s[i] \in Known THEN Append(h[i - 1], s[i]) ELSE h[i - 1]
    <3>1. CASE i = 0
      BY <3>1 DEF Filters
    <3>2. CASE i # 0
      <4>1. i \in 1 .. Len(s) /\ i - 1 \in 0 .. Len(s)
        BY <1>1, <3>2
      <4>2. f[i] = Keep(s, i, f[i - 1]) /\ h[i - 1] = f[i - 1]
        BY <4>1 DEF Filters
      <4> HIDE DEF h
      <4>3. QED
        BY <3>2, <4>2 DEF Keep
    <3>3. QED
      BY <3>1, <3>2
  <2>2. h = Rec(h)
    BY <2>1
  <2>3. QED
    BY <2>2
<1>3. k = Rec(k)
  BY <1>2
<1>4. Deliverable(s) = k[Len(s)]
  BY DEF Deliverable
<1> HIDE DEF k
<1>5. Filters(k, s)
  <2>1. DOMAIN k = 0 .. Len(s)
    BY <1>3
  <2>2. k[0] = <<>>
    <3>1. Rec(k)[0] = <<>>
      BY <1>1
    <3>2. QED
      BY <1>3, <3>1, Zenon
  <2>3. ASSUME NEW i \in 1 .. Len(s) PROVE k[i] = Keep(s, i, k[i - 1])
    <3>1. Rec(k)[i] = Keep(s, i, k[i - 1])
      BY <1>1 DEF Keep
    <3>2. QED
      BY <1>3, <3>1, Zenon
  <2>4. QED
    BY <2>1, <2>2, <2>3 DEF Filters
<1>6. QED
  BY <1>1, <1>4, <1>5, FiltersAgree

\* The empty sequence, and the type of what is kept.
LEMMA DeliverableEmpty == Deliverable(<<>>) = <<>>
<1>1. <<>> \in Seq({}) /\ Len(<<>>) = 0
  OBVIOUS
<1>2. PICK f : Filters(f, <<>>)
  BY <1>1, FiltersExists
<1>3. QED
  BY <1>1, <1>2, DeliverableTable DEF Filters
\* What is delivered are known events.
LEMMA DeliverableType ==
  ASSUME NEW E, NEW s \in Seq(E)
  PROVE  Deliverable(s) \in Seq(Known)
<1>1. PICK f : Filters(f, s)
  BY FiltersExists
<1>2. Deliverable(s) = f[Len(s)] /\ Len(s) \in 0 .. Len(s)
  BY <1>1, DeliverableTable
<1>3. QED
  BY <1>1, <1>2, FiltersType

\* One more event at the end.
LEMMA DeliverableAppend ==
  ASSUME NEW E, NEW s \in Seq(E), NEW e \in E
  PROVE  Deliverable(Append(s, e)) =
           IF e \in Known THEN Append(Deliverable(s), e) ELSE Deliverable(s)
<1> DEFINE t == Append(s, e)
<1>1. /\ t \in Seq(E) /\ Len(s) \in Nat /\ Len(t) = Len(s) + 1 /\ t[Len(s) + 1] = e
      /\ \A i \in 1 .. Len(s) : s[i] = t[i]
  BY AppendProperties
<1> HIDE DEF t
<1>2. PICK f : Filters(f, s)
  BY FiltersExists
<1>3. PICK g : Filters(g, t)
  BY <1>1, FiltersExists
<1>4. Deliverable(s) = f[Len(s)] /\ Deliverable(t) = g[Len(s) + 1]
  BY <1>1, <1>2, <1>3, DeliverableTable
<1>5. f[Len(s)] = g[Len(s)]
  BY <1>1, <1>2, <1>3, FiltersAgree
<1>6. g[Len(s) + 1] = Keep(t, Len(s) + 1, g[Len(s)])
  BY <1>1, <1>3 DEF Filters
<1>7. Keep(t, Len(s) + 1, g[Len(s)]) = IF e \in Known THEN Append(g[Len(s)], e) ELSE g[Len(s)]
  BY <1>1 DEF Keep
<1>8. Deliverable(t) = IF e \in Known THEN Append(Deliverable(s), e) ELSE Deliverable(s)
  BY <1>4, <1>5, <1>6, <1>7
<1>9. QED
  BY <1>8 DEF t

\* Nothing is kept of events that are not known.
LEMMA FiltersNone ==
  ASSUME NEW E, NEW s \in Seq(E), NEW f, Filters(f, s),
         NEW n \in 0 .. Len(s), \A i \in 1 .. n : s[i] \notin Known
  PROVE  f[n] = <<>>
<1> DEFINE S == {i \in 0 .. n : f[i] = <<>>}
<1>1. Len(s) \in Nat /\ n \in Nat
  OBVIOUS
<1>2. 0 \in S
  BY <1>1 DEF Filters
<1>3. ASSUME NEW i \in 1 .. n, i - 1 \in S PROVE i \in S
  BY <1>1, <1>3 DEF Filters, Keep
<1> HIDE DEF S
<1>4. 0 .. n \subseteq S
  BY <1>1, <1>2, <1>3, UpTo
<1>5. QED
  BY <1>4 DEF S

\* The events up to the first known one are dropped, and it comes before those kept of
\* the rest.
LEMMA DeliverableFirst ==
  ASSUME NEW E, NEW s \in Seq(E), NEW i \in 1 .. Len(s), s[i] \in Known,
         \A j \in 1 .. i - 1 : s[j] \notin Known
  PROVE  /\ SubSeq(s, i + 1, Len(s)) \in Seq(E)
         /\ Deliverable(s) = <<s[i]>> \o Deliverable(SubSeq(s, i + 1, Len(s)))
<1> DEFINE t == SubSeq(s, i + 1, Len(s))
<1>1. /\ t \in Seq(E) /\ Len(s) \in Nat /\ Len(t) = Len(s) - i /\ Len(t) \in Nat
      /\ \A j \in 1 .. Len(t) : t[j] = s[i + j]
  <2>1. Len(s) \in Nat /\ i + 1 \in 1 .. Len(s) + 1
    OBVIOUS
  <2>2. /\ t \in Seq(E) /\ Len(t) = IF i + 1 <= Len(s) THEN Len(s) - (i + 1) + 1 ELSE 0
        /\ \A j \in 1 .. Len(s) - (i + 1) + 1 : t[j] = s[(i + 1) + j - 1]
    BY <2>1, SubSeqProperties
  <2>3. QED
    BY <2>1, <2>2
<1> HIDE DEF t
<1>2. PICK f : Filters(f, s)
  BY FiltersExists
<1>3. PICK g : Filters(g, t)
  BY <1>1, FiltersExists
<1>4. Deliverable(s) = f[Len(s)] /\ Deliverable(t) = g[Len(t)]
  BY <1>1, <1>2, <1>3, DeliverableTable
<1>5. \A j \in 0 .. Len(t) : g[j] \in Seq(Known)
  BY <1>1, <1>3, FiltersType
<1>6. f[i] = <<s[i]>>
  <2>1. f[i - 1] = <<>>
    BY <1>1, <1>2, FiltersNone
  <2>2. f[i] = Keep(s, i, f[i - 1])
    BY <1>2 DEF Filters
  <2>3. QED
    BY <2>1, <2>2 DEF Keep
<1> DEFINE P(j) == f[i + j] = <<s[i]>> \o g[j]
           S == {j \in 0 .. Len(t) : P(j)}
<1>7. P(0)
  <2>1. g[0] = <<>> /\ i + 0 = i
    BY <1>3 DEF Filters
  <2>2. <<s[i]>> \o <<>> = <<s[i]>>
    OBVIOUS
  <2>3. QED
    BY <1>6, <2>1, <2>2
<1>8. ASSUME NEW j \in 1 .. Len(t), P(j - 1) PROVE P(j)
  <2>1. f[i + j] = Keep(s, i + j, f[i + (j - 1)])
    <3>1. i + j \in 1 .. Len(s) /\ (i + j) - 1 = i + (j - 1)
      BY <1>1
    <3>2. QED
      BY <1>2, <3>1 DEF Filters
  <2>2. g[j] = Keep(t, j, g[j - 1]) /\ g[j - 1] \in Seq(Known)
    BY <1>1, <1>3, <1>5 DEF Filters
  <2>3. f[i + (j - 1)] = <<s[i]>> \o g[j - 1] /\ t[j] = s[i + j]
    BY <1>1, <1>8
  <2>4. CASE t[j] \in Known
    <3>1. f[i + j] = Append(<<s[i]>> \o g[j - 1], t[j]) /\ g[j] = Append(g[j - 1], t[j])
      BY <2>1, <2>2, <2>3, <2>4 DEF Keep
    <3>2. \A q \in Seq(Known), x, y \in Known :
            Append(<<x>> \o q, y) = <<x>> \o Append(q, y)
      OBVIOUS
    <3>3. QED
      BY <2>2, <2>4, <3>1, <3>2
  <2>5. CASE t[j] \notin Known
    BY <2>1, <2>2, <2>3, <2>5 DEF Keep
  <2>6. QED
    BY <2>4, <2>5
<1> HIDE DEF P
<1>9. 0 .. Len(t) \subseteq S
  <2>1. 0 \in S
    BY <1>1, <1>7
  <2>2. ASSUME NEW j \in 1 .. Len(t), j - 1 \in S PROVE j \in S
    BY <1>1, <1>8, <2>2
  <2> HIDE DEF S
  <2>3. QED
    BY <1>1, <2>1, <2>2, UpTo
<1>10. P(Len(t)) /\ i + Len(t) = Len(s)
  BY <1>1, <1>9
<1>11. QED
  BY <1>1, <1>4, <1>10 DEF t, P

\* When no known event is first, there is none at all.
LEMMA DeliverableNone ==
  ASSUME NEW E, NEW s \in Seq(E),
         \A i \in 1 .. Len(s) : ~(s[i] \in Known /\ \A j \in 1 .. i - 1 : s[j] \notin Known)
  PROVE  Deliverable(s) = <<>>
<1>1. Len(s) \in Nat
  OBVIOUS
<1>2. ASSUME NEW k \in 1 .. Len(s), s[k] \in Known PROVE FALSE
  <2> DEFINE T == {i \in 1 .. Len(s) : s[i] \in Known}
  <2>1. PICK m \in T : \A j \in T : m <= j
    <3>1. T \in SUBSET Nat /\ k \in T
      BY <1>1, <1>2
    <3>2. QED
      BY <3>1, LeastNat
  <2>2. QED
    BY <1>1, <2>1
<1>3. PICK f : Filters(f, s)
  BY FiltersExists
<1>4. f[Len(s)] = <<>>
  BY <1>1, <1>2, <1>3, FiltersNone
<1>5. QED
  BY <1>3, <1>4, DeliverableTable

-----------------------------------------------------------------------------
(* Events are delivered in order and none is lost                          *)

Events == Known \cup Unknown

\* The event of an answer to xrPollEvent that the application does not have yet.
InFlight(c) ==
  IF /\ At(c, "polling") /\ (server.at \in {"reply", "sending"} \/ to_client[c] # <<>>)
     /\ server.reply[1] = "event"
  THEN <<server.reply[2]>>
  ELSE <<>>

\* What the application has, what is on its way, and what waits in the runtime.
Balanced(c) == client[c].events \o (InFlight(c) \o Deliverable(pending)) = Deliverable(raised)

EInv ==
  /\ pending \in Seq(Events) /\ raised \in Seq(Events)
  /\ server.reply[1] = "event" => server.reply[2] \in Known
  /\ \A c \in Clients : client[c].events \in Seq(Known)
  /\ \A c \in Clients : client[c].saved = Null => client[c].events = <<>>
  /\ \A c \in Clients : IsUp(c) /\ server.saved \in Instances => Balanced(c)

\* The sequences that the steps of a poll move events between.
LEMMA Moves ==
  ASSUME NEW a \in Seq(Known), NEW d \in Seq(Known), NEW e \in Known
  PROVE  /\ a \o (<<>> \o d) = a \o d
         /\ Append(a, e) \o (<<>> \o d) = a \o (<<e>> \o d)
<1>1. <<e>> \in Seq(Known) /\ <<>> \o d = d
  OBVIOUS
<1>2. Append(a, e) = a \o <<e>>
  OBVIOUS
<1>3. (a \o <<e>>) \o d = a \o (<<e>> \o d)
  BY <1>1, ConcatAssociative
<1>4. QED
  BY <1>1, <1>2, <1>3
\* An event raised last is the last of all.
LEMMA MovesAppend ==
  \A a, b, d \in Seq(Known), e \in Known :
    a \o (b \o Append(d, e)) = Append(a \o (b \o d), e)
<1> SUFFICES ASSUME NEW a \in Seq(Known), NEW b \in Seq(Known), NEW d \in Seq(Known),
                    NEW e \in Known
             PROVE  a \o (b \o Append(d, e)) = Append(a \o (b \o d), e)
  OBVIOUS
<1>1. <<e>> \in Seq(Known) /\ b \o d \in Seq(Known)
  OBVIOUS
<1>2. a \o (b \o d) \in Seq(Known)
  BY <1>1
<1>3. Append(d, e) = d \o <<e>> /\ Append(a \o (b \o d), e) = (a \o (b \o d)) \o <<e>>
  <2>1. \A q \in Seq(Known) : Append(q, e) = q \o <<e>>
    BY AppendIsConcat
  <2>2. QED
    BY <1>2, <2>1, Zenon
<1>4. (b \o d) \o <<e>> = b \o (d \o <<e>>)
  BY <1>1, ConcatAssociative
<1>5. (a \o (b \o d)) \o <<e>> = a \o ((b \o d) \o <<e>>)
  BY <1>1, ConcatAssociative
<1>6. QED
  BY <1>3, <1>4, <1>5

\* The components of a message.
LEMMA Pairs == \A a, b : <<a, b>>[1] = a /\ <<a, b>>[2] = b
OBVIOUS

\* A client that is up is the one that the server runs for, and its stream is open.
LEMMA UpIsServed ==
  ASSUME CInv, NEW c \in Clients, IsUp(c)
  PROVE  /\ server.client = c /\ server.at \in Running /\ ~server.closed
         /\ Talk(c) /\ client_open[c]
BY DEF CInv, Progress, IsUp, Calling, Served, Talk, InCall

\* Only an application that polls has an event on its way, and it is a known one.
LEMMA InFlightFacts ==
  ASSUME EInv, NEW c \in Clients
  PROVE  /\ InFlight(c) \in Seq(Known)
         /\ ~At(c, "polling") => InFlight(c) = <<>>
BY DEF EInv, InFlight

\* A step of client c that brings it no event.
LEMMA ClientEvents ==
  ASSUME EInv, NEW c \in Clients, UNCHANGED <<server, pending, raised>>,
         \A d \in Clients \ {c} : SameFor(d),
         client'[c].events = client[c].events,
         client'[c].saved = Null => client[c].saved = Null,
         IsUp(c)' /\ server.saved \in Instances => IsUp(c) /\ InFlight(c)' = InFlight(c)
  PROVE  EInv'
<1>1. \A d \in Clients : client'[d].events = client[d].events
  BY DEF SameFor
<1>2. \A d \in Clients : client'[d].saved = Null => client[d].saved = Null
  BY DEF SameFor
<1>3. ASSUME NEW d \in Clients, IsUp(d)', server.saved \in Instances
      PROVE  IsUp(d) /\ InFlight(d)' = InFlight(d)
  BY <1>3 DEF SameFor, IsUp, InFlight, At
<1>4. ASSUME NEW d \in Clients, IsUp(d)', server'.saved \in Instances PROVE Balanced(d)'
  <2>1. IsUp(d) /\ InFlight(d)' = InFlight(d) /\ server.saved \in Instances
    BY <1>3, <1>4
  <2>2. Balanced(d)
    BY <2>1 DEF EInv
  <2>3. QED
    BY <1>1, <2>1, <2>2 DEF Balanced
<1>5. /\ pending' \in Seq(Events) /\ raised' \in Seq(Events)
      /\ server'.reply[1] = "event" => server'.reply[2] \in Known
  BY DEF EInv
<1>6. \A d \in Clients : client'[d].events \in Seq(Known)
  BY <1>1 DEF EInv
<1>7. \A d \in Clients : client'[d].saved = Null => client'[d].events = <<>>
  BY <1>1, <1>2 DEF EInv
<1>8. QED
  BY <1>4, <1>5, <1>6, <1>7 DEF EInv

\* A step that leaves the clients' records alone.
LEMMA ServerEvents ==
  ASSUME EInv, client' = client,
         pending' \in Seq(Events), raised' \in Seq(Events),
         server'.reply[1] = "event" => server'.reply[2] \in Known,
         \A c \in Clients : IsUp(c) /\ server'.saved \in Instances => Balanced(c)'
  PROVE  EInv'
BY DEF EInv, IsUp

\* The steps of the handshake, and the ends of a process.
LEMMA OtherClientEvents ==
  ASSUME CInv, EInv, NEW c \in Clients,
         \/ ClientMagic(c) \/ ClientVersions(c) \/ ClientVerdict(c) \/ ClientEof(c)
         \/ Connect(c) \/ ConnectRefused(c) \/ Quit(c)
  PROVE  EInv'
<1>1. Shape
  BY DEF CInv
<1>2. /\ UNCHANGED <<server, pending, raised>>
      /\ \A d \in Clients \ {c} : SameFor(d)
      /\ client'[c].events = client[c].events
      /\ client'[c].saved = client[c].saved
  BY <1>1 DEF ClientMagic, ClientVersions, ClientVerdict, ClientEof, Connect, ConnectRefused, Quit, Refuse, Go,
     ToServer, FromServer, ClientCloses, SameFor, runtime, Shape, ClientFields
<1>3. ASSUME IsUp(c)', server.saved \in Instances
      PROVE  IsUp(c) /\ InFlight(c)' = InFlight(c)
  <2>1. CASE ClientVerdict(c)
    <3>1. Progress(c) /\ client[c].at = "verdict" /\ to_client[c] # <<>>
      BY <2>1 DEF CInv, ClientVerdict, Hears, At
    <3>2. Served(c)
      BY <3>1 DEF Progress
    <3>3. Talk(c)
      BY <3>1, <3>2 DEF Progress
    <3>4. server.saved \notin Instances
      BY <3>1, <3>3 DEF Talk, Asks
    <3>5. QED
      BY <1>3, <3>4
  <2>2. CASE ~ClientVerdict(c)
    <3>1. client'[c].at \in {"magic", "versions", "verdict", "up"} \cup Gone
      BY <1>1, <2>2 DEF ClientMagic, ClientVersions, ClientEof, Connect, ConnectRefused, Quit, Refuse, Go,
         Shape, ClientFields
    <3>2. client'[c].at = "up"
      BY <1>3, <3>1 DEF IsUp, Calling
    <3>3. ClientEof(c) /\ client[c].at \in {"creating", "destroying"}
      BY <1>1, <2>2, <3>2 DEF ClientMagic, ClientVersions, ClientEof, Connect, ConnectRefused, Quit, Refuse, Go,
         Shape, ClientFields
    <3>4. IsUp(c) /\ ~At(c, "polling") /\ ~At(c, "polling")'
      BY <3>2, <3>3 DEF IsUp, Calling, At
    <3>5. QED
      BY <3>4 DEF InFlight
  <2>3. QED
    BY <2>1, <2>2
<1>4. QED
  BY <1>2, <1>3, ClientEvents

\* The calls of the application, and the ends of those that bring no event.
LEMMA CallEvents ==
  ASSUME CInv, EInv, NEW c \in Clients,
         \/ CreateInstance(c) \/ Created(c) \/ DestroyInstance(c) \/ Destroyed(c)
         \/ PollEvent(c)
  PROVE  EInv'
<1>1. Shape
  BY DEF CInv
<1>2. /\ UNCHANGED <<server, pending, raised>>
      /\ \A d \in Clients \ {c} : SameFor(d)
      /\ client'[c].events = client[c].events
      /\ client'[c].saved = Null => client[c].saved = Null
  <2>1. CASE Created(c)
    <3> DEFINE h == Head(to_client[c])[2]
               r == IF h # Null THEN [client[c] EXCEPT !.at = "up", !.saved = h, !.held = h]
                    ELSE [client[c] EXCEPT !.at = "up"]
    <3>1. client' = [client EXCEPT ![c] = r] /\ FromServer(c)
          /\ UNCHANGED <<backlog, to_server, client_open, server_open, server, runtime>>
      BY <2>1 DEF Created
    <3>2. r.events = client[c].events /\ (r.saved = Null => client[c].saved = Null)
      BY <1>1 DEF Shape, ClientFields
    <3> HIDE DEF r
    <3>3. client'[c] = r /\ \A d \in Clients \ {c} : client'[d] = client[d]
      BY <1>1, <3>1 DEF Shape
    <3>4. QED
      BY <1>1, <3>1, <3>2, <3>3, StreamFacts DEF SameFor, runtime
  <2>2. CASE ~Created(c)
    BY <1>1, <2>2 DEF CreateInstance, DestroyInstance, Destroyed, PollEvent, Go,
       ToServer, FromServer, SameFor, runtime, Shape, ClientFields
  <2>3. QED
    BY <2>1, <2>2
<1>4. IsUp(c) /\ ~At(c, "polling")
  BY DEF CreateInstance, Created, DestroyInstance, Destroyed, PollEvent, Hears, At, IsUp, Calling
<1>5. InFlight(c)' = InFlight(c)
  <2>1. CASE PollEvent(c)
    <3>1. Talk(c) /\ client[c].at = "up"
      BY <1>4, <2>1, UpIsServed DEF PollEvent, At
    <3>2. server.at = "run" /\ to_client[c] = <<>> /\ server' = server /\ to_client' = to_client
      BY <2>1, <3>1 DEF Talk, Quiet, PollEvent
    <3>3. QED
      BY <1>4, <3>2 DEF InFlight
  <2>2. CASE ~PollEvent(c)
    <3>1. CASE CreateInstance(c) \/ Destroyed(c)
      <4>1. client'[c].at \in {"creating", "up"}
        BY <1>1, <3>1, GoFacts DEF CreateInstance, Destroyed
      <4>2. QED
        BY <1>4, <4>1 DEF InFlight, At
    <3>2. CASE DestroyInstance(c)
      <4>1. client' = [client EXCEPT ![c].at = "destroying", ![c].held = Null]
        BY <3>2 DEF DestroyInstance
      <4>2. client'[c].at = "destroying"
        BY <1>1, <4>1 DEF Shape, ClientFields
      <4>3. QED
        BY <1>4, <4>2 DEF InFlight, At
    <3>3. CASE Created(c)
      <4> DEFINE h == Head(to_client[c])[2]
                 r == IF h # Null THEN [client[c] EXCEPT !.at = "up", !.saved = h, !.held = h]
                      ELSE [client[c] EXCEPT !.at = "up"]
      <4>1. client' = [client EXCEPT ![c] = r]
        BY <3>3 DEF Created
      <4>2. r.at = "up"
        BY <1>1 DEF Shape, ClientFields
      <4> HIDE DEF r
      <4>3. client'[c].at = "up"
        BY <1>1, <4>1, <4>2 DEF Shape
      <4>4. QED
        BY <1>4, <4>3 DEF InFlight, At
    <3>4. QED
      BY <2>2, <3>1, <3>2, <3>3
  <2>3. QED
    BY <2>1, <2>2
<1>6. QED
  BY <1>2, <1>4, <1>5, ClientEvents

\* The answer to xrPollEvent.
LEMMA PolledEvents == ASSUME CInv, EInv, NEW c \in Clients, Polled(c) PROVE EInv'
<1>1. Shape /\ IsUp(c) /\ client[c].at = "polling" /\ to_client[c] # <<>>
  BY DEF CInv, Polled, Hears, At, IsUp, Calling
<1>2. Talk(c)
  BY <1>1, UpIsServed
<1>3. /\ to_client[c] = <<server.reply>> /\ Head(to_client[c]) = server.reply
      /\ client[c].held # Null /\ KnowsInstance(c)
  <2>1. InCall(c, <<"poll", 0>>) /\ client[c].held # Null /\ KnowsInstance(c)
    BY <1>1, <1>2 DEF Talk
  <2>2. QED
    BY <1>1, <2>1, OneMessage DEF InCall, Asks, Quiet, Answers
<1> DEFINE got == server.reply[1] = "event"
           more == IF got THEN Append(client[c].events, server.reply[2]) ELSE client[c].events
<1>4. /\ client'[c].at = "up" /\ client'[c].events = more
      /\ client'[c].saved = client[c].saved
      /\ \A d \in Clients \ {c} : SameFor(d)
      /\ UNCHANGED <<server, pending, raised>>
  <2>1. client' = [client EXCEPT ![c].at = "up", ![c].events = more] /\ FromServer(c)
        /\ UNCHANGED <<backlog, to_server, client_open, server_open, server, runtime>>
    BY <1>3 DEF Polled
  <2> HIDE DEF more
  <2>2. /\ client'[c].at = "up" /\ client'[c].events = more
        /\ client'[c].saved = client[c].saved
        /\ \A d \in Clients \ {c} : client'[d] = client[d]
    BY <1>1, <2>1 DEF Shape, ClientFields
  <2>3. QED
    BY <1>1, <2>1, <2>2, StreamFacts DEF SameFor, runtime
<1>5. client[c].events \in Seq(Known) /\ Deliverable(pending) \in Seq(Known)
  BY DeliverableType DEF EInv
<1>6. got => server.reply[2] \in Known
  BY DEF EInv
<1>7. more \in Seq(Known)
  BY <1>5, <1>6
<1>8. client[c].saved # Null
  BY <1>3 DEF KnowsInstance
<1>9. ASSUME server.saved \in Instances PROVE Balanced(c)'
  <2>1. client[c].events \o (InFlight(c) \o Deliverable(pending)) = Deliverable(raised)
    BY <1>1, <1>9 DEF EInv, Balanced
  <2>2. InFlight(c) = IF got THEN <<server.reply[2]>> ELSE <<>>
    BY <1>1 DEF InFlight, At
  <2>3. InFlight(c)' = <<>>
    BY <1>4 DEF InFlight, At
  <2>4. more \o (<<>> \o Deliverable(pending)) =
          client[c].events \o (InFlight(c) \o Deliverable(pending))
    <3>1. CASE got
      <4>1. more = Append(client[c].events, server.reply[2]) /\ InFlight(c) = <<server.reply[2]>>
        BY <2>2, <3>1
      <4>2. QED
        <5>1. server.reply[2] \in Known
          BY <1>6, <3>1
        <5>2. Append(client[c].events, server.reply[2]) \o (<<>> \o Deliverable(pending)) =
                client[c].events \o (<<server.reply[2]>> \o Deliverable(pending))
          BY <1>5, <5>1, Moves
        <5>3. QED
          BY <4>1, <5>2
    <3>2. CASE ~got
      BY <2>2, <3>2
    <3>3. QED
      BY <3>1, <3>2
  <2>5. QED
    BY <1>4, <2>1, <2>3, <2>4 DEF Balanced
<1>10. ASSUME NEW d \in Clients, IsUp(d)', server'.saved \in Instances PROVE Balanced(d)'
  <2>1. CASE d = c
    BY <1>4, <1>9, <1>10, <2>1
  <2>2. CASE d # c
    <3>1. IsUp(d) /\ InFlight(d)' = InFlight(d) /\ client'[d] = client[d]
      BY <1>4, <1>10, <2>2 DEF SameFor, IsUp, InFlight, At
    <3>2. Balanced(d)
      BY <1>4, <1>10, <3>1 DEF EInv
    <3>3. QED
      BY <1>4, <3>1, <3>2 DEF Balanced
  <2>3. QED
    BY <2>1, <2>2
<1>11. \A d \in Clients : client'[d].events \in Seq(Known)
  BY <1>4, <1>7 DEF EInv, SameFor
<1>12. \A d \in Clients : client'[d].saved = Null => client'[d].events = <<>>
  BY <1>4, <1>8 DEF EInv, SameFor
<1>13. QED
  BY <1>4, <1>10, <1>11, <1>12 DEF EInv

\* The steps of the server while no client is up.
LEMMA HandshakeEvents ==
  ASSUME CInv, EInv,
         Accept \/ CheckMagic \/ ExchangeVersions \/ Verdict \/ HandshakeEof \/ EndRun
  PROVE  EInv'
<1>1. client' = client /\ UNCHANGED <<pending, raised>>
  BY DEF Accept, CheckMagic, ExchangeVersions, Verdict, HandshakeEof, EndRun, runtime
<1>2. ASSUME NEW c \in Clients, IsUp(c) PROVE FALSE
  <2>1. server.client = c /\ server.at \in Running /\ client_open[c] /\ ~server.closed
    BY <1>2, UpIsServed
  <2>2. QED
    BY <2>1 DEF Accept, CheckMagic, ExchangeVersions, Verdict, HandshakeEof, EndRun, Serving,
       Handshaking
<1>3. server'.reply = server.reply \/ server'.reply = <<"none", 0>>
  <2>1. DOMAIN server = ServerFields /\ DOMAIN Listening = ServerFields
    BY DEF CInv, Shape, Listening, ServerFields
  <2>2. Listening.reply = <<"none", 0>>
    BY DEF Listening
  <2>3. QED
    BY <2>1, <2>2 DEF Accept, CheckMagic, ExchangeVersions, Verdict, HandshakeEof, EndRun,
       TryAgain, Step, ServerFields
<1>4. server'.reply[1] = "event" => server'.reply[2] \in Known
  BY <1>3 DEF EInv
<1>5. pending' \in Seq(Events) /\ raised' \in Seq(Events)
  BY <1>1 DEF EInv
<1>6. QED
  BY <1>1, <1>2, <1>4, <1>5, ServerEvents

\* A creation starts with no events, neither of the runtime nor of the application.
LEMMA CreateEvents == ASSUME CInv, EInv, HandleCreate PROVE EInv'
<1>1. /\ Shape /\ OneInstance /\ client' = client /\ server.at = "run"
      /\ to_server[server.client] # <<>> /\ Head(to_server[server.client])[1] = "create"
  BY DEF CInv, HandleCreate, Asked, Serving
<1>2. server'.reply[1] = "created"
  <2>1. \E h : server'.reply = <<"created", h>>
    BY <1>1 DEF HandleCreate, Reply, Shape, ServerFields
  <2>2. QED
    BY <2>1, Pairs
<1>3. CASE UNCHANGED <<pending, raised>> /\ server'.saved = server.saved
  <2>1. server'.saved \notin Instances
    BY <1>1, <1>3 DEF OneInstance
  <2>2. pending' \in Seq(Events) /\ raised' \in Seq(Events)
    BY <1>3 DEF EInv
  <2>3. QED
    BY <1>1, <1>2, <2>1, <2>2, ServerEvents
<1>4. CASE pending' = <<>> /\ raised' = <<>>
  <2>1. ASSUME NEW c \in Clients, IsUp(c) PROVE Balanced(c)'
    <3>1. server.client = c /\ Talk(c)
      BY <2>1, UpIsServed
    <3>2. client[c].at = "creating"
      BY <1>1, <2>1, <3>1, OneMessage
      DEF Talk, IsUp, Calling, Quiet, Asks, Answers, InCall
    <3>3. client[c].events = <<>>
      BY <3>1, <3>2 DEF Talk, EInv
    <3>4. InFlight(c)' = <<>>
      BY <1>1, <3>2 DEF InFlight, At
    <3>5. Deliverable(pending)' = <<>> /\ Deliverable(raised)' = <<>>
      BY <1>4, DeliverableEmpty
    <3>6. <<>> \o (<<>> \o <<>>) = <<>>
      OBVIOUS
    <3>7. QED
      BY <1>1, <3>3, <3>4, <3>5, <3>6 DEF Balanced
  <2>2. pending' \in Seq(Events) /\ raised' \in Seq(Events)
    BY <1>4
  <2>3. QED
    BY <1>1, <1>2, <2>1, <2>2, ServerEvents
<1>5. QED
  BY <1>1, <1>3, <1>4 DEF HandleCreate, Reply, Shape, ServerFields

\* The destruction of an instance ends the delivery of its events.
LEMMA DestroyEvents == ASSUME CInv, EInv, HandleDestroy PROVE EInv'
<1>1. /\ Shape /\ client' = client /\ UNCHANGED <<pending, raised>> /\ server.at = "run"
      /\ to_server[server.client] # <<>> /\ Head(to_server[server.client])[1] = "destroy"
  BY DEF CInv, HandleDestroy, Asked, Serving
<1>2. \/ server' = [server EXCEPT !.at = "reply", !.saved = Null, !.reply = <<"destroyed", 1>>]
      \/ server' = [server EXCEPT !.at = "reply", !.reply = <<"destroyed", 0>>]
  BY DEF HandleDestroy, Reply
<1>3. server'.reply[1] = "destroyed"
  <2>1. \E r : server'.reply = <<"destroyed", r>>
    BY <1>1, <1>2 DEF Shape, ServerFields
  <2>2. QED
    BY <2>1, Pairs
<1>4. server'.saved \in Instances => server'.saved = server.saved
  <2>1. server'.saved = Null \/ server'.saved = server.saved
    BY <1>1, <1>2 DEF Shape, ServerFields
  <2>2. QED
    BY <2>1 DEF Null, Instances
<1>5. ASSUME NEW c \in Clients, IsUp(c), server'.saved \in Instances PROVE Balanced(c)'
  <2>1. server.client = c /\ Talk(c)
    BY <1>5, UpIsServed
  <2>2. client[c].at # "polling"
    BY <1>1, <2>1, OneMessage DEF Talk, Quiet, Asks, Answers, InCall
  <2>3. InFlight(c)' = <<>> /\ InFlight(c) = <<>>
    BY <1>1, <2>2 DEF InFlight, At
  <2>4. Balanced(c)
    BY <1>4, <1>5 DEF EInv
  <2>5. QED
    BY <1>1, <2>3, <2>4 DEF Balanced
<1>6. pending' \in Seq(Events) /\ raised' \in Seq(Events)
  BY <1>1 DEF EInv
<1>7. QED
  BY <1>1, <1>3, <1>5, <1>6, ServerEvents

\* The loop of the POLL_EVENT handler takes the first known event and what precedes it.
LEMMA PollEvents == ASSUME CInv, EInv, HandlePoll PROVE EInv'
<1>1. /\ Shape /\ client' = client /\ UNCHANGED <<raised, to_client>> /\ server.at = "run"
      /\ to_server[server.client] # <<>> /\ Head(to_server[server.client])[1] = "poll"
  BY DEF CInv, HandlePoll, Asked, Serving
<1>2. /\ pending \in Seq(Events) /\ raised \in Seq(Events)
      /\ DOMAIN pending = 1 .. Len(pending) /\ Len(pending) \in Nat
  BY LenProperties DEF EInv
<1>3. /\ server'.at = "reply" /\ server'.saved = server.saved
      /\ pending' \in Seq(Events)
      /\ \/ /\ server'.reply = <<"unavailable", 0>>
            /\ Deliverable(pending) = <<>> /\ Deliverable(pending)' = <<>>
         \/ \E e \in Known : /\ server'.reply = <<"event", e>>
                             /\ Deliverable(pending) = <<e>> \o Deliverable(pending)'
  <2> DEFINE first == {i \in DOMAIN pending :
                         pending[i] \in Known /\ \A j \in 1..i - 1 : pending[j] \in Unknown}
  <2>1. \A i \in 1 .. Len(pending) : pending[i] \in Unknown <=> pending[i] \notin Known
    <3>1. \A i \in 1 .. Len(pending) : pending[i] \in Known \cup Unknown
      BY <1>2, ElementOfSeq DEF Events
    <3>2. QED
      BY <3>1, EventsAssumption
  <2>2. CASE first = {} /\ pending' = <<>> /\ Reply(<<"unavailable", 0>>)
    <3>1. ASSUME NEW i \in 1 .. Len(pending), pending[i] \in Known,
                 \A j \in 1 .. i - 1 : pending[j] \notin Known
          PROVE  FALSE
      <4>1. \A j \in 1 .. i - 1 : pending[j] \in Unknown
        BY <1>2, <2>1, <3>1
      <4>2. i \in first
        BY <1>2, <3>1, <4>1
      <4>3. QED
        BY <2>2, <4>2
    <3>2. Deliverable(pending) = <<>>
      BY <1>2, <3>1, DeliverableNone
    <3>3. Deliverable(pending)' = <<>> /\ pending' \in Seq(Events)
      BY <2>2, DeliverableEmpty
    <3>4. /\ server'.at = "reply" /\ server'.saved = server.saved
          /\ server'.reply = <<"unavailable", 0>>
      BY <1>1, <2>2 DEF Reply, Shape, ServerFields
    <3>5. QED
      BY <3>2, <3>3, <3>4
  <2>3. ASSUME NEW i \in first, pending' = SubSeq(pending, i + 1, Len(pending)),
               Reply(<<"event", pending[i]>>)
        PROVE  /\ server'.at = "reply" /\ server'.saved = server.saved
               /\ pending' \in Seq(Events) /\ pending[i] \in Known
               /\ server'.reply = <<"event", pending[i]>>
               /\ Deliverable(pending) = <<pending[i]>> \o Deliverable(pending)'
    <3>1. /\ i \in 1 .. Len(pending) /\ pending[i] \in Known
          /\ \A j \in 1 .. i - 1 : pending[j] \notin Known
      BY <1>2, <2>1, <2>3
    <3>2. /\ pending' \in Seq(Events)
          /\ Deliverable(pending) = <<pending[i]>> \o Deliverable(pending)'
      BY <1>2, <2>3, <3>1, DeliverableFirst
    <3>3. /\ server'.at = "reply" /\ server'.saved = server.saved
          /\ server'.reply = <<"event", pending[i]>>
      BY <1>1, <2>3 DEF Reply, Shape, ServerFields
    <3>4. QED
      BY <3>1, <3>2, <3>3
  <2>4. \/ first = {} /\ pending' = <<>> /\ Reply(<<"unavailable", 0>>)
        \/ \E i \in first : /\ pending' = SubSeq(pending, i + 1, Len(pending))
                            /\ Reply(<<"event", pending[i]>>)
    BY DEF HandlePoll
  <2> HIDE DEF first
  <2>5. QED
    BY <2>2, <2>3, <2>4
<1>4. server'.reply[1] = "event" => server'.reply[2] \in Known
  <2>1. CASE server'.reply = <<"unavailable", 0>>
    BY <2>1, Pairs
  <2>2. ASSUME NEW e \in Known, server'.reply = <<"event", e>> PROVE server'.reply[2] \in Known
    BY <2>2, Pairs
  <2>3. QED
    BY <1>3, <2>1, <2>2, Pairs
<1>5. ASSUME NEW c \in Clients, IsUp(c), server'.saved \in Instances PROVE Balanced(c)'
  <2>1. server.client = c /\ Talk(c)
    BY <1>5, UpIsServed
  <2>2. client[c].at = "polling" /\ to_client[c] = <<>>
    BY <1>1, <1>5, <2>1, OneMessage DEF Talk, IsUp, Calling, Quiet, Asks, Answers, InCall
  <2>3. InFlight(c) = <<>>
    BY <1>1, <2>2 DEF InFlight
  <2>4. Balanced(c)
    BY <1>3, <1>5 DEF EInv
  <2>5. <<>> \o Deliverable(pending) = InFlight(c)' \o Deliverable(pending)'
    <3>1. CASE server'.reply = <<"unavailable", 0>> /\ Deliverable(pending) = <<>>
               /\ Deliverable(pending)' = <<>>
      <4>1. InFlight(c)' = <<>>
        BY <3>1 DEF InFlight
      <4>2. QED
        BY <3>1, <4>1
    <3>2. ASSUME NEW e \in Known, server'.reply = <<"event", e>>,
                 Deliverable(pending) = <<e>> \o Deliverable(pending)'
          PROVE  <<>> \o Deliverable(pending) = InFlight(c)' \o Deliverable(pending)'
      <4>1. InFlight(c)' = <<e>>
        BY <1>1, <1>3, <2>2, <3>2 DEF InFlight, At
      <4>2. Deliverable(pending) \in Seq(Known)
        BY <1>2, DeliverableType
      <4>3. <<>> \o Deliverable(pending) = Deliverable(pending)
        BY <4>2
      <4>4. QED
        BY <3>2, <4>1, <4>3
    <3>3. QED
      BY <1>3, <3>1, <3>2
  <2>6. QED
    BY <1>1, <2>3, <2>4, <2>5 DEF Balanced
<1>6. QED
  BY <1>1, <1>2, <1>3, <1>4, <1>5, ServerEvents

\* The answer leaves the handler for the stream.
LEMMA SendEvents == ASSUME CInv, EInv, SendReply PROVE EInv'
<1>1. /\ Shape /\ client' = client /\ UNCHANGED <<pending, raised>> /\ server.at = "sending"
      /\ server'.reply = server.reply /\ server'.saved = server.saved
      /\ server.client \in Clients
  BY DEF CInv, TypeOK, SendReply, Step, runtime, Shape, ServerFields
<1>2. ASSUME NEW c \in Clients, IsUp(c), server'.saved \in Instances PROVE Balanced(c)'
  <2>1. server.client = c /\ Talk(c) /\ client_open[c]
    BY <1>2, UpIsServed
  <2>2. to_client'[c] # <<>>
    <3>1. ToClient(c, server.reply)
      BY <2>1 DEF SendReply
    <3>2. to_client'[c] = Append(to_client[c], server.reply)
      BY <1>1, <3>1, StreamFacts
    <3>3. to_client[c] = <<>>
      BY <1>1, <1>2, <2>1 DEF Talk, IsUp, Calling, Quiet, InCall
    <3>4. QED
      BY <3>2, <3>3, OneMessage
  <2>3. InFlight(c)' = InFlight(c)
    BY <1>1, <2>2 DEF InFlight, At
  <2>4. Balanced(c)
    BY <1>1, <1>2 DEF EInv
  <2>5. QED
    BY <1>1, <2>3, <2>4 DEF Balanced
<1>3. /\ pending' \in Seq(Events) /\ raised' \in Seq(Events)
      /\ server'.reply[1] = "event" => server'.reply[2] \in Known
  BY <1>1 DEF EInv
<1>4. QED
  BY <1>1, <1>2, <1>3, ServerEvents

\* The other steps of the answer, and the end of the stream under it.
LEMMA AnswerEvents ==
  ASSUME CInv, EInv, MeetEof \/ StartReply \/ ReplyClosed \/ FlushFails
  PROVE  EInv'
<1>1. /\ client' = client /\ UNCHANGED <<pending, raised, to_client>>
      /\ server'.reply = server.reply /\ server'.saved = server.saved
      /\ server.client \in Clients
  BY DEF CInv, TypeOK, MeetEof, StartReply, ReplyClosed, FlushFails, Step, streams, runtime,
     Shape, ServerFields
<1>2. ASSUME NEW c \in Clients, IsUp(c), server'.saved \in Instances PROVE Balanced(c)'
  <2>1. server.client = c /\ ~server.closed /\ client_open[c]
    BY <1>2, UpIsServed
  <2>2. StartReply
    BY <2>1 DEF MeetEof, ReplyClosed, FlushFails
  <2>3. server.at = "reply" /\ server'.at = "sending"
    BY <2>2 DEF StartReply, Step, CInv, Shape, ServerFields
  <2>4. InFlight(c)' = InFlight(c)
    BY <1>1, <2>3 DEF InFlight, At
  <2>5. Balanced(c)
    BY <1>1, <1>2 DEF EInv
  <2>6. QED
    BY <1>1, <2>4, <2>5 DEF Balanced
<1>3. /\ pending' \in Seq(Events) /\ raised' \in Seq(Events)
      /\ server'.reply[1] = "event" => server'.reply[2] \in Known
  BY <1>1 DEF EInv
<1>4. QED
  BY <1>1, <1>2, <1>3, ServerEvents

\* An event that the runtime raises joins both sequences.
LEMMA RaiseEvents == ASSUME CInv, EInv, NEW e \in Events, Raise(e) PROVE EInv'
<1>1. /\ UNCHANGED <<client, to_client, server>>
      /\ pending' = Append(pending, e) /\ raised' = Append(raised, e)
  BY DEF Raise, streams
<1>2. /\ pending \in Seq(Events) /\ raised \in Seq(Events)
      /\ pending' \in Seq(Events) /\ raised' \in Seq(Events)
  BY <1>1, AppendProperties DEF EInv
<1>3. ASSUME NEW c \in Clients, IsUp(c), server'.saved \in Instances PROVE Balanced(c)'
  <2>1. Balanced(c) /\ client[c].events \in Seq(Known)
    BY <1>1, <1>3 DEF EInv
  <2>2. InFlight(c)' = InFlight(c) /\ InFlight(c) \in Seq(Known)
    BY <1>1, InFlightFacts DEF InFlight, At
  <2>3. Deliverable(pending) \in Seq(Known)
    BY <1>2, DeliverableType
  <2>4. /\ Deliverable(pending)' =
             IF e \in Known THEN Append(Deliverable(pending), e) ELSE Deliverable(pending)
        /\ Deliverable(raised)' =
             IF e \in Known THEN Append(Deliverable(raised), e) ELSE Deliverable(raised)
    BY <1>1, <1>2, DeliverableAppend
  <2>5. CASE e \in Known
    <3>1. client[c].events \o (InFlight(c) \o Append(Deliverable(pending), e)) =
            Append(client[c].events \o (InFlight(c) \o Deliverable(pending)), e)
      BY <2>1, <2>2, <2>3, <2>5, MovesAppend
    <3>2. QED
      BY <1>1, <2>1, <2>2, <2>4, <2>5, <3>1 DEF Balanced
  <2>6. CASE e \notin Known
    BY <1>1, <2>1, <2>2, <2>4, <2>6 DEF Balanced
  <2>7. QED
    BY <2>5, <2>6
<1>4. server'.reply[1] = "event" => server'.reply[2] \in Known
  BY <1>1 DEF EInv
<1>5. QED
  BY <1>1, <1>2, <1>3, <1>4, ServerEvents

\* The initial state satisfies it, and every step preserves it.
LEMMA InitEInv == Init => EInv
<1> SUFFICES ASSUME Init PROVE EInv
  OBVIOUS
<1>1. \A c \in Clients : /\ client[c].at = "start" /\ client[c].events = <<>>
  BY DEF Init, NewClient
<1>2. server.reply[1] = "none"
  BY DEF Init, Listening
<1>3. pending \in Seq(Events) /\ raised \in Seq(Events)
  BY DEF Init
<1>4. \A c \in Clients : client[c].events \in Seq(Known) /\ ~IsUp(c)
  <2>1. <<>> \in Seq(Known)
    OBVIOUS
  <2>2. \A c \in Clients : ~IsUp(c)
    BY <1>1 DEF IsUp, Calling
  <2>3. QED
    BY <1>1, <2>1, <2>2
<1>5. QED
  BY <1>1, <1>2, <1>3, <1>4 DEF EInv

\* Every step keeps the account of the events.
LEMMA NextEInv == CInv /\ EInv /\ [Next]_vars => EInv'
<1> SUFFICES ASSUME CInv, EInv, [Next]_vars PROVE EInv'
  OBVIOUS
<1>1. ASSUME NEW c \in Clients, ClientStep(c) PROVE EInv'
  BY <1>1, OtherClientEvents, CallEvents, PolledEvents DEF ClientStep
<1>2. ASSUME NEW c \in Clients, AppStep(c) PROVE EInv'
  BY <1>2, OtherClientEvents, CallEvents DEF AppStep
<1>3. ASSUME NEW c \in Clients, Quit(c) PROVE EInv'
  BY <1>3, OtherClientEvents
<1>4. CASE ServerStep
  BY <1>4, HandshakeEvents, CreateEvents, DestroyEvents, PollEvents, SendEvents, AnswerEvents
  DEF ServerStep
<1>5. ASSUME NEW e \in Events, Raise(e) PROVE EInv'
  BY <1>5, RaiseEvents
<1>6. CASE UNCHANGED vars
  <2>1. UNCHANGED <<client, server, to_client, pending, raised>>
    BY <1>6 DEF vars, streams, runtime
  <2>2. \A c \in Clients : Balanced(c)' <=> Balanced(c)
    BY <2>1 DEF Balanced, InFlight, At
  <2>3. QED
    BY <2>1, <2>2 DEF EInv, IsUp
<1>7. QED
  BY <1>1, <1>2, <1>3, <1>4, <1>5, <1>6 DEF Next, Events

\* The loop of the POLL_EVENT handler skips the events it cannot serialize, and loses none
\* of the others, duplicates none and reorders none, however many events are raised and
\* whenever they are: between two calls of an application that holds an instance, the
\* events it has got and the known ones that wait are the known ones that were raised.
THEOREM EventsArriveInOrder == Spec => []EventsInOrder
<1>1. CInv /\ EInv => EventsInOrder
  <2> SUFFICES ASSUME CInv, EInv, NEW c \in Clients, At(c, "up"), client[c].held # Null
               PROVE  client[c].events \o Deliverable(pending) = Deliverable(raised)
    BY DEF EventsInOrder
  <2>1. IsUp(c) /\ client[c].at = "up"
    BY DEF At, IsUp
  <2>2. Talk(c)
    BY <2>1, UpIsServed
  <2>3. server.saved \in Instances
    BY <2>1, <2>2 DEF Talk, KnowsInstance
  <2>4. Balanced(c) /\ InFlight(c) = <<>>
    BY <2>1, <2>3, InFlightFacts DEF EInv, At
  <2>5. Deliverable(pending) \in Seq(Known)
    BY DeliverableType DEF EInv
  <2>6. QED
    BY <2>4, <2>5 DEF Balanced
<1>2. QED
  BY <1>1, InitEInv, NextEInv, InductiveCInv, PTL DEF Spec

-----------------------------------------------------------------------------
(* The instances that the server destroys                                  *)

\* A client asks for the destruction of a handle that it was given.
AsksForHandle(q) == q # <<>> /\ Head(q)[1] = "destroy" => Head(q)[2] # Null

DInv == ~bogus /\ \A c \in Clients : AsksForHandle(to_server[c])

\* A message joins a stream that holds one at most, or leaves it.
LEMMA AsksAppend ==
  ASSUME NEW q, NEW a, NEW b, Small(q), AsksForHandle(q), a = "destroy" => b # Null
  PROVE  AsksForHandle(Append(q, <<a, b>>))
<1>1. CASE q = <<>>
  <2>1. Head(Append(q, <<a, b>>)) = <<a, b>>
    BY <1>1, OneMessage
  <2>2. QED
    BY <2>1, Pairs DEF AsksForHandle
<1>2. CASE q # <<>>
  <2>1. PICK x : q = <<x>>
    BY <1>2 DEF Small
  <2>2. Head(q) = x /\ Head(Append(q, <<a, b>>)) = x
    BY <2>1
  <2>3. QED
    BY <1>2, <2>2 DEF AsksForHandle
<1>3. QED
  BY <1>1, <1>2
\* Nothing is asked once the only message is taken.
LEMMA AsksTail == ASSUME NEW q, Small(q), q # <<>> PROVE AsksForHandle(Tail(q))
<1>1. Tail(q) = <<>>
  <2>1. PICK x : q = <<x>>
    BY DEF Small
  <2>2. QED
    BY <2>1, OneMessage
<1>2. QED
  BY <1>1 DEF AsksForHandle

\* What a step does to the stream of its client, for a step that destroys nothing.
LEMMA AsksFrame ==
  ASSUME CInv, DInv, bogus' = bogus, NEW c \in Clients,
         \/ to_server' = to_server
         \/ FromClient(c) /\ to_server[c] # <<>>
         \/ \E a, b : ToServer(c, <<a, b>>) /\ a # "destroy"
         \/ \E h : ToServer(c, <<"destroy", h>>) /\ h # Null
  PROVE  DInv'
<1>1. Shape /\ Small(to_server[c]) /\ AsksForHandle(to_server[c])
  BY DEF CInv, Progress, DInv
<1>2. CASE to_server' = to_server
  BY <1>2 DEF DInv
<1>3. CASE FromClient(c) /\ to_server[c] # <<>>
  <2>1. /\ to_server'[c] = Tail(to_server[c])
        /\ \A d \in Clients \ {c} : to_server'[d] = to_server[d]
    BY <1>1, <1>3, StreamFacts
  <2>2. AsksForHandle(to_server'[c])
    BY <1>1, <1>3, <2>1, AsksTail
  <2>3. QED
    BY <2>1, <2>2 DEF DInv
<1>4. ASSUME NEW a, NEW b, ToServer(c, <<a, b>>), a # "destroy" \/ b # Null PROVE DInv'
  <2>1. /\ to_server'[c] = Append(to_server[c], <<a, b>>)
        /\ \A d \in Clients \ {c} : to_server'[d] = to_server[d]
    BY <1>1, <1>4, StreamFacts
  <2>2. AsksForHandle(to_server'[c])
    BY <1>1, <1>4, <2>1, AsksAppend
  <2>3. QED
    BY <2>1, <2>2 DEF DInv
<1>5. QED
  BY <1>2, <1>3, <1>4, Zenon

\* Every step, when a new Server has no instance.
LEMMA NextDInv ==
  ASSUME Uninitialised = {Null}, CInv, DInv, [Next]_vars
  PROVE  DInv'
<1>1. ASSUME NEW c \in Clients, ClientStep(c) \/ AppStep(c) \/ Quit(c) PROVE DInv'
  <2>1. bogus' = bogus
    BY <1>1 DEF ClientStep, AppStep, ClientMagic, ClientVersions, ClientVerdict, Created,
       Destroyed, Polled, ClientEof, Connect, ConnectRefused, CreateInstance, DestroyInstance,
       PollEvent, Quit, runtime
  <2>2. \/ to_server' = to_server
        \/ \E a, b : ToServer(c, <<a, b>>) /\ a # "destroy"
        \/ \E h : ToServer(c, <<"destroy", h>>) /\ h # Null
    <3>1. CASE DestroyInstance(c)
      <4>1. ToServer(c, <<"destroy", client[c].held>>)
        BY <3>1 DEF DestroyInstance
      <4>2. client[c].held # Null
        BY <3>1 DEF DestroyInstance
      <4>3. QED
        BY <4>1, <4>2, Zenon
    <3>2. CASE Connect(c)
      <4>1. ToServer(c, <<"magic", client[c].magic>>)
        BY <3>2 DEF Connect
      <4>2. "magic" # "destroy"
        BY <3>2 DEF Connect
      <4>3. QED
        BY <4>1, <4>2, Zenon
    <3>3. CASE ClientMagic(c)
      <4>1. to_server' = to_server \/ ToServer(c, <<"versions", client[c].version>>)
        BY <3>3 DEF ClientMagic
      <4>2. "versions" # "destroy"
        BY <3>3 DEF ClientMagic
      <4>3. QED
        BY <4>1, <4>2, Zenon
    <3>4. CASE ClientVersions(c)
      <4>1. PICK n : ToServer(c, <<"ok", n>>)
        BY <3>4 DEF ClientVersions
      <4>2. "ok" # "destroy"
        OBVIOUS
      <4>3. QED
        BY <4>1, <4>2, Zenon
    <3>5. CASE CreateInstance(c)
      <4>1. ToServer(c, <<"create", 0>>)
        BY <3>5 DEF CreateInstance
      <4>2. "create" # "destroy"
        BY <3>5 DEF CreateInstance
      <4>3. QED
        BY <4>1, <4>2, Zenon
    <3>6. CASE PollEvent(c)
      <4>1. ToServer(c, <<"poll", 0>>)
        BY <3>6 DEF PollEvent
      <4>2. "poll" # "destroy"
        BY <3>6 DEF PollEvent
      <4>3. QED
        BY <4>1, <4>2, Zenon
    <3>7. CASE ClientVerdict(c) \/ Created(c) \/ Destroyed(c) \/ Polled(c) \/ ClientEof(c)
               \/ ConnectRefused(c) \/ Quit(c)
      BY <3>7 DEF ClientVerdict, Created, Destroyed, Polled, ClientEof, ConnectRefused, Quit
    <3>8. QED
      BY <1>1, <3>1, <3>2, <3>3, <3>4, <3>5, <3>6, <3>7 DEF ClientStep, AppStep
  <2>3. QED
    BY <2>1, <2>2, AsksFrame
<1>2. /\ server.client \in Clients /\ server.saved \in {Null} \cup Instances
      /\ server.at \in Running => live = {server.saved} \cap Instances
  BY DEF CInv, TypeOK, OneInstance
<1>3. CASE Accept \/ CheckMagic \/ ExchangeVersions \/ Verdict \/ HandshakeEof
           \/ MeetEof \/ HandleCreate \/ HandlePoll \/ StartReply \/ ReplyClosed \/ SendReply
           \/ FlushFails
  <2>1. bogus' = bogus
    BY <1>3 DEF Accept, CheckMagic, ExchangeVersions, Verdict, HandshakeEof, HandleCreate,
       HandlePoll, MeetEof, StartReply, ReplyClosed, SendReply, FlushFails, runtime
  <2>2. \/ to_server' = to_server
        \/ FromClient(server.client) /\ to_server[server.client] # <<>>
    BY <1>3 DEF Accept, CheckMagic, ExchangeVersions, Verdict, HandshakeEof, HandleCreate,
       HandlePoll, MeetEof, StartReply, ReplyClosed, SendReply, FlushFails, Serving, Asked,
       streams
  <2>3. QED
    BY <1>2, <2>1, <2>2, AsksFrame
<1>4. CASE HandleDestroy
  <2>1. /\ server.at = "run" /\ FromClient(server.client) /\ to_server[server.client] # <<>>
        /\ Head(to_server[server.client])[1] = "destroy"
    BY <1>4 DEF HandleDestroy, Asked, Serving
  <2>2. Head(to_server[server.client])[2] # Null
    BY <1>2, <2>1 DEF DInv, AsksForHandle
  <2>3. ~bogus'
    BY <1>2, <1>4, <2>1, <2>2 DEF HandleDestroy, DInv
  <2>4. bogus' = bogus
    <3>1. bogus \in BOOLEAN /\ bogus' \in BOOLEAN
      BY <1>4 DEF HandleDestroy, CInv, TypeOK
    <3>2. QED
      BY <2>3, <3>1 DEF DInv
  <2>5. QED
    BY <1>2, <2>1, <2>4, AsksFrame
<1>5. CASE EndRun
  <2>1. server.at = "run" /\ to_server' = to_server
    BY <1>5 DEF EndRun
  <2>2. ~bogus'
    BY <1>2, <1>5, <2>1 DEF EndRun, DInv
  <2>3. QED
    BY <2>1, <2>2 DEF DInv
<1>6. ASSUME NEW e, Raise(e) PROVE DInv'
  BY <1>6 DEF Raise, streams, DInv
<1>7. CASE UNCHANGED vars
  BY <1>7 DEF vars, streams, runtime, DInv
<1>8. QED
  BY <1>1, <1>3, <1>4, <1>5, <1>6, <1>7 DEF Next, ServerStep

\* The one cause of the run connection_garbage: if the constructor of Server set
\* saved_instance to XR_NULL_HANDLE, neither destroy_instance_handler nor the end of
\* Server::run would ever give the runtime a handle that is not live, whatever the
\* clients do and wherever they stop.
THEOREM NullHandleSuffices ==
  ASSUME Uninitialised = {Null}
  PROVE  Spec => []DestroysOnlyInstances
<1>1. Init => DInv
  BY DEF Init, DInv, AsksForHandle
<1>2. CInv /\ DInv /\ [Next]_vars => DInv'
  BY NextDInv
<1>3. DInv => DestroysOnlyInstances
  BY DEF DInv, DestroysOnlyInstances
<1>4. QED
  BY <1>1, <1>2, <1>3, InductiveCInv, PTL DEF Spec
=============================================================================
