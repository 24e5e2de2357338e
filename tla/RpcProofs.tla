----------------------------- MODULE RpcProofs -----------------------------
(***************************************************************************)
(* Proofs about Rpc, for any functions, applications and servers whose     *)
(* tables agree (HandlersAssumption): a remote call is what RemoteCall     *)
(* promises.                                                               *)
(***************************************************************************)
EXTENDS Rpc, TLAPS

-----------------------------------------------------------------------------
(* Sequences whose elements have no type worth stating.                    *)

IsSequence(s) == s \in Seq({s[i] : i \in DOMAIN s})

\* Every sequence is one.
LEMMA Sequences == ASSUME NEW S, NEW s \in Seq(S) PROVE IsSequence(s)
  BY DEF IsSequence

\* Appending one element.
LEMMA AppendFacts ==
  ASSUME NEW s, IsSequence(s), NEW e
  PROVE  /\ IsSequence(Append(s, e))
         /\ Len(s) \in Nat /\ DOMAIN s = 1..Len(s)
         /\ Len(Append(s, e)) = Len(s) + 1 /\ DOMAIN Append(s, e) = 1..Len(s) + 1
         /\ \A i \in 1..Len(s) : Append(s, e)[i] = s[i]
         /\ Append(s, e)[Len(s) + 1] = e
<1> DEFINE S == {s[i] : i \in DOMAIN s} \cup {e}
<1>1. s \in Seq(S)
  BY DEF IsSequence
<1>2. Append(s, e) \in Seq(S)
  <2> HIDE DEF S
  <2>1. e \in S
    BY DEF S
  <2> QED BY <1>1, <2>1
<1>3. IsSequence(Append(s, e))
  BY <1>2, Sequences
<1> HIDE DEF S
<1> QED
  BY <1>1, <1>3

\* Taking the first element.
LEMMA TailFacts ==
  ASSUME NEW s, IsSequence(s), s # <<>>
  PROVE  /\ IsSequence(Tail(s))
         /\ Len(s) \in Nat /\ DOMAIN s = 1..Len(s) /\ 1 \in DOMAIN s /\ Head(s) = s[1]
         /\ DOMAIN Tail(s) = 1..Len(s) - 1
         /\ \A i \in 1..Len(s) - 1 : Tail(s)[i] = s[i + 1] /\ i + 1 \in DOMAIN s
<1> DEFINE S == {s[i] : i \in DOMAIN s}
<1>1. s \in Seq(S)
  BY DEF IsSequence
<1> HIDE DEF S
<1>2. Tail(s) \in Seq(S)
  BY <1>1
<1>3. IsSequence(Tail(s))
  BY <1>2, Sequences
<1> QED
  BY <1>1, <1>3

\* Replacing one element.
LEMMA ExceptFacts ==
  ASSUME NEW s, IsSequence(s), NEW k \in DOMAIN s, NEW e
  PROVE  /\ IsSequence([s EXCEPT ![k] = e]) /\ Len([s EXCEPT ![k] = e]) = Len(s)
         /\ Len(s) \in Nat /\ DOMAIN s = 1..Len(s)
<1> DEFINE S == {s[i] : i \in DOMAIN s} \cup {e}
<1>1. s \in Seq(S)
  BY DEF IsSequence
<1>2. e \in S
  OBVIOUS
<1> HIDE DEF S
<1>3. [s EXCEPT ![k] = e] \in Seq(S) /\ Len([s EXCEPT ![k] = e]) = Len(s)
  BY <1>1, <1>2
<1>4. IsSequence([s EXCEPT ![k] = e])
  BY <1>3, Sequences
<1> QED
  BY <1>1, <1>3, <1>4
-----------------------------------------------------------------------------
(* The inductive invariant.                                                *)

Busy == server.at # "idle"
Cut(c) == calls[c].unknown.side = "client"

\* Types; the records of the calls grow together.
Types ==
  /\ app \in Apps
  /\ calls \in Seq(app.requests) /\ state \in Seq({"open", "result", "refused", "failed"})
  /\ runs \in Seq(Nat) /\ answer \in Seq(Nat) /\ IsSequence(seen) /\ IsSequence(received)
  /\ Len(state) = Current /\ Len(runs) = Current /\ Len(seen) = Current
  /\ Len(answer) = Current /\ Len(received) = Current
  /\ IsSequence(requests) /\ IsSequence(replies)
  /\ server \in [at : {"idle", "read", "ran", "refused"}, call : Nat, id : {server.id},
                 got : {server.got}, inner : {server.inner}, instance : {server.instance}]
  /\ conn \in {"up", "closed"} /\ crashed \in BOOLEAN /\ saved \in Saved

\* The calls that returned what a handler answered.
Answered == {"result", "refused"}

\* A request in the queue is the message of its call, for which nothing has run yet.
RequestsInv ==
  \A i \in DOMAIN requests :
    LET c == requests[i].call IN
    /\ c \in 1..Current
    /\ requests[i].id = calls[c].stub.id /\ requests[i].tokens = Tokens(calls[c])
    /\ runs[c] = 0 /\ state[c] \notin Answered

\* A handler that is running has read a complete request, and refuses it only if it names
\* an instance.
ServerInv ==
  Busy =>
    /\ server.call \in 1..Current /\ ~Cut(server.call)
    /\ state[server.call] \notin Answered
    /\ server.at = "read" =>
         /\ runs[server.call] = 0
         /\ {[fn |-> Handler(server.id).fn, args |-> server.got]} = Seen(calls[server.call])
         /\ Handler(server.id).instance = "checks" => Checked(calls[server.call])
    /\ server.at = "ran" => runs[server.call] = 1
    /\ server.at = "refused" => runs[server.call] = 0 /\ Checked(calls[server.call])

\* An answer comes after one execution, or after none and says so.
RepliesInv ==
  \A i \in DOMAIN replies :
    LET c == replies[i].call IN
    /\ c \in 1..Current
    /\ \/ replies[i].ran = TRUE /\ runs[c] = 1
       \/ replies[i].ran = FALSE /\ runs[c] = 0 /\ Checked(calls[c])

\* Answers, the running handler and requests are in the order of their calls.
OrderInv ==
  /\ \A i, j \in DOMAIN requests : i < j => requests[i].call < requests[j].call
  /\ \A i, j \in DOMAIN replies : i < j => replies[i].call < replies[j].call
  /\ \A i \in DOMAIN requests : Busy => server.call < requests[i].call
  /\ \A i \in DOMAIN replies : Busy => replies[i].call < server.call
  /\ \A i \in DOMAIN replies, j \in DOMAIN requests : replies[i].call < requests[j].call

\* While the connection is up, whatever can still be answered is for the call that waits.
UpInv ==
  conn = "up" =>
    /\ \A i \in DOMAIN requests :
         ~Cut(requests[i].call) => requests[i].call = Current /\ Open
    /\ Busy => server.call = Current /\ Open
    /\ \A i \in DOMAIN replies : replies[i].call = Current /\ Open

\* Only the last call is open, and calls that have not run have not been seen.
CallsInv ==
  \A c \in 1..Current :
    /\ state[c] = "open" => c = Current
    /\ runs[c] = 0 => seen[c] = {}
    /\ Cut(c) => runs[c] = 0
    /\ state[c] = "result" => answer[c] = c /\ runs[c] = 1
    /\ state[c] = "refused" => answer[c] = c /\ runs[c] = 0 /\ Checked(calls[c])

RInv ==
  /\ Types /\ RequestsInv /\ ServerInv /\ RepliesInv /\ OrderInv /\ UpInv /\ CallsInv

\* The invariant holds at first.
LEMMA InitRInv == Init => RInv
<1> SUFFICES ASSUME Init PROVE RInv
  OBVIOUS
<1>1. IsSequence(<<>>)
  <2>1. <<>> \in Seq({1})
    OBVIOUS
  <2> QED
    BY <2>1, Sequences, Zenon
<1>2. Types
  <2>1. /\ app \in Apps
        /\ calls \in Seq(app.requests) /\ state \in Seq({"open", "result", "refused", "failed"})
        /\ runs \in Seq(Nat) /\ answer \in Seq(Nat)
    BY DEF Init
  <2>2. IsSequence(seen) /\ IsSequence(received) /\ IsSequence(requests) /\ IsSequence(replies)
    BY <1>1 DEF Init
  <2>3. /\ Len(state) = Current /\ Len(runs) = Current /\ Len(seen) = Current
        /\ Len(answer) = Current /\ Len(received) = Current
    BY DEF Init, Current
  <2>4. server \in [at : {"idle", "read", "ran", "refused"}, call : Nat, id : {server.id},
                    got : {server.got}, inner : {server.inner}, instance : {server.instance}]
    BY DEF Init, Idle
  <2>5. conn \in {"up", "closed"} /\ crashed \in BOOLEAN /\ saved \in Saved
    BY AppsAssumption DEF Init
  <2> QED
    BY <2>1, <2>2, <2>3, <2>4, <2>5 DEF Types
<1>3. RequestsInv /\ RepliesInv /\ OrderInv /\ CallsInv /\ UpInv /\ ServerInv
  BY DEF Init, Current, Idle, Busy, RequestsInv, RepliesInv, OrderInv, CallsInv, UpInv, ServerInv
<1> QED
  BY <1>2, <1>3 DEF RInv

-----------------------------------------------------------------------------
(* Steps of the client.                                                    *)

\* What the record of a new call does to the history.
LEMMA RecordFacts ==
  ASSUME Types, NEW r \in app.requests, NEW s \in {"open", "failed"}, Record(r, s)
  PROVE  /\ Current \in Nat /\ Current' = Current + 1
         /\ calls' \in Seq(app.requests) /\ state' \in Seq({"open", "result", "refused", "failed"})
         /\ runs' \in Seq(Nat) /\ answer' \in Seq(Nat) /\ IsSequence(seen') /\ IsSequence(received')
         /\ Len(state') = Current' /\ Len(runs') = Current' /\ Len(seen') = Current'
         /\ Len(answer') = Current' /\ Len(received') = Current'
         /\ \A c \in 1..Current :
              /\ calls'[c] = calls[c] /\ state'[c] = state[c] /\ runs'[c] = runs[c]
              /\ seen'[c] = seen[c] /\ answer'[c] = answer[c]
         /\ calls'[Current + 1] = r /\ state'[Current + 1] = s /\ runs'[Current + 1] = 0
         /\ seen'[Current + 1] = {}
<1>1. calls' = Append(calls, r) /\ calls \in Seq(app.requests)
  BY DEF Record, Types
<1>2. Current \in Nat /\ Current' = Current + 1 /\ calls' \in Seq(app.requests)
  BY <1>1 DEF Current
<1>3. \A c \in 1..Current : calls'[c] = calls[c]
  BY <1>1, <1>2 DEF Current
<1>4. calls'[Current + 1] = r
  BY <1>1, <1>2 DEF Current
<1>5. /\ state' \in Seq({"open", "result", "refused", "failed"}) /\ Len(state') = Current + 1
      /\ (\A c \in 1..Current : state'[c] = state[c]) /\ state'[Current + 1] = s
  BY <1>2 DEF Record, Types
<1>6. /\ runs' \in Seq(Nat) /\ Len(runs') = Current + 1
      /\ (\A c \in 1..Current : runs'[c] = runs[c]) /\ runs'[Current + 1] = 0
  BY <1>2 DEF Record, Types
<1>7. /\ answer' \in Seq(Nat) /\ Len(answer') = Current + 1
      /\ (\A c \in 1..Current : answer'[c] = answer[c])
  BY <1>2 DEF Record, Types
<1>8. /\ IsSequence(seen') /\ Len(seen') = Current + 1
      /\ (\A c \in 1..Current : seen'[c] = seen[c]) /\ seen'[Current + 1] = {}
  <2>1. seen' = Append(seen, {}) /\ IsSequence(seen) /\ Len(seen) = Current
    BY DEF Record, Types, NotSeen
  <2> QED
    BY <2>1, AppendFacts
<1>9. IsSequence(received') /\ Len(received') = Current + 1
  <2>1. received' = Append(received, {}) /\ IsSequence(received) /\ Len(received) = Current
    BY DEF Record, Types
  <2> QED
    BY <2>1, AppendFacts
<1> QED
  BY <1>2, <1>3, <1>4, <1>5, <1>6, <1>7, <1>8, <1>9

\* A message of a new call, cut short or not, is put in the queue of a connection that is up.
LEMMA SendStep ==
  ASSUME RInv, NEW r \in app.requests, ~Open, conn = "up",
         NEW s \in {"open", "failed"}, Record(r, s),
         (s = "open") = (r.unknown.side # "client"),
         requests' = Append(requests, Message(r, Tokens(r))),
         UNCHANGED <<app, server, replies, conn, crashed, saved, unfreed>>
  PROVE  RInv'
<1> DEFINE new == Message(r, Tokens(r))
<1>1. /\ Types /\ RequestsInv /\ ServerInv /\ RepliesInv /\ OrderInv /\ UpInv /\ CallsInv
  BY DEF RInv
<1>2. /\ Current \in Nat /\ Current' = Current + 1
      /\ calls' \in Seq(app.requests) /\ state' \in Seq({"open", "result", "refused", "failed"})
      /\ runs' \in Seq(Nat) /\ answer' \in Seq(Nat) /\ IsSequence(seen') /\ IsSequence(received')
      /\ Len(state') = Current' /\ Len(runs') = Current' /\ Len(seen') = Current'
      /\ Len(answer') = Current' /\ Len(received') = Current'
      /\ \A c \in 1..Current :
           /\ calls'[c] = calls[c] /\ state'[c] = state[c] /\ runs'[c] = runs[c]
           /\ seen'[c] = seen[c] /\ answer'[c] = answer[c]
      /\ calls'[Current + 1] = r /\ state'[Current + 1] = s /\ runs'[Current + 1] = 0
      /\ seen'[Current + 1] = {}
  BY <1>1, RecordFacts
<1>2a. \A c \in 1..Current :
         /\ c \in 1..Current'
         /\ calls'[c] = calls[c] /\ state'[c] = state[c] /\ runs'[c] = runs[c]
  <2>1. Current \in Nat /\ Current' = Current + 1
    BY <1>2
  <2>2. \A c \in 1..Current :
          calls'[c] = calls[c] /\ state'[c] = state[c] /\ runs'[c] = runs[c]
    BY ONLY <1>2
  <2>3. \A c \in 1..Current : c \in 1..Current'
    BY ONLY <2>1
  <2> QED
    BY ONLY <2>2, <2>3
<1>3. /\ IsSequence(requests')
      /\ Len(requests) \in Nat /\ DOMAIN requests = 1..Len(requests)
      /\ DOMAIN requests' = 1..Len(requests) + 1
      /\ \A i \in 1..Len(requests) : requests'[i] = requests[i]
      /\ requests'[Len(requests) + 1] = new
  <2> HIDE DEF new
  <2>1. IsSequence(requests) /\ requests' = Append(requests, new)
    BY <1>1 DEF Types, new
  <2> QED
    BY <2>1, AppendFacts
<1>4. new.call = Current + 1 /\ new.id = r.stub.id /\ new.tokens = Tokens(r)
  BY DEF Message
<1>5. ~Busy /\ replies = <<>>
  <2>1. ~Busy
    BY <1>1 DEF UpInv
  <2>2. DOMAIN replies = {}
    BY <1>1 DEF UpInv
  <2>3. IsSequence(replies)
    BY <1>1 DEF Types
  <2> QED
    BY <2>1, <2>2, <2>3, TailFacts
<1>6. DOMAIN replies' = {} /\ ~Busy'
  BY <1>5 DEF Busy
<1>7. \A i \in DOMAIN requests : requests[i].call \in 1..Current /\ Cut(requests[i].call)
  BY <1>1 DEF UpInv, RequestsInv
<1> HIDE DEF new
<1>8. Types'
  BY <1>1, <1>2, <1>3 DEF Types
<1>9. RequestsInv'
  <2> SUFFICES ASSUME NEW i \in DOMAIN requests'
               PROVE  LET c == requests'[i].call IN
                      /\ c \in 1..Current'
                      /\ requests'[i].id = calls'[c].stub.id /\ requests'[i].tokens = Tokens(calls'[c])
                      /\ runs'[c] = 0 /\ state'[c] \notin Answered
    BY DEF RequestsInv, Tokens, Answered
  <2>1. CASE i = Len(requests) + 1
    BY <1>2, <1>3, <1>4, <2>1 DEF Answered
  <2>2. CASE i \in 1..Len(requests)
    <3>1. requests'[i] = requests[i] /\ i \in DOMAIN requests
      BY <1>3, <2>2
    <3>2. LET c == requests[i].call IN
          /\ c \in 1..Current
          /\ requests[i].id = calls[c].stub.id /\ requests[i].tokens = Tokens(calls[c])
          /\ runs[c] = 0 /\ state[c] \notin Answered
      BY <1>1, <3>1 DEF RequestsInv
    <3> DEFINE c == requests[i].call
    <3>3. c \in 1..Current
      BY <3>2
    <3>4. /\ calls'[c] = calls[c] /\ runs'[c] = runs[c] /\ state'[c] = state[c]
          /\ c \in 1..Current'
      <4> HIDE DEF c
      <4> QED
        BY <1>2a, <3>3
    <3> HIDE DEF c
    <3> QED
      BY <3>1, <3>2, <3>4 DEF c
  <2> QED
    BY <1>3, <2>1, <2>2
<1>10. ServerInv' /\ RepliesInv'
  BY <1>6 DEF ServerInv, RepliesInv
<1>11. OrderInv'
  BY <1>1, <1>2, <1>3, <1>4, <1>6, <1>7 DEF OrderInv
<1>12. UpInv'
  <2> SUFFICES ASSUME NEW i \in DOMAIN requests', calls'[requests'[i].call].unknown.side # "client"
               PROVE  requests'[i].call = Current' /\ Open'
    BY <1>6 DEF UpInv, Cut
  <2>1. CASE i = Len(requests) + 1
    <3>1. requests'[i].call = Current'
      BY <1>2, <1>3, <1>4, <2>1
    <3>2. s = "open"
      BY <1>2, <1>3, <1>4, <2>1 DEF Cut
    <3> QED
      BY <1>2, <3>1, <3>2 DEF Open, Current
  <2>2. CASE i \in 1..Len(requests)
    <3>1. requests'[i] = requests[i] /\ i \in DOMAIN requests
      BY <1>3, <2>2
    <3>2. requests[i].call \in 1..Current /\ calls[requests[i].call].unknown.side = "client"
      BY <1>7, <3>1 DEF Cut
    <3> QED
      BY <1>2, <3>1, <3>2
  <2> QED
    BY <1>3, <2>1, <2>2
<1>13. CallsInv'
  <2> SUFFICES ASSUME NEW c \in 1..Current'
               PROVE  /\ state'[c] = "open" => c = Current'
                      /\ runs'[c] = 0 => seen'[c] = {}
                      /\ calls'[c].unknown.side = "client" => runs'[c] = 0
                      /\ state'[c] = "result" => answer'[c] = c /\ runs'[c] = 1
                      /\ state'[c] = "refused" =>
                           answer'[c] = c /\ runs'[c] = 0 /\ Checked(calls'[c])
    BY DEF CallsInv, Cut, Checked
  <2>1. CASE c = Current + 1
    BY <1>2, <2>1
  <2>2. CASE c \in 1..Current
    <3>1. state[c] # "open"
      BY <1>1, <1>2, <2>2 DEF CallsInv, Open
    <3>2. /\ runs[c] = 0 => seen[c] = {}
          /\ calls[c].unknown.side = "client" => runs[c] = 0
          /\ state[c] = "result" => answer[c] = c /\ runs[c] = 1
          /\ state[c] = "refused" => answer[c] = c /\ runs[c] = 0 /\ Checked(calls[c])
      BY <1>1, <2>2 DEF CallsInv, Cut
    <3>3. /\ calls'[c] = calls[c] /\ state'[c] = state[c] /\ runs'[c] = runs[c]
          /\ seen'[c] = seen[c] /\ answer'[c] = answer[c]
      BY <1>2, <2>2
    <3> QED
      BY <3>1, <3>2, <3>3
  <2> QED
    BY <1>2, <2>1, <2>2
<1> QED
  BY <1>8, <1>9, <1>10, <1>11, <1>12, <1>13 DEF RInv

\* A call on a connection that is closed.
LEMMA ClosedStep ==
  ASSUME RInv, NEW r \in app.requests, ~Open, conn = "closed", Record(r, "failed"),
         UNCHANGED <<app, requests, server, replies, conn, crashed, saved, unfreed>>
  PROVE  RInv'
<1>1. /\ Types /\ RequestsInv /\ ServerInv /\ RepliesInv /\ OrderInv /\ UpInv /\ CallsInv
  BY DEF RInv
<1>2. /\ Current \in Nat /\ Current' = Current + 1
      /\ calls' \in Seq(app.requests) /\ state' \in Seq({"open", "result", "refused", "failed"})
      /\ runs' \in Seq(Nat) /\ answer' \in Seq(Nat) /\ IsSequence(seen') /\ IsSequence(received')
      /\ Len(state') = Current' /\ Len(runs') = Current' /\ Len(seen') = Current'
      /\ Len(answer') = Current' /\ Len(received') = Current'
      /\ \A c \in 1..Current :
           /\ calls'[c] = calls[c] /\ state'[c] = state[c] /\ runs'[c] = runs[c]
           /\ seen'[c] = seen[c] /\ answer'[c] = answer[c]
      /\ calls'[Current + 1] = r /\ state'[Current + 1] = "failed" /\ runs'[Current + 1] = 0
      /\ seen'[Current + 1] = {}
  BY <1>1, RecordFacts
<1>2a. \A c \in 1..Current :
         /\ c \in 1..Current'
         /\ calls'[c] = calls[c] /\ state'[c] = state[c] /\ runs'[c] = runs[c]
  <2>1. Current \in Nat /\ Current' = Current + 1
    BY <1>2
  <2>2. \A c \in 1..Current :
          calls'[c] = calls[c] /\ state'[c] = state[c] /\ runs'[c] = runs[c]
    BY ONLY <1>2
  <2>3. \A c \in 1..Current : c \in 1..Current'
    BY ONLY <2>1
  <2> QED
    BY ONLY <2>2, <2>3
<1>3. Types'
  BY <1>1, <1>2 DEF Types
<1>4. RequestsInv'
  <2> SUFFICES ASSUME NEW i \in DOMAIN requests
               PROVE  LET c == requests[i].call IN
                      /\ c \in 1..Current'
                      /\ requests[i].id = calls'[c].stub.id /\ requests[i].tokens = Tokens(calls'[c])
                      /\ runs'[c] = 0 /\ state'[c] \notin Answered
    BY DEF RequestsInv, Tokens, Answered
  <2>1. LET c == requests[i].call IN
        /\ c \in 1..Current
        /\ requests[i].id = calls[c].stub.id /\ requests[i].tokens = Tokens(calls[c])
        /\ runs[c] = 0 /\ state[c] \notin Answered
    BY <1>1 DEF RequestsInv
  <2> DEFINE c == requests[i].call
  <2>2. c \in 1..Current
    BY <2>1
  <2>3. /\ calls'[c] = calls[c] /\ runs'[c] = runs[c] /\ state'[c] = state[c]
        /\ c \in 1..Current'
    <3> HIDE DEF c
    <3> QED
      BY <1>2a, <2>2
  <2> HIDE DEF c
  <2> QED
    BY <2>1, <2>3 DEF c
<1>5. ServerInv'
  <2> SUFFICES ASSUME Busy
               PROVE  /\ server.call \in 1..Current' /\ calls'[server.call].unknown.side # "client"
                      /\ state'[server.call] \notin Answered
                      /\ server.at = "read" =>
                           /\ runs'[server.call] = 0
                           /\ {[fn |-> Handler(server.id).fn, args |-> server.got]}
                                = Seen(calls'[server.call])
                           /\ Handler(server.id).instance = "checks" => Checked(calls'[server.call])
                      /\ server.at = "ran" => runs'[server.call] = 1
                      /\ server.at = "refused" =>
                           runs'[server.call] = 0 /\ Checked(calls'[server.call])
    BY DEF ServerInv, Busy, Cut, Handler, Seen, Checked, Answered
  <2>1. /\ server.call \in 1..Current /\ calls[server.call].unknown.side # "client"
        /\ state[server.call] \notin Answered
        /\ server.at = "read" =>
             /\ runs[server.call] = 0
             /\ {[fn |-> Handler(server.id).fn, args |-> server.got]} = Seen(calls[server.call])
             /\ Handler(server.id).instance = "checks" => Checked(calls[server.call])
        /\ server.at = "ran" => runs[server.call] = 1
        /\ server.at = "refused" => runs[server.call] = 0 /\ Checked(calls[server.call])
    BY <1>1 DEF ServerInv, Cut
  <2>2. /\ calls'[server.call] = calls[server.call] /\ runs'[server.call] = runs[server.call]
        /\ state'[server.call] = state[server.call] /\ server.call \in 1..Current'
    BY <1>2a, <2>1
  <2> QED
    BY <2>1, <2>2
<1>6. RepliesInv'
  <2> SUFFICES ASSUME NEW i \in DOMAIN replies
               PROVE  LET c == replies[i].call IN
                      /\ c \in 1..Current'
                      /\ \/ replies[i].ran = TRUE /\ runs'[c] = 1
                         \/ replies[i].ran = FALSE /\ runs'[c] = 0 /\ Checked(calls'[c])
    BY DEF RepliesInv, Checked
  <2> DEFINE c == replies[i].call
  <2>1. /\ c \in 1..Current
        /\ \/ replies[i].ran = TRUE /\ runs[c] = 1
           \/ replies[i].ran = FALSE /\ runs[c] = 0 /\ Checked(calls[c])
    BY <1>1 DEF RepliesInv
  <2>2. c \in 1..Current
    BY <2>1
  <2>3. c \in 1..Current' /\ calls'[c] = calls[c] /\ runs'[c] = runs[c]
    <3> HIDE DEF c
    <3> QED
      BY <1>2a, <2>2
  <2> HIDE DEF c
  <2> QED
    BY <2>1, <2>3 DEF c
<1>7. OrderInv' /\ UpInv'
  BY <1>1 DEF OrderInv, UpInv, Busy
<1>8. CallsInv'
  <2> SUFFICES ASSUME NEW c \in 1..Current'
               PROVE  /\ state'[c] = "open" => c = Current'
                      /\ runs'[c] = 0 => seen'[c] = {}
                      /\ calls'[c].unknown.side = "client" => runs'[c] = 0
                      /\ state'[c] = "result" => answer'[c] = c /\ runs'[c] = 1
                      /\ state'[c] = "refused" =>
                           answer'[c] = c /\ runs'[c] = 0 /\ Checked(calls'[c])
    BY DEF CallsInv, Cut, Checked
  <2>1. CASE c = Current + 1
    BY <1>2, <2>1
  <2>2. CASE c \in 1..Current
    <3>1. state[c] # "open"
      BY <1>1, <1>2, <2>2 DEF CallsInv, Open
    <3>2. /\ runs[c] = 0 => seen[c] = {}
          /\ calls[c].unknown.side = "client" => runs[c] = 0
          /\ state[c] = "result" => answer[c] = c /\ runs[c] = 1
          /\ state[c] = "refused" => answer[c] = c /\ runs[c] = 0 /\ Checked(calls[c])
      BY <1>1, <2>2 DEF CallsInv, Cut
    <3>3. /\ calls'[c] = calls[c] /\ state'[c] = state[c] /\ runs'[c] = runs[c]
          /\ seen'[c] = seen[c] /\ answer'[c] = answer[c]
      BY <1>2, <2>2
    <3> QED
      BY <3>1, <3>2, <3>3
  <2> QED
    BY <1>2, <2>1, <2>2
<1> QED
  BY <1>3, <1>4, <1>5, <1>6, <1>7, <1>8 DEF RInv

\* The stub that waits reads an answer: it is the answer to its own call, and the last.
LEMMA ReadReplyStep == ASSUME RInv, ReadReply PROVE RInv'
<1>1. /\ Types /\ RequestsInv /\ ServerInv /\ RepliesInv /\ OrderInv /\ UpInv /\ CallsInv
  BY DEF RInv
<1>2. /\ Open /\ conn = "up" /\ replies # <<>> /\ replies' = Tail(replies)
      /\ UNCHANGED <<app, calls, requests, server, conn, crashed, saved, runs, seen, unfreed>>
  BY DEF ReadReply, book
<1>3. PICK st \in {"result", "refused", "failed"} :
        /\ state' = [state EXCEPT ![Current] = st]
        /\ answer' = [answer EXCEPT ![Current] = Head(replies).call]
        /\ st = "result" => Head(replies).ran
        /\ st = "refused" => ~Head(replies).ran
  BY DEF ReadReply
<1>3a. PICK got : received' = [received EXCEPT ![Current] = got]
  BY DEF ReadReply
<1>4. /\ IsSequence(replies') /\ Len(replies) \in Nat /\ DOMAIN replies = 1..Len(replies)
      /\ 1 \in DOMAIN replies /\ Head(replies) = replies[1]
      /\ DOMAIN replies' = 1..Len(replies) - 1
  <2>1. IsSequence(replies)
    BY <1>1 DEF Types
  <2> QED
    BY <1>2, <2>1, TailFacts
<1>5. /\ replies[1].call = Current /\ Current \in Nat /\ Current \in 1..Current
      /\ st = "result" => runs[Current] = 1
      /\ st = "refused" => runs[Current] = 0 /\ Checked(calls[Current])
  <2>1. replies[1].call = Current /\ Current \in Nat /\ Current \in 1..Current
    BY <1>1, <1>2, <1>4 DEF UpInv, Open, Types, Current
  <2>2. \/ replies[1].ran = TRUE /\ runs[Current] = 1
        \/ replies[1].ran = FALSE /\ runs[Current] = 0 /\ Checked(calls[Current])
    BY <1>1, <1>4, <2>1 DEF RepliesInv
  <2> QED
    BY <1>3, <1>4, <2>1, <2>2
<1>6. DOMAIN replies' = {} /\ ~Busy /\ DOMAIN requests = {}
  <2>1. \A i \in DOMAIN replies : i = 1
    BY <1>1, <1>2, <1>4, <1>5 DEF UpInv, OrderInv
  <2>2. ~Busy
    BY <1>1, <1>4, <1>5 DEF OrderInv, ServerInv
  <2>3. ASSUME NEW j \in DOMAIN requests PROVE FALSE
    <3>1. replies[1].call < requests[j].call
      BY <1>1, <1>4 DEF OrderInv
    <3>2. requests[j].call \in 1..Current
      BY <1>1 DEF RequestsInv
    <3> QED
      BY <1>5, <3>1, <3>2
  <2>4. DOMAIN requests = {}
    BY <2>3
  <2>5. DOMAIN replies' = {}
    <3>1. Len(replies) = 1
      BY <1>4, <2>1
    <3> QED
      BY <1>4, <3>1
  <2> QED
    BY <2>2, <2>4, <2>5
<1>7. Types'
  <2>1. /\ state' \in Seq({"open", "result", "refused", "failed"}) /\ Len(state') = Current
        /\ answer' \in Seq(Nat) /\ Len(answer') = Current
    BY <1>1, <1>3, <1>4, <1>5 DEF Types
  <2>2. IsSequence(received') /\ Len(received') = Current
    <3>1. IsSequence(received) /\ Len(received) = Current
      BY <1>1 DEF Types
    <3>2. Current \in DOMAIN received
      BY <1>5, <3>1, AppendFacts
    <3> QED
      BY <1>3a, <3>1, <3>2, ExceptFacts
  <2> QED
    BY <1>1, <1>2, <1>4, <2>1, <2>2 DEF Types, Current
<1>8. RequestsInv' /\ ServerInv' /\ RepliesInv' /\ OrderInv' /\ UpInv'
  BY <1>2, <1>6 DEF RequestsInv, ServerInv, RepliesInv, OrderInv, UpInv, Busy
<1>9. CallsInv'
  <2> SUFFICES ASSUME NEW c \in 1..Current
               PROVE  /\ state'[c] = "open" => c = Current
                      /\ runs[c] = 0 => seen[c] = {}
                      /\ calls[c].unknown.side = "client" => runs[c] = 0
                      /\ state'[c] = "result" => answer'[c] = c /\ runs[c] = 1
                      /\ state'[c] = "refused" => answer'[c] = c /\ runs[c] = 0 /\ Checked(calls[c])
    BY <1>2 DEF CallsInv, Cut, Current, Checked
  <2>1. /\ c \in DOMAIN state /\ c \in DOMAIN answer
    BY <1>1 DEF Types
  <2>2. CASE c = Current
    BY <1>1, <1>3, <1>4, <1>5, <2>1, <2>2 DEF CallsInv, Cut
  <2>3. CASE c # Current
    <3>1. state'[c] = state[c] /\ answer'[c] = answer[c]
      BY <1>3, <2>1, <2>3
    <3> QED
      BY <1>1, <3>1 DEF CallsInv, Cut
  <2> QED
    BY <2>2, <2>3
<1> QED
  BY <1>7, <1>8, <1>9 DEF RInv

\* A wait that ends with the connection.
LEMMA AwaitAbortedStep == ASSUME RInv, AwaitAborted PROVE RInv'
<1>1. /\ Types /\ RequestsInv /\ ServerInv /\ RepliesInv /\ OrderInv /\ UpInv /\ CallsInv
  BY DEF RInv
<1>2. /\ Open /\ conn = "closed" /\ state' = [state EXCEPT ![Current] = "failed"]
      /\ UNCHANGED <<app, calls, requests, server, replies, conn, crashed, saved, runs, seen, answer, received>>
  BY DEF AwaitAborted, book, inbox
<1>3. state' \in Seq({"open", "result", "refused", "failed"}) /\ Len(state') = Current
  BY <1>1, <1>2 DEF Types, Open
<1>4. Types'
  BY <1>1, <1>2, <1>3 DEF Types, Current
<1>5. RequestsInv' /\ ServerInv' /\ RepliesInv' /\ OrderInv' /\ UpInv'
  <2>0. \A c : state[c] \notin Answered /\ c \in 1..Current => state'[c] \notin Answered
    BY <1>1, <1>2 DEF Types, Answered
  <2>1. RequestsInv'
    BY <1>1, <1>2, <2>0 DEF RequestsInv, Current
  <2>2. ServerInv'
    BY <1>1, <1>2, <2>0 DEF ServerInv, Busy, Cut, Current, Handler, Checked
  <2>3. RepliesInv' /\ OrderInv'
    BY <1>1, <1>2 DEF RepliesInv, OrderInv, Busy, Current, Checked
  <2>4. UpInv'
    BY <1>2 DEF UpInv
  <2>5. QED
    BY <2>1, <2>2, <2>3, <2>4
<1>6. CallsInv'
  BY <1>1, <1>2 DEF Types, CallsInv, Cut, Current, Checked
<1> QED
  BY <1>4, <1>5, <1>6 DEF RInv

-----------------------------------------------------------------------------
(* Steps of the server and of the connection.                              *)

\* Requests are dropped, with or without the connection.
LEMMA DropStep ==
  ASSUME RInv, requests # <<>>, requests' = Tail(requests) \/ requests' = <<>>,
         conn' = conn \/ conn' = "closed", crashed' \in BOOLEAN,
         UNCHANGED <<app, calls, state, server, replies, saved, runs, seen, answer, received>>
  PROVE  RInv'
<1>1. /\ Types /\ RequestsInv /\ ServerInv /\ RepliesInv /\ OrderInv /\ UpInv /\ CallsInv
  BY DEF RInv
<1>2. PICK k \in {1, Len(requests)} :
        /\ IsSequence(requests') /\ Len(requests) \in Nat /\ DOMAIN requests = 1..Len(requests)
        /\ DOMAIN requests' = 1..Len(requests) - k
        /\ \A i \in DOMAIN requests' : requests'[i] = requests[i + k] /\ i + k \in DOMAIN requests
  <2>1. IsSequence(requests)
    BY <1>1 DEF Types
  <2>2. CASE requests' = Tail(requests)
    BY <2>1, <2>2, TailFacts
  <2>3. CASE requests' = <<>>
    <3>1. <<>> \in Seq({1})
      OBVIOUS
    <3>2. IsSequence(<<>>)
      BY <3>1, Sequences, Zenon
    <3> QED
      BY <2>1, <2>3, <3>2, TailFacts
  <2> QED
    BY <2>2, <2>3
<1>3. Types'
  BY <1>1, <1>2 DEF Types, Current
<1>4. RequestsInv'
  <2> SUFFICES ASSUME NEW i \in DOMAIN requests'
               PROVE  LET c == requests'[i].call IN
                      /\ c \in 1..Current
                      /\ requests'[i].id = calls[c].stub.id /\ requests'[i].tokens = Tokens(calls[c])
                      /\ runs[c] = 0 /\ state[c] \notin Answered
    BY DEF RequestsInv, Tokens, Current, Answered
  <2>1. requests'[i] = requests[i + k] /\ i + k \in DOMAIN requests
    BY <1>2
  <2> QED
    BY <1>1, <2>1 DEF RequestsInv
<1>5. ServerInv' /\ RepliesInv' /\ CallsInv'
  <2>1. ServerInv'
    BY <1>1 DEF ServerInv, Busy, Cut, Current, Handler, Checked
  <2>2. RepliesInv' /\ CallsInv'
    BY <1>1 DEF RepliesInv, CallsInv, Cut, Current, Checked
  <2>3. QED
    BY <2>1, <2>2
<1>6. OrderInv'
  <2>1. ASSUME NEW i \in DOMAIN requests', NEW j \in DOMAIN requests', i < j
        PROVE  requests'[i].call < requests'[j].call
    <3> DEFINE n == Len(requests)
    <3>0. n \in Nat /\ k \in {1, n} /\ DOMAIN requests' = 1..n - k
      BY <1>2
    <3> HIDE DEF n
    <3>1. k \in Int /\ i \in Int /\ j \in Int
      BY <3>0
    <3>2. i + k < j + k
      BY <2>1, <3>1
    <3>3. requests'[i] = requests[i + k] /\ requests'[j] = requests[j + k]
      BY <1>2
    <3> QED
      BY <1>1, <1>2, <3>2, <3>3 DEF OrderInv
  <2>2. \A i \in DOMAIN requests' : Busy => server.call < requests'[i].call
    BY <1>1, <1>2 DEF OrderInv
  <2>3. \A i \in DOMAIN replies, j \in DOMAIN requests' : replies[i].call < requests'[j].call
    BY <1>1, <1>2 DEF OrderInv
  <2> QED
    BY <1>1, <2>1, <2>2, <2>3 DEF OrderInv, Busy
<1>7. UpInv'
  <2> SUFFICES ASSUME conn = "up", conn' = "up" PROVE UpInv'
    BY <1>1 DEF UpInv, Types
  <2> QED
    BY <1>1, <1>2 DEF UpInv, Busy, Cut, Current, Open
<1> QED
  BY <1>3, <1>4, <1>5, <1>6, <1>7 DEF RInv

\* A handler has read the request of the call that it serves, to the end.
LEMMA ReadRequestStep == ASSUME RInv, ReadRequest PROVE RInv'
<1>1. /\ Types /\ RequestsInv /\ ServerInv /\ RepliesInv /\ OrderInv /\ UpInv /\ CallsInv
  BY DEF RInv
<1>2. /\ server = Idle /\ requests # <<>> /\ Handles(Taken.id) /\ HandlerRead.st = "ok"
      /\ server' = [at |-> "read", call |-> Taken.call, id |-> Taken.id,
                    got |-> HandlerRead.got, inner |-> Arriving(Taken.ptrs), instance |-> Taken.instance]
      /\ requests' = Tail(requests)
      /\ UNCHANGED <<app, calls, state, replies, conn, crashed, saved, runs, seen, answer, received>>
  BY DEF ReadRequest, CanTake, book, inbox
<1>3. /\ IsSequence(requests')
      /\ Len(requests) \in Nat /\ DOMAIN requests = 1..Len(requests)
      /\ 1 \in DOMAIN requests /\ Taken = requests[1]
      /\ DOMAIN requests' = 1..Len(requests) - 1
      /\ \A i \in 1..Len(requests) - 1 : requests'[i] = requests[i + 1] /\ i + 1 \in DOMAIN requests
  <2>1. IsSequence(requests)
    BY <1>1 DEF Types
  <2> QED
    BY <1>2, <2>1, TailFacts DEF Taken
<1> DEFINE c == Taken.call
<1>4. /\ c \in 1..Current /\ runs[c] = 0 /\ state[c] \notin Answered
      /\ Taken.id = calls[c].stub.id /\ Taken.tokens = Tokens(calls[c])
  BY <1>1, <1>3 DEF RequestsInv
<1>5. /\ ~Cut(c) /\ {[fn |-> Handler(Taken.id).fn, args |-> HandlerRead.got]} = Seen(calls[c])
      /\ Handler(Taken.id).instance = "checks" => Checked(calls[c])
  <2>1. app \in Apps /\ calls[c] \in app.requests
    BY <1>1, <1>4 DEF Types, Current
  <2>2. calls[c].stub.id \in DOMAIN app.handlers
    BY <1>2, <1>4 DEF Handles
  <2>3. HandlerRead = Read(app.handlers[calls[c].stub.id].reads, Tokens(calls[c]), NotInPlace, 0)
    BY <1>4 DEF HandlerRead, Handler
  <2> HIDE DEF c
  <2>4. /\ calls[c].unknown.side # "client"
        /\ {[fn |-> app.handlers[calls[c].stub.id].fn, args |-> HandlerRead.got]} = Seen(calls[c])
        /\ app.handlers[calls[c].stub.id].instance = "checks" => Checked(calls[c])
    BY <1>2, <2>1, <2>2, <2>3, HandlersAssumption
  <2> QED
    BY <1>4, <2>4 DEF Cut, Handler
<1>6. ~Busy /\ server'.at = "read" /\ server'.call = c /\ server'.id = Taken.id
      /\ server'.got = HandlerRead.got
  BY <1>2 DEF Busy, Idle
<1>7. Types'
  <2>1. server' \in [at : {"idle", "read", "ran", "refused"}, call : Nat, id : {server'.id},
                     got : {server'.got}, inner : {server'.inner}, instance : {server'.instance}]
    <3>1. c \in Nat
      BY <1>1, <1>4 DEF Types, Current
    <3> QED
      BY <1>2, <3>1
  <2> QED
    BY <1>1, <1>2, <1>3, <2>1 DEF Types, Current
<1> HIDE DEF c
<1>8. RequestsInv'
  <2> SUFFICES ASSUME NEW i \in DOMAIN requests'
               PROVE  LET d == requests'[i].call IN
                      /\ d \in 1..Current
                      /\ requests'[i].id = calls[d].stub.id /\ requests'[i].tokens = Tokens(calls[d])
                      /\ runs[d] = 0 /\ state[d] \notin Answered
    BY <1>2 DEF RequestsInv, Tokens, Current, Answered
  <2>1. requests'[i] = requests[i + 1] /\ i + 1 \in DOMAIN requests
    BY <1>3
  <2> QED
    BY <1>1, <2>1 DEF RequestsInv
<1>9. ServerInv'
  <2> SUFFICES /\ server'.call \in 1..Current /\ calls[server'.call].unknown.side # "client"
               /\ runs[server'.call] = 0 /\ state[server'.call] \notin Answered
               /\ {[fn |-> app.handlers[server'.id].fn, args |-> server'.got]} = Seen(calls[server'.call])
               /\ app.handlers[server'.id].instance = "checks" => Checked(calls[server'.call])
    BY <1>2, <1>6 DEF ServerInv, Cut, Current, Handler, Answered, Checked
  <2> QED
    BY <1>4, <1>5, <1>6 DEF Cut, Handler
<1>10. RepliesInv' /\ CallsInv'
  BY <1>1, <1>2 DEF RepliesInv, CallsInv, Cut, Current, Checked
<1>11. OrderInv'
  <2>1. \A i \in DOMAIN requests' : c < requests'[i].call
    BY <1>1, <1>3 DEF OrderInv, c
  <2>2. \A i \in DOMAIN replies : replies[i].call < c
    BY <1>1, <1>3 DEF OrderInv, c
  <2>3. ASSUME NEW i \in DOMAIN requests', NEW j \in DOMAIN requests', i < j
        PROVE  requests'[i].call < requests'[j].call
    <3>1. requests'[i] = requests[i + 1] /\ requests'[j] = requests[j + 1] /\ i + 1 < j + 1
      BY <1>3, <2>3
    <3> QED
      BY <1>1, <1>3, <3>1 DEF OrderInv
  <2>4. \A i \in DOMAIN replies, j \in DOMAIN requests' : replies[i].call < requests'[j].call
    BY <1>1, <1>3 DEF OrderInv
  <2> QED
    BY <1>1, <1>2, <1>6, <2>1, <2>2, <2>3, <2>4 DEF OrderInv
<1>12. UpInv'
  <2> SUFFICES ASSUME conn = "up" PROVE UpInv'
    BY <1>2 DEF UpInv
  <2>1. c = Current /\ Open
    BY <1>1, <1>3, <1>5 DEF UpInv, c
  <2>2. \A i \in DOMAIN requests' :
          calls[requests'[i].call].unknown.side # "client" => requests'[i].call = Current
    BY <1>1, <1>3 DEF UpInv, Cut
  <2> QED
    BY <1>1, <1>2, <1>6, <2>1, <2>2 DEF UpInv, Cut, Current, Open
<1> QED
  BY <1>7, <1>8, <1>9, <1>10, <1>11, <1>12 DEF RInv

\* The runtime is called, for the first time for this call.
LEMMA RunFunctionStep == ASSUME RInv, RunFunction PROVE RInv'
<1>1. /\ Types /\ RequestsInv /\ ServerInv /\ RepliesInv /\ OrderInv /\ UpInv /\ CallsInv
  BY DEF RInv
<1> DEFINE c == server.call
<1>2. /\ server.at = "read" /\ server' = [server EXCEPT !.at = "ran"]
      /\ runs' = [runs EXCEPT ![c] = @ + 1]
      /\ UNCHANGED <<app, calls, state, requests, replies, conn, crashed, answer, received>>
  BY DEF RunFunction, inbox
<1>2a. saved' \in Saved
  BY <1>1 DEF RunFunction, SavedBy, Saved, Types
<1>3. Busy /\ c \in 1..Current /\ runs[c] = 0 /\ ~Cut(c) /\ state[c] \notin Answered
  BY <1>1, <1>2 DEF ServerInv, Busy
<1>4. /\ server'.at = "ran" /\ server'.call = c /\ Busy'
      /\ server' \in [at : {"idle", "read", "ran", "refused"}, call : Nat, id : {server'.id},
                      got : {server'.got}, inner : {server'.inner}, instance : {server'.instance}]
  BY <1>1, <1>2 DEF Types, Busy
<1>5. /\ runs' \in Seq(Nat) /\ Len(runs') = Current /\ runs'[c] = 1
      /\ \A d \in 1..Current : d # c => runs'[d] = runs[d]
  BY <1>1, <1>2, <1>3 DEF Types
<1>6. /\ IsSequence(seen') /\ Len(seen') = Current
      /\ \A d \in 1..Current : d # c => seen'[d] = seen[d]
  <2>1. IsSequence(seen) /\ Len(seen) = Current
    BY <1>1 DEF Types
  <2>2. DOMAIN seen = 1..Current
    BY <2>1, AppendFacts
  <2>3. c \in DOMAIN seen
    BY <1>3, <2>2
  <2>4. PICK e : seen' = [seen EXCEPT ![c] = e]
    BY DEF RunFunction
  <2> HIDE DEF c
  <2> QED
    BY <2>1, <2>2, <2>3, <2>4, ExceptFacts
<1> HIDE DEF c
<1>7. Types'
  BY <1>1, <1>2, <1>2a, <1>4, <1>5, <1>6 DEF Types, Current
<1>8. RequestsInv'
  <2>1. \A i \in DOMAIN requests : requests[i].call # c
    BY <1>1, <1>3 DEF OrderInv, RequestsInv, c
  <2> QED
    BY <1>1, <1>2, <1>5, <2>1 DEF RequestsInv, Current, Tokens
<1>9. ServerInv'
  BY <1>2, <1>3, <1>4, <1>5 DEF ServerInv, Cut, Current, Checked, Answered
<1>10. RepliesInv'
  <2>1. \A i \in DOMAIN replies : replies[i].call # c
    BY <1>1, <1>3 DEF OrderInv, RepliesInv, c
  <2> QED
    BY <1>1, <1>2, <1>5, <2>1 DEF RepliesInv, Current, Checked
<1>11. OrderInv' /\ UpInv'
  BY <1>1, <1>2, <1>3, <1>4 DEF OrderInv, UpInv, Cut, Current, Open, c
<1>12. CallsInv'
  <2> SUFFICES ASSUME NEW d \in 1..Current
               PROVE  /\ state[d] = "open" => d = Current
                      /\ runs'[d] = 0 => seen'[d] = {}
                      /\ calls[d].unknown.side = "client" => runs'[d] = 0
                      /\ state[d] = "result" => answer[d] = d /\ runs'[d] = 1
                      /\ state[d] = "refused" => answer[d] = d /\ runs'[d] = 0 /\ Checked(calls[d])
    BY <1>2 DEF CallsInv, Cut, Current, Checked
  <2>1. CASE d = c
    BY <1>1, <1>3, <1>5, <2>1 DEF CallsInv, Cut, Answered
  <2>2. CASE d # c
    BY <1>1, <1>5, <1>6, <2>2 DEF CallsInv, Cut
  <2> QED
    BY <2>1, <2>2
<1> QED
  BY <1>7, <1>8, <1>9, <1>10, <1>11, <1>12 DEF RInv

\* The instance is not the one that the server has saved: the runtime is not called.
LEMMA RefuseInstanceStep == ASSUME RInv, RefuseInstance PROVE RInv'
<1>1. /\ Types /\ RequestsInv /\ ServerInv /\ RepliesInv /\ OrderInv /\ UpInv /\ CallsInv
  BY DEF RInv
<1>2. /\ server.at = "read" /\ server' = [server EXCEPT !.at = "refused"]
      /\ Handler(server.id).instance = "checks"
      /\ UNCHANGED <<app, calls, state, requests, replies, conn, crashed, saved, runs, seen, answer, received>>
  BY DEF RefuseInstance, Foreign, book, inbox
<1>3. /\ server'.at = "refused" /\ server'.call = server.call /\ Busy /\ Busy'
      /\ server' \in [at : {"idle", "read", "ran", "refused"}, call : Nat, id : {server'.id},
                      got : {server'.got}, inner : {server'.inner}, instance : {server'.instance}]
  BY <1>1, <1>2 DEF Types, Busy
<1>4. Types'
  BY <1>1, <1>2, <1>3 DEF Types, Current
<1>5. RequestsInv' /\ RepliesInv' /\ CallsInv'
  <2>1. RequestsInv'
    BY <1>1, <1>2 DEF RequestsInv, Current, Tokens, Answered
  <2>2. RepliesInv' /\ CallsInv'
    BY <1>1, <1>2 DEF RepliesInv, CallsInv, Cut, Current, Checked
  <2>3. QED
    BY <2>1, <2>2
<1>6. ServerInv'
  BY <1>1, <1>2, <1>3 DEF ServerInv, Cut, Current, Checked, Answered
<1>7. OrderInv' /\ UpInv'
  BY <1>1, <1>2, <1>3 DEF OrderInv, UpInv, Cut, Current, Open
<1> QED
  BY <1>4, <1>5, <1>6, <1>7 DEF RInv

\* The handler ends, with an answer or without.
LEMMA HandlerEnds ==
  ASSUME RInv, Finished, server' = Idle,
         replies' = replies \/ \E tokens :
           replies' = Append(replies, [call |-> server.call, ran |-> server.at = "ran", tokens |-> tokens]),
         UNCHANGED <<app, calls, state, requests, conn, crashed, saved, runs, seen, answer, received>>
  PROVE  RInv'
<1>1. /\ Types /\ RequestsInv /\ ServerInv /\ RepliesInv /\ OrderInv /\ UpInv /\ CallsInv
  BY DEF RInv
<1>2. /\ Busy /\ server.call \in 1..Current
      /\ server.at = "ran" => runs[server.call] = 1
      /\ server.at # "ran" => runs[server.call] = 0 /\ Checked(calls[server.call])
  BY <1>1 DEF ServerInv, Busy, Finished
<1>3. ~Busy' /\ server' \in [at : {"idle", "read", "ran", "refused"}, call : Nat, id : {server'.id},
                             got : {server'.got}, inner : {server'.inner}, instance : {server'.instance}]
  BY DEF Busy, Idle
<1>4. /\ IsSequence(replies') /\ Len(replies) \in Nat /\ DOMAIN replies = 1..Len(replies)
      /\ DOMAIN replies' \subseteq 1..Len(replies) + 1
      /\ \A i \in DOMAIN replies' :
           IF i = Len(replies) + 1
           THEN replies'[i].call = server.call /\ replies'[i].ran = (server.at = "ran")
           ELSE i \in DOMAIN replies /\ replies'[i] = replies[i]
  <2>1. IsSequence(replies)
    BY <1>1 DEF Types
  <2>2. Len(replies) \in Nat /\ DOMAIN replies = 1..Len(replies)
    BY <2>1, AppendFacts
  <2>3. CASE replies' = replies
    BY <2>1, <2>2, <2>3
  <2>4. ASSUME NEW tokens,
               replies' = Append(replies, [call |-> server.call, ran |-> server.at = "ran", tokens |-> tokens])
        PROVE  <1>4!:
    <3> DEFINE e == [call |-> server.call, ran |-> server.at = "ran", tokens |-> tokens]
    <3>1. e.call = server.call /\ e.ran = (server.at = "ran")
      OBVIOUS
    <3> HIDE DEF e
    <3>2. replies' = Append(replies, e)
      BY <2>4 DEF e
    <3> QED
      BY <2>1, <3>1, <3>2, AppendFacts
  <2> QED
    BY <2>3, <2>4
<1>5. Types'
  BY <1>1, <1>3, <1>4 DEF Types, Current
<1>6. RequestsInv' /\ ServerInv' /\ CallsInv'
  <2>1. RequestsInv'
    BY <1>1 DEF RequestsInv, Current, Tokens, Answered
  <2>2. ServerInv' /\ CallsInv'
    BY <1>1, <1>3 DEF ServerInv, CallsInv, Cut, Current, Checked
  <2>3. QED
    BY <2>1, <2>2
<1>7. RepliesInv'
  <2> SUFFICES ASSUME NEW i \in DOMAIN replies'
               PROVE  LET c == replies'[i].call IN
                      /\ c \in 1..Current
                      /\ \/ replies'[i].ran = TRUE /\ runs[c] = 1
                         \/ replies'[i].ran = FALSE /\ runs[c] = 0 /\ Checked(calls[c])
    BY DEF RepliesInv, Current, Checked
  <2>1. CASE i = Len(replies) + 1
    BY <1>2, <1>4, <2>1
  <2>2. CASE i # Len(replies) + 1
    BY <1>1, <1>4, <2>2 DEF RepliesInv
  <2> QED
    BY <2>1, <2>2
<1>8. OrderInv'
  <2>1. \A i, j \in DOMAIN replies' : i < j => replies'[i].call < replies'[j].call
    BY <1>1, <1>2, <1>4 DEF OrderInv
  <2>2. \A i \in DOMAIN replies', j \in DOMAIN requests : replies'[i].call < requests[j].call
    BY <1>1, <1>2, <1>4 DEF OrderInv
  <2> QED
    BY <1>1, <1>3, <2>1, <2>2 DEF OrderInv
<1>9. UpInv'
  <2> SUFFICES ASSUME conn = "up" PROVE UpInv'
    BY DEF UpInv
  <2>1. \A i \in DOMAIN replies' : replies'[i].call = Current
    BY <1>1, <1>2, <1>4 DEF UpInv
  <2>2. Open
    BY <1>1, <1>2 DEF UpInv
  <2> QED
    BY <1>1, <1>3, <2>1, <2>2 DEF UpInv, Cut, Current, Open
<1> QED
  BY <1>5, <1>6, <1>7, <1>8, <1>9 DEF RInv

\* The invariant is inductive.
LEMMA NextRInv == RInv /\ [Next]_vars => RInv'
<1> SUFFICES ASSUME RInv, [Next]_vars PROVE RInv'
  OBVIOUS
<1>1. ASSUME NEW r \in app.requests, SendCall(r) PROVE RInv'
  <2>1. Message(r, Write(r.stub.request, r.ptrs, 1)) = Message(r, Tokens(r))
    BY <1>1 DEF SendCall, Tokens
  <2>2. /\ ~Open /\ conn = "up" /\ Record(r, "open") /\ r.unknown.side # "client"
        /\ requests' = Append(requests, Message(r, Tokens(r)))
        /\ UNCHANGED <<app, server, replies, conn, crashed, saved, unfreed>>
    BY <1>1, <2>1 DEF SendCall, MayCall
  <2>3. ("open" = "open") = (r.unknown.side # "client")
    BY <2>2
  <2> QED
    BY <2>2, <2>3, SendStep
<1>2. ASSUME NEW r \in app.requests, SendTruncated(r) PROVE RInv'
  <2>1. Message(r, WriteUntil(r.unknown.at, r.stub.request, r.ptrs, 1)) = Message(r, Tokens(r))
    BY <1>2 DEF SendTruncated, Tokens
  <2>2. /\ ~Open /\ conn = "up" /\ Record(r, "failed") /\ r.unknown.side = "client"
        /\ requests' = Append(requests, Message(r, Tokens(r)))
        /\ UNCHANGED <<app, server, replies, conn, crashed, saved, unfreed>>
    BY <1>2, <2>1 DEF SendTruncated, MayCall
  <2>3. ("failed" = "open") = (r.unknown.side # "client")
    BY <2>2
  <2> QED
    BY <2>2, <2>3, SendStep
<1>3. ASSUME NEW r \in app.requests, CallClosed(r) PROVE RInv'
  BY <1>3, ClosedStep DEF CallClosed, MayCall
<1>4. CASE ReadReply
  BY <1>4, ReadReplyStep
<1>5. CASE AwaitAborted
  BY <1>5, AwaitAbortedStep
<1>6. CASE RejectFunction \/ RejectMessage \/ LoseRequests
  <2>1. /\ requests # <<>> /\ (requests' = Tail(requests) \/ requests' = <<>>)
        /\ UNCHANGED <<app, calls, state, server, replies, conn, crashed, saved, runs, seen, answer, received>>
    BY <1>6 DEF RejectFunction, RejectMessage, LoseRequests, CanTake, book, inbox
  <2>2. crashed' \in BOOLEAN
    BY <2>1 DEF RInv, Types
  <2> QED
    BY <2>1, <2>2, DropStep
<1>7. CASE CrashOnUnknownStructure
  <2>1. /\ requests # <<>> /\ requests' = Tail(requests) /\ conn' = "closed" /\ crashed' = TRUE
        /\ UNCHANGED <<app, calls, state, server, replies, saved, runs, seen, answer, received>>
    BY <1>7 DEF CrashOnUnknownStructure, CanTake, book, inbox
  <2> QED
    BY <2>1, DropStep
<1>8. CASE ReadRequest
  BY <1>8, ReadRequestStep
<1>9. CASE RunFunction
  BY <1>9, RunFunctionStep
<1>9a. CASE RefuseInstance
  BY <1>9a, RefuseInstanceStep
<1>10. CASE Answer \/ AnswerClosed
  <2>1. /\ Finished /\ server' = Idle
        /\ UNCHANGED <<app, calls, state, requests, conn, crashed, saved, runs, seen, answer, received>>
    BY <1>10 DEF Answer, AnswerClosed, book, inbox
  <2>2. replies' = replies \/ \E tokens :
          replies' = Append(replies, [call |-> server.call, ran |-> server.at = "ran", tokens |-> tokens])
    BY <1>10 DEF Answer, AnswerClosed
  <2> QED
    BY <2>1, <2>2, HandlerEnds
<1>11. CASE Close \/ FlushFails \/ UNCHANGED vars
  <2>1. /\ conn' = "closed" \/ conn' = conn
        /\ crashed' = TRUE \/ crashed' = crashed
        /\ UNCHANGED <<app, calls, state, requests, server, replies, saved, runs, seen, answer, received>>
    BY <1>11 DEF Close, FlushFails, vars, book, inbox
  <2>2. /\ Types /\ RequestsInv /\ ServerInv /\ RepliesInv /\ OrderInv /\ UpInv /\ CallsInv
    BY DEF RInv
  <2>3. Types' /\ RepliesInv' /\ OrderInv' /\ CallsInv'
    BY <2>1, <2>2 DEF Types, RepliesInv, OrderInv, CallsInv, Busy, Cut, Current, Checked
  <2>4. RequestsInv'
    BY <2>1, <2>2 DEF RequestsInv, Current
  <2>5. ServerInv'
    BY <2>1, <2>2 DEF ServerInv, Busy, Cut, Current, Handler, Checked
  <2>6. UpInv'
    BY <2>1, <2>2 DEF UpInv, Busy, Cut, Current, Open
  <2> QED
    BY <2>3, <2>4, <2>5, <2>6 DEF RInv
<1> QED
  BY <1>1, <1>2, <1>3, <1>4, <1>5, <1>6, <1>7, <1>8, <1>9, <1>9a, <1>10, <1>11
  DEF Next, ClientNext, ServerNext

\* It holds always.
LEMMA InductiveRInv == Spec => []RInv
  BY InitRInv, NextRInv, PTL DEF Spec

-----------------------------------------------------------------------------
(* Theorems.                                                               *)

\* Types, and the records of the calls grow together: see TypeOK.
THEOREM TypeCorrect == Spec => []TypeOK
<1>1. RInv => TypeOK
  <2> SUFFICES ASSUME RInv PROVE TypeOK
    OBVIOUS
  <2>1. Types /\ RequestsInv /\ ServerInv /\ RepliesInv
    BY DEF RInv
  <2>2. server.at \in {"idle", "read", "ran", "refused"}
    BY <2>1 DEF Types
  <2>3. server.at # "idle" => server.call \in 1..Current
    BY <2>1 DEF ServerInv, Busy
  <2> QED
    BY <2>1, <2>2, <2>3 DEF TypeOK, Types, RequestsInv, RepliesInv
<1> QED
  BY <1>1, InductiveRInv, PTL

\* FUNCTION_RETURN carries no id, and yet a call that is answered read its own answer: the
\* runtime's after one execution, or the server's refusal of an instance after none.
THEOREM OwnAnswers == Spec => []AnswersAreOwn
<1>1. RInv => AnswersAreOwn
  BY DEF RInv, Types, CallsInv, AnswersAreOwn, Current
<1> QED
  BY <1>1, InductiveRInv, PTL

\* The rest of a message that the destructor of MessageLockOut sends after an exception in
\* the stub is never executed.
THEOREM TruncatedIsSafe == Spec => []TruncatedNeverRuns
<1>1. RInv => TruncatedNeverRuns
  BY DEF RInv, Types, CallsInv, Cut, TruncatedNeverRuns, Current
<1> QED
  BY <1>1, InductiveRInv, PTL

-----------------------------------------------------------------------------
(* Rpc implements RemoteCall.                                              *)

\* A step that records a call is a step of the abstract specification.
LEMMA RecordInvokes ==
  ASSUME RInv, NEW r \in app.requests, NEW s \in {"open", "failed"}, ~Open, Record(r, s)
  PROVE  Abstract!Invoke(s)
<1>1. Types /\ CallsInv
  BY DEF RInv
<1>2. /\ Current \in Nat /\ Len(calls') = Current + 1 /\ calls'[Current + 1] = r
  BY <1>1, RecordFacts DEF Current
<1>3. \A c \in DOMAIN state : state[c] # "open"
  <2>1. DOMAIN state = 1..Current
    BY <1>1 DEF Types
  <2> QED
    BY <1>1, <1>2, <2>1 DEF CallsInv, Open
<1>4. r \in AllRequests
  BY <1>1, AppsAssumption DEF Types
<1> QED
  BY <1>2, <1>3, <1>4 DEF Abstract!Invoke, Abstract!NotSeen, Record, NotSeen, Current

\* Every step is one of the abstract specification, or stutters there.
LEMMA StepSimulation == RInv /\ [Next]_vars => [Abstract!Next]_<<calls, state, runs, seen>>
<1> SUFFICES ASSUME RInv, [Next]_vars
             PROVE  Abstract!Next \/ UNCHANGED <<calls, state, runs, seen>>
  OBVIOUS
<1>0. Types /\ ServerInv /\ CallsInv /\ RepliesInv /\ UpInv
  BY DEF RInv
<1>1. ASSUME NEW r \in app.requests, SendCall(r) \/ SendTruncated(r) \/ CallClosed(r)
      PROVE  Abstract!Next
  <2>1. ~Open /\ (Record(r, "open") \/ Record(r, "failed"))
    BY <1>1 DEF SendCall, SendTruncated, CallClosed, MayCall
  <2>2. Abstract!Invoke("open") \/ Abstract!Invoke("failed")
    BY <2>1, RecordInvokes
  <2> QED
    BY <2>2 DEF Abstract!Next
<1>2. CASE ReadReply
  <2>1. PICK st \in {"result", "refused", "failed"} :
          /\ state' = [state EXCEPT ![Current] = st]
          /\ st = "result" => Head(replies).ran
          /\ st = "refused" => ~Head(replies).ran
    BY <1>2 DEF ReadReply
  <2>2. /\ UNCHANGED <<calls, runs, seen>> /\ state[Current] = "open" /\ Current \in DOMAIN calls
    BY <1>0, <1>2 DEF ReadReply, book, Open, Types, Current
  <2>3. /\ st = "result" => runs[Current] = 1
        /\ st = "refused" => runs[Current] = 0 /\ Checked(calls[Current])
    <3>1. IsSequence(replies) /\ replies # <<>> /\ conn = "up"
      BY <1>0, <1>2 DEF Types, ReadReply
    <3>2. 1 \in DOMAIN replies /\ Head(replies) = replies[1]
      BY <3>1, TailFacts
    <3>3. replies[1].call = Current
      BY <1>0, <3>1, <3>2 DEF UpInv
    <3>4. \/ replies[1].ran = TRUE /\ runs[Current] = 1
          \/ replies[1].ran = FALSE /\ runs[Current] = 0 /\ Checked(calls[Current])
      BY <1>0, <3>2, <3>3 DEF RepliesInv
    <3> QED
      BY <2>1, <3>2, <3>4
  <2>4. Abstract!Return(Current) \/ Abstract!Refuse(Current) \/ Abstract!Fail(Current)
    BY <2>1, <2>2, <2>3 DEF Abstract!Return, Abstract!Refuse, Abstract!Fail
  <2> QED
    BY <2>2, <2>4 DEF Abstract!Next
<1>3. CASE AwaitAborted
  <2>1. /\ state' = [state EXCEPT ![Current] = "failed"] /\ state[Current] = "open"
        /\ UNCHANGED <<calls, runs, seen>> /\ Current \in DOMAIN calls
    BY <1>0, <1>3 DEF AwaitAborted, book, Open, Types, Current
  <2>2. Abstract!Fail(Current)
    BY <2>1 DEF Abstract!Fail
  <2> QED
    BY <2>1, <2>2 DEF Abstract!Next
<1>4. CASE RunFunction
  <2> DEFINE c == server.call
             v == [fn |-> Handler(server.id).fn, args |-> server.got]
  <2>1. /\ runs' = [runs EXCEPT ![c] = runs[c] + 1] /\ seen' = [seen EXCEPT ![c] = seen[c] \cup {v}]
        /\ UNCHANGED <<calls, state>>
    BY <1>4 DEF RunFunction
  <2>2. c \in 1..Current /\ runs[c] = 0 /\ {v} = Seen(calls[c])
    BY <1>0, <1>4 DEF RunFunction, ServerInv, Busy
  <2>3. seen[c] = {} /\ state[c] \notin {"result", "refused"} /\ c \in DOMAIN calls
    BY <1>0, <1>4, <2>2 DEF RunFunction, ServerInv, Busy, Answered, CallsInv, Types, Current
  <2> HIDE DEF c, v
  <2>4. seen[c] \cup {v} = Seen(calls[c]) /\ runs[c] + 1 = 1
    BY <2>2, <2>3
  <2>5. Abstract!Run(c)
    BY <2>1, <2>2, <2>3, <2>4 DEF Abstract!Run
  <2> QED
    BY <2>3, <2>5 DEF Abstract!Next
<1>5. CASE \/ RejectFunction \/ RejectMessage \/ CrashOnUnknownStructure \/ ReadRequest
           \/ RefuseInstance \/ Answer \/ AnswerClosed \/ FlushFails \/ Close \/ LoseRequests
  BY <1>5 DEF RejectFunction, RejectMessage, CrashOnUnknownStructure, ReadRequest,
              RefuseInstance, Answer, AnswerClosed, FlushFails, Close, LoseRequests, book
<1>6. CASE UNCHANGED vars
  BY <1>6 DEF vars, book
<1> QED
  BY <1>1, <1>2, <1>3, <1>4, <1>5, <1>6 DEF Next, ClientNext, ServerNext

\* The stubs, the queues and the handlers together are a remote call: the runtime is called
\* at most once for each call, with the caller's arguments; no result of the runtime comes
\* without it, and none at all of a call that the server refused.
THEOREM Refinement == Spec => IsRemoteCall
<1>1. Init => Abstract!Init
  BY DEF Init, Abstract!Init
<1>2. RInv /\ [Next]_vars => [Abstract!Next]_(Abstract!vars)
  BY StepSimulation DEF Abstract!vars
<1> QED
  BY <1>1, <1>2, InductiveRInv, PTL DEF Spec, IsRemoteCall, Abstract!Spec

-----------------------------------------------------------------------------
(* What the tables have to do with the outcome of a call.                  *)

\* What a handler h reads of request r, what it answers, and what the stub reads of that.
Arguments(h, r) == Read(h.reads, Tokens(r), NotInPlace, 0)
Reply(h, r) ==
  Write(h.writes, Pointers([got |-> Arguments(h, r).got, inner |-> Arriving(r.ptrs)]), 0)
Returned(h, r) == Read(r.stub.reply, Reply(h, r), r.ptrs, 1)

\* The caller's memory holds what the runtime wrote, and nothing else was written.
Outputs(r, got) ==
  /\ \A n \in r.stub.outs : r.ptrs[n] = "set" => [name |-> n, of |-> n, shift |-> 0] \in got
  /\ \A g \in got : g.of = IF r.ptrs[g.name] = "set" THEN g.name ELSE "nullptr"

\* If the handler can read the request, the stub can read the answer, unless the caller
\* passed an array without room; it then gets its outputs, and the handler frees all that
\* it allocated.
RowFits(h, r) ==
  Arguments(h, r).st = "ok" =>
    /\ Returned(h, r).st # "ok" => HasEmptyOutput(r)
    /\ Returned(h, r).st = "ok" =>
         /\ Outputs(r, Returned(h, r).got)
         /\ Allocated(h.reads, Arguments(h, r).got) \subseteq {h.frees[i] : i \in DOMAIN h.frees}

\* Every row of the stubs fits the row of its handler.
RowsFit ==
  \A a \in Apps : \A r \in a.requests :
    r.stub.id \in DOMAIN a.handlers => RowFits(a.handlers[r.stub.id], r)

\* A handler's record s, and the fields of an answer, come from request r.
Serves(handlers, r, s) ==
  /\ s.id = r.stub.id /\ s.id \in DOMAIN handlers
  /\ Arguments(handlers[s.id], r).st = "ok" /\ s.got = Arguments(handlers[s.id], r).got
  /\ s.inner = Arriving(r.ptrs)
AnsweredBy(handlers, r, tokens) ==
  /\ r.stub.id \in DOMAIN handlers
  /\ Arguments(handlers[r.stub.id], r).st = "ok"
  /\ tokens = Reply(handlers[r.stub.id], r)

\* Call c has no result, and no memory was lost for it.
Unsettled(st, lost, c) == st[c] \notin Answered /\ \A u \in lost : u[1] # c

\* The stub will be able to read the answer to r.
Returns(handlers, r) == Returned(handlers[r.stub.id], r).st = "ok"

\* What is under way was made by the rows of its call.
PlacesInv ==
  /\ \A i \in DOMAIN requests : requests[i].ptrs = calls[requests[i].call].ptrs
  /\ Busy => Serves(app.handlers, calls[server.call], server)
  /\ \A i \in DOMAIN replies :
       AnsweredBy(app.handlers, calls[replies[i].call], replies[i].tokens)

\* A call that is under way has no result, and has lost no memory if it may get one.
UnsettledInv ==
  /\ \A i \in DOMAIN requests : Unsettled(state, unfreed, requests[i].call)
  /\ Busy => Unsettled(state, unfreed, server.call)
  /\ \A i \in DOMAIN replies :
       /\ state[replies[i].call] \notin Answered
       /\ Returns(app.handlers, calls[replies[i].call]) => Unsettled(state, unfreed, replies[i].call)
  /\ \A u \in unfreed : u[1] \in 1..Current /\ state[u[1]] \notin Answered

\* How a call that has ended may have ended.
OutcomeInv ==
  \A c \in 1..Current :
    /\ state[c] \in Answered => Outputs(calls[c], received[c])
    /\ state[c] = "failed" /\ conn = "up" =>
         calls[c].unknown.side = "client" \/ HasEmptyOutput(calls[c])

EndInv == PlacesInv /\ UnsettledInv /\ OutcomeInv

\* A new call, with or without a message.
LEMMA NewCallEnds ==
  ASSUME RInv, EndInv, NEW r \in app.requests, NEW s \in {"open", "failed"}, Record(r, s),
         s = "failed" => conn = "closed" \/ r.unknown.side = "client",
         requests' = requests \/ requests' = Append(requests, Message(r, Tokens(r))),
         UNCHANGED <<app, server, replies, conn, unfreed>>
  PROVE  EndInv'
<1>1. /\ Types /\ RequestsInv /\ ServerInv /\ RepliesInv
      /\ PlacesInv /\ UnsettledInv /\ OutcomeInv
  BY DEF RInv, EndInv
<1>2. /\ Current \in Nat /\ Current' = Current + 1
      /\ \A c \in 1..Current : calls'[c] = calls[c] /\ state'[c] = state[c]
      /\ calls'[Current + 1] = r /\ state'[Current + 1] = s
  BY <1>1, RecordFacts
<1>3. \A c \in 1..Current : received'[c] = received[c]
  <2>1. received' = Append(received, {}) /\ IsSequence(received) /\ Len(received) = Current
    BY <1>1 DEF Record, Types
  <2>2. QED
    BY <2>1, AppendFacts
<1>4. PICK m : m = Message(r, Tokens(r))
  OBVIOUS
<1>5. m.call = Current + 1 /\ m.ptrs = r.ptrs
  BY <1>4 DEF Message
<1>6. \A i \in DOMAIN requests' :
        \/ i \in DOMAIN requests /\ requests'[i] = requests[i]
        \/ requests'[i] = m
  <2>1. CASE requests' = requests
    BY <2>1
  <2>2. CASE requests' = Append(requests, m)
    <3>1. IsSequence(requests)
      BY <1>1 DEF Types
    <3>2. QED
      BY <2>2, <3>1, AppendFacts
  <2>3. QED
    BY <1>4, <2>1, <2>2
<1>7. /\ \A i \in DOMAIN requests : requests[i].call \in 1..Current
      /\ Busy => server.call \in 1..Current
      /\ \A i \in DOMAIN replies : replies[i].call \in 1..Current
  BY <1>1 DEF RequestsInv, ServerInv, RepliesInv
<1>8. \A u \in unfreed : u[1] \in 1..Current /\ u[1] # Current + 1
  BY <1>1, <1>2 DEF UnsettledInv
<1>9. PlacesInv'
  BY <1>1, <1>2, <1>5, <1>6, <1>7 DEF PlacesInv, Busy
<1>10. UnsettledInv'
  BY <1>1, <1>2, <1>5, <1>6, <1>7, <1>8 DEF UnsettledInv, Unsettled, Busy, Answered
<1>11. OutcomeInv'
  <2> SUFFICES ASSUME NEW c \in 1..Current'
               PROVE  /\ state'[c] \in Answered => Outputs(calls'[c], received'[c])
                      /\ state'[c] = "failed" /\ conn = "up" =>
                           calls'[c].unknown.side = "client" \/ HasEmptyOutput(calls'[c])
    BY DEF OutcomeInv, Outputs, HasEmptyOutput, Answered
  <2>1. CASE c = Current + 1
    BY <1>2, <2>1 DEF Answered
  <2>2. CASE c \in 1..Current
    BY <1>1, <1>2, <1>3, <2>2 DEF OutcomeInv
  <2>3. QED
    BY <1>2, <2>1, <2>2
<1>12. QED
  BY <1>9, <1>10, <1>11 DEF EndInv

\* The stub reads its answer: what it gets is what its row says.
LEMMA ReadReplyEnds ==
  ASSUME RowsFit, RInv, RInv', EndInv, ReadReply
  PROVE  EndInv'
<1>1. /\ Types /\ RequestsInv /\ ServerInv /\ RepliesInv /\ OrderInv /\ UpInv /\ CallsInv
      /\ RequestsInv' /\ ServerInv' /\ RepliesInv' /\ CallsInv' /\ PlacesInv /\ UnsettledInv /\ OutcomeInv
  BY DEF RInv, EndInv
<1>2. /\ Open /\ conn = "up" /\ replies # <<>> /\ replies' = Tail(replies)
      /\ UNCHANGED <<app, calls, requests, server, conn, runs, unfreed>>
  BY DEF ReadReply, book
<1>2a. PICK ok \in Answered : ok = IF Head(replies).ran THEN "result" ELSE "refused"
  BY DEF Answered
<1>3. PICK m, r, read :
        /\ m = Head(replies) /\ r = calls[Current] /\ read = Read(r.stub.reply, m.tokens, r.ptrs, 1)
        /\ state' = [state EXCEPT ![Current] = IF read.st = "ok" THEN ok ELSE "failed"]
        /\ received' = [received EXCEPT ![Current] = read.got]
  BY <1>2a DEF ReadReply
<1>4. /\ Len(replies) \in Nat /\ DOMAIN replies = 1..Len(replies)
      /\ 1 \in DOMAIN replies /\ m = replies[1] /\ DOMAIN replies' = 1..Len(replies) - 1
  <2>1. IsSequence(replies)
    BY <1>1 DEF Types
  <2>2. QED
    BY <1>2, <1>3, <2>1, TailFacts
<1>5. m.call = Current /\ Current \in 1..Current
  <2>1. m.call = Current
    BY <1>1, <1>2, <1>4 DEF UpInv
  <2>2. Current \in Nat /\ Current > 0
    BY <1>1, <1>2 DEF Open, Types, Current
  <2>3. QED
    BY <2>1, <2>2
<1>6. DOMAIN replies' = {} /\ ~Busy /\ DOMAIN requests = {}
  <2>1. \A i \in DOMAIN replies : i = 1
    BY <1>1, <1>2, <1>4, <1>5 DEF UpInv, OrderInv
  <2>2. ~Busy
    BY <1>1, <1>4, <1>5 DEF OrderInv, ServerInv
  <2>3. ASSUME NEW j \in DOMAIN requests PROVE FALSE
    <3>1. m.call < requests[j].call
      BY <1>1, <1>4 DEF OrderInv
    <3>2. requests[j].call \in 1..Current
      BY <1>1 DEF RequestsInv
    <3>3. QED
      BY <1>5, <3>1, <3>2
  <2>4. DOMAIN requests = {}
    BY <2>3
  <2>5. DOMAIN replies' = {}
    <3>1. Len(replies) = 1
      BY <1>4, <2>1
    <3>2. QED
      BY <1>4, <3>1
  <2>6. QED
    BY <2>2, <2>4, <2>5
<1>7. /\ AnsweredBy(app.handlers, r, m.tokens)
      /\ Returns(app.handlers, r) => Unsettled(state, unfreed, Current)
  BY <1>1, <1>3, <1>4, <1>5 DEF PlacesInv, UnsettledInv
<1>8. PICK h : h = app.handlers[r.stub.id]
  OBVIOUS
<1>9. /\ RowFits(h, r) /\ Arguments(h, r).st = "ok" /\ read = Returned(h, r)
  <2>1. app \in Apps /\ r \in app.requests
    BY <1>1, <1>3, <1>5 DEF Types, Current
  <2>2. r.stub.id \in DOMAIN app.handlers /\ m.tokens = Reply(h, r) /\ Arguments(h, r).st = "ok"
    BY <1>7, <1>8 DEF AnsweredBy
  <2>3. QED
    BY <1>3, <1>8, <2>1, <2>2 DEF RowsFit, Returned
<1>10. /\ read.st = "ok" => Outputs(r, read.got)
       /\ read.st # "ok" => HasEmptyOutput(r)
  BY <1>9 DEF RowFits
<1>11. /\ \A c \in 1..Current : c # Current => state'[c] = state[c] /\ received'[c] = received[c]
       /\ state'[Current] = IF read.st = "ok" THEN ok ELSE "failed"
       /\ received'[Current] = read.got
  <2>1. /\ state \in Seq({"open", "result", "refused", "failed"}) /\ Len(state) = Current
        /\ DOMAIN received = 1..Current /\ DOMAIN state = 1..Current
    <3>1. IsSequence(received) /\ Len(received) = Current
      BY <1>1 DEF Types
    <3>2. DOMAIN received = 1..Current
      BY <3>1, AppendFacts
    <3>3. QED
      BY <1>1, <3>2 DEF Types
  <2>2. QED
    BY <1>3, <1>5, <2>1
<1>12. PlacesInv'
  BY <1>2, <1>6 DEF PlacesInv, Busy
<1>13. UnsettledInv'
  <2>1. \A u \in unfreed : /\ u[1] \in 1..Current /\ state[u[1]] \notin Answered
                           /\ read.st = "ok" => u[1] # Current
    BY <1>1, <1>7, <1>8, <1>9 DEF UnsettledInv, Unsettled, Returns
  <2>2. \A u \in unfreed : state'[u[1]] \notin Answered
    BY <1>11, <2>1 DEF Answered
  <2>3. QED
    BY <1>2, <1>6, <2>1, <2>2 DEF UnsettledInv, Busy, Current
<1>14. OutcomeInv'
  <2> SUFFICES ASSUME NEW c \in 1..Current
               PROVE  /\ state'[c] \in Answered => Outputs(calls[c], received'[c])
                      /\ state'[c] = "failed" => calls[c].unknown.side = "client" \/ HasEmptyOutput(calls[c])
    BY <1>2 DEF OutcomeInv, Current, Answered
  <2>1. CASE c = Current
    BY <1>3, <1>10, <1>11, <2>1 DEF Answered
  <2>2. CASE c # Current
    BY <1>1, <1>2, <1>11, <2>2 DEF OutcomeInv
  <2>3. QED
    BY <2>1, <2>2
<1>15. QED
  BY <1>12, <1>13, <1>14 DEF EndInv

\* A wait that ends with the connection.
LEMMA AwaitAbortedEnds ==
  ASSUME RInv, EndInv, AwaitAborted
  PROVE  EndInv'
<1>1. Types /\ PlacesInv /\ UnsettledInv /\ OutcomeInv
  BY DEF RInv, EndInv
<1>2. /\ Open /\ conn = "closed" /\ state' = [state EXCEPT ![Current] = "failed"]
      /\ UNCHANGED <<app, calls, requests, server, replies, conn, received, unfreed>>
  BY DEF AwaitAborted, inbox
<1>3. Current' = Current /\ \A c : state'[c] \in Answered => state[c] \in Answered
  <2>1. Current' = Current
    BY <1>2 DEF Current
  <2>2. ASSUME NEW c, state'[c] \in Answered PROVE state[c] \in Answered
    <3>1. CASE c \in DOMAIN state
      BY <1>2, <2>2, <3>1 DEF Answered
    <3>2. CASE c \notin DOMAIN state
      BY <1>2, <2>2, <3>2
    <3>3. QED
      BY <3>1, <3>2
  <2>3. QED
    BY <2>1, <2>2
<1>4. PlacesInv'
  BY <1>1, <1>2 DEF PlacesInv, Busy
<1>5. UnsettledInv'
  BY <1>1, <1>2, <1>3 DEF UnsettledInv, Unsettled, Busy
<1>6. OutcomeInv'
  BY <1>1, <1>2, <1>3 DEF OutcomeInv
<1>7. QED
  BY <1>4, <1>5, <1>6 DEF EndInv

\* The consumer drops a request, with what its handler had allocated.
LEMMA DropEnds ==
  ASSUME RInv, EndInv, requests # <<>>, requests' = Tail(requests) \/ requests' = <<>>,
         \A u \in unfreed' : u \in unfreed \/ (requests' = Tail(requests) /\ u[1] = Head(requests).call),
         unfreed' # unfreed => ~Busy,
         conn' = conn \/ conn' = "closed",
         UNCHANGED <<app, calls, state, server, replies, received>>
  PROVE  EndInv'
<1>1. /\ Types /\ RequestsInv /\ ServerInv /\ OrderInv /\ PlacesInv /\ UnsettledInv /\ OutcomeInv
  BY DEF RInv, EndInv
<1>2. PICK k \in Nat \ {0} :
        /\ Len(requests) \in Nat /\ DOMAIN requests = 1..Len(requests) /\ Head(requests) = requests[1]
        /\ 1 \in DOMAIN requests
        /\ \A i \in DOMAIN requests' :
             i \in Nat \ {0} /\ requests'[i] = requests[i + k] /\ i + k \in DOMAIN requests
  <2>1. IsSequence(requests)
    BY <1>1 DEF Types
  <2>2. CASE requests' = Tail(requests)
    <3>1. \A i \in DOMAIN requests' :
            i \in Nat \ {0} /\ requests'[i] = requests[i + 1] /\ i + 1 \in DOMAIN requests
      BY <2>1, <2>2, TailFacts
    <3>2. QED
      BY <2>1, <3>1, TailFacts
  <2>3. CASE requests' = <<>>
    BY <2>1, <2>3, TailFacts
  <2>4. QED
    BY <2>2, <2>3
<1>3. PICK d : d = Head(requests).call
  OBVIOUS
<1>4. /\ d \in 1..Current /\ state[d] \notin Answered
      /\ \A i \in DOMAIN requests' : requests'[i].call # d /\ requests'[i].call \in 1..Current
      /\ \A i \in DOMAIN replies : replies[i].call # d
  <2>1. d \in 1..Current /\ state[d] \notin Answered
    BY <1>1, <1>2, <1>3 DEF RequestsInv, UnsettledInv, Unsettled
  <2>2. ASSUME NEW i \in DOMAIN requests' PROVE requests'[i].call # d /\ requests'[i].call \in 1..Current
    <3>1. 1 < i + k /\ i + k \in DOMAIN requests /\ requests'[i] = requests[i + k]
      BY <1>2
    <3>2. requests[1].call < requests[i + k].call /\ requests[i + k].call \in 1..Current
      BY <1>1, <1>2, <3>1 DEF OrderInv, RequestsInv
    <3>3. QED
      BY <1>2, <1>3, <2>1, <3>1, <3>2
  <2>3. ASSUME NEW i \in DOMAIN replies PROVE replies[i].call # d
    <3>1. replies[i].call < d
      BY <1>1, <1>2, <1>3 DEF OrderInv
    <3>2. QED
      BY <2>1, <3>1
  <2>4. QED
    BY <2>1, <2>2, <2>3
<1>5. \A u \in unfreed' : u \in unfreed \/ u[1] = d
  BY <1>3
<1>6. PlacesInv'
  BY <1>1, <1>2 DEF PlacesInv, Busy
<1>7. UnsettledInv'
  <2>1. \A i \in DOMAIN requests' : Unsettled(state, unfreed', requests'[i].call)
    BY <1>1, <1>2, <1>4, <1>5 DEF UnsettledInv, Unsettled
  <2>2. Busy => Unsettled(state, unfreed', server.call)
    BY <1>1, <1>5 DEF UnsettledInv, Unsettled
  <2>3. \A i \in DOMAIN replies :
          /\ state[replies[i].call] \notin Answered
          /\ Returns(app.handlers, calls[replies[i].call]) =>
               Unsettled(state, unfreed', replies[i].call)
    BY <1>1, <1>4, <1>5 DEF UnsettledInv, Unsettled
  <2>4. \A u \in unfreed' : u[1] \in 1..Current /\ state[u[1]] \notin Answered
    BY <1>1, <1>4, <1>5 DEF UnsettledInv
  <2>5. QED
    BY <2>1, <2>2, <2>3, <2>4 DEF UnsettledInv, Busy, Current
<1>8. OutcomeInv'
  BY <1>1 DEF OutcomeInv, Types, Current
<1>9. QED
  BY <1>6, <1>7, <1>8 DEF EndInv

\* A handler has read all of a request, as its row says.
LEMMA ReadRequestEnds ==
  ASSUME RInv, RInv', EndInv, ReadRequest
  PROVE  EndInv'
<1>1. /\ Types /\ RequestsInv /\ RequestsInv' /\ OrderInv /\ PlacesInv /\ UnsettledInv /\ OutcomeInv
  BY DEF RInv, EndInv
<1>2. /\ requests # <<>> /\ Handles(Taken.id) /\ HandlerRead.st = "ok"
      /\ server' = [at |-> "read", call |-> Taken.call, id |-> Taken.id,
                    got |-> HandlerRead.got, inner |-> Arriving(Taken.ptrs), instance |-> Taken.instance]
      /\ requests' = Tail(requests)
      /\ UNCHANGED <<app, calls, state, replies, conn, received, unfreed>>
  BY DEF ReadRequest, CanTake, inbox
<1>3. /\ Len(requests) \in Nat /\ 1 \in DOMAIN requests /\ Taken = requests[1]
      /\ \A i \in DOMAIN requests' : requests'[i] = requests[i + 1] /\ i + 1 \in DOMAIN requests
  <2>1. IsSequence(requests)
    BY <1>1 DEF Types
  <2>2. QED
    BY <1>2, <2>1, TailFacts DEF Taken
<1>4. PICK r : r = calls[Taken.call]
  OBVIOUS
<1>5. /\ Taken.id = r.stub.id /\ Taken.tokens = Tokens(r) /\ Taken.ptrs = r.ptrs
      /\ Unsettled(state, unfreed, Taken.call)
  BY <1>1, <1>3, <1>4 DEF RequestsInv, PlacesInv, UnsettledInv
<1>6. server'.call = Taken.call /\ Serves(app.handlers, r, server')
  <2>1. HandlerRead = Arguments(app.handlers[r.stub.id], r) /\ Taken.id \in DOMAIN app.handlers
    BY <1>2, <1>5 DEF HandlerRead, Handler, Arguments, Handles
  <2>2. /\ server'.call = Taken.call /\ server'.id = Taken.id /\ server'.got = HandlerRead.got
        /\ server'.inner = Arriving(Taken.ptrs)
    BY <1>2
  <2>3. QED
    BY <1>2, <1>5, <2>1, <2>2 DEF Serves
<1>7. PlacesInv'
  BY <1>1, <1>2, <1>3, <1>4, <1>6 DEF PlacesInv
<1>8. UnsettledInv'
  BY <1>1, <1>2, <1>3, <1>5, <1>6 DEF UnsettledInv, Current
<1>9. OutcomeInv'
  BY <1>1, <1>2 DEF OutcomeInv, Current
<1>10. QED
  BY <1>7, <1>8, <1>9 DEF EndInv

\* The handler ends: it has answered as its row says and freed all it read, or it was cut
\* off, and its call can have no result any more.
LEMMA HandlerEndsCall ==
  ASSUME RowsFit, RInv, EndInv, Answer \/ AnswerClosed
  PROVE  EndInv'
<1>1. /\ Types /\ RequestsInv /\ ServerInv /\ RepliesInv /\ OrderInv
      /\ PlacesInv /\ UnsettledInv /\ OutcomeInv
  BY DEF RInv, EndInv
<1>2. /\ Finished /\ server' = Idle
      /\ UNCHANGED <<app, calls, state, requests, conn, received>>
  BY DEF Answer, AnswerClosed, inbox
<1>3. PICK d, r, h : d = server.call /\ r = calls[d] /\ h = Handler(server.id)
  OBVIOUS
<1>4. /\ Busy /\ ~Busy' /\ d \in 1..Current /\ state[d] \notin Answered
      /\ Serves(app.handlers, r, server) /\ Unsettled(state, unfreed, d)
  BY <1>1, <1>2, <1>3 DEF ServerInv, PlacesInv, UnsettledInv, Unsettled, Busy, Idle, Finished
<1>5. /\ h = app.handlers[r.stub.id] /\ Arguments(h, r).st = "ok" /\ r.stub.id \in DOMAIN app.handlers
      /\ server.got = Arguments(h, r).got /\ server.inner = Arriving(r.ptrs)
  BY <1>3, <1>4 DEF Serves, Handler
<1>6. /\ \A i \in DOMAIN requests : requests[i].call # d
      /\ \A i \in DOMAIN replies : replies[i].call # d
  <2>1. /\ \A i \in DOMAIN requests : d < requests[i].call
        /\ \A i \in DOMAIN replies : replies[i].call < d
    BY <1>1, <1>3, <1>4 DEF OrderInv
  <2>2. /\ \A i \in DOMAIN requests : requests[i].call \in Int
        /\ \A i \in DOMAIN replies : replies[i].call \in Int
        /\ d \in Int
    BY <1>1, <1>4 DEF RequestsInv, RepliesInv
  <2>3. QED
    BY <2>1, <2>2
<1>7. PlacesInv' /\ UnsettledInv'
  <2>1. CASE Answer
    <3>1. /\ replies' = Append(replies,
               [call |-> d, ran |-> server.at = "ran", tokens |-> Write(h.writes, Pointers(server), 0)])
          /\ unfreed' = unfreed \cup {<<d, f>> : f \in
               Allocated(h.reads, server.got) \ {h.frees[i] : i \in DOMAIN h.frees}}
      BY <2>1, <1>3 DEF Answer
    <3>2. RowFits(h, r)
      <4>1. app \in Apps /\ r \in app.requests
        BY <1>1, <1>3, <1>4 DEF Types, Current
      <4>2. QED
        BY <1>5, <4>1 DEF RowsFit
    <3>3. /\ \A u \in unfreed' : u \in unfreed \/ u[1] = d
          /\ Returns(app.handlers, r) => unfreed' = unfreed
      <4> DEFINE left == Allocated(h.reads, server.got) \ {h.frees[i] : i \in DOMAIN h.frees}
      <4>1. Returns(app.handlers, r) => left = {}
        BY <1>5, <3>2 DEF RowFits, Returns
      <4> HIDE DEF left
      <4>2. unfreed' = unfreed \cup {<<d, f>> : f \in left}
        BY <3>1 DEF left
      <4>3. QED
        BY <4>1, <4>2
    <3>4. Write(h.writes, Pointers(server), 0) = Reply(h, r)
      <4>1. PICK s : s = [got |-> Arguments(h, r).got, inner |-> Arriving(r.ptrs)]
        OBVIOUS
      <4>2. s.got = server.got /\ s.inner = server.inner
        BY <1>5, <4>1
      <4>3. Pointers(s) = Pointers(server)
        BY <4>2 DEF Pointers
      <4>4. QED
        BY <4>1, <4>3 DEF Reply
    <3>5. PICK e : e = [call |-> d, ran |-> server.at = "ran", tokens |-> Reply(h, r)]
      OBVIOUS
    <3>6. e.call = d /\ AnsweredBy(app.handlers, r, e.tokens)
      BY <1>5, <3>5 DEF AnsweredBy
    <3>7. \A i \in DOMAIN replies' : (i \in DOMAIN replies /\ replies'[i] = replies[i]) \/ replies'[i] = e
      <4>1. IsSequence(replies) /\ replies' = Append(replies, e)
        BY <1>1, <3>1, <3>4, <3>5 DEF Types
      <4>2. QED
        BY <4>1, AppendFacts
    <3>8. PlacesInv'
      BY <1>1, <1>2, <1>3, <1>4, <3>6, <3>7 DEF PlacesInv
    <3>9. UnsettledInv'
      BY <1>1, <1>2, <1>3, <1>4, <1>6, <3>3, <3>6, <3>7 DEF UnsettledInv, Unsettled, Current
    <3>10. QED
      BY <3>8, <3>9
  <2>2. CASE AnswerClosed
    <3>1. /\ UNCHANGED replies
          /\ \A u \in unfreed' : u \in unfreed \/ u[1] = d
      BY <2>2, <1>3 DEF AnswerClosed
    <3>2. PlacesInv'
      BY <1>1, <1>2, <1>4, <3>1 DEF PlacesInv
    <3>3. UnsettledInv'
      BY <1>1, <1>2, <1>4, <1>6, <3>1 DEF UnsettledInv, Unsettled, Current
    <3>4. QED
      BY <3>2, <3>3
  <2>3. QED
    BY <2>1, <2>2
<1>8. OutcomeInv'
  BY <1>1, <1>2 DEF OutcomeInv, Current
<1>9. QED
  BY <1>7, <1>8 DEF EndInv

\* If the rows fit, the outcome of every call is what its row says, at every step.
LEMMA NextEndInv ==
  ASSUME RowsFit
  PROVE  RInv /\ RInv' /\ EndInv /\ [Next]_vars => EndInv'
<1> SUFFICES ASSUME RInv, RInv', EndInv, [Next]_vars PROVE EndInv'
  OBVIOUS
<1>1. ASSUME NEW r \in app.requests, SendCall(r) PROVE EndInv'
  <2>1. Message(r, Write(r.stub.request, r.ptrs, 1)) = Message(r, Tokens(r))
    BY <1>1 DEF SendCall, Tokens
  <2>2. /\ Record(r, "open") /\ requests' = Append(requests, Message(r, Tokens(r)))
        /\ UNCHANGED <<app, server, replies, conn, unfreed>>
    BY <1>1, <2>1 DEF SendCall
  <2>3. QED
    BY <2>2, NewCallEnds
<1>2. ASSUME NEW r \in app.requests, SendTruncated(r) PROVE EndInv'
  <2>1. Message(r, WriteUntil(r.unknown.at, r.stub.request, r.ptrs, 1)) = Message(r, Tokens(r))
    BY <1>2 DEF SendTruncated, Tokens
  <2>2. /\ Record(r, "failed") /\ requests' = Append(requests, Message(r, Tokens(r)))
        /\ r.unknown.side = "client" /\ UNCHANGED <<app, server, replies, conn, unfreed>>
    BY <1>2, <2>1 DEF SendTruncated
  <2>3. QED
    BY <2>2, NewCallEnds
<1>3. ASSUME NEW r \in app.requests, CallClosed(r) PROVE EndInv'
  BY <1>3, NewCallEnds DEF CallClosed
<1>4. CASE ReadReply
  BY <1>4, ReadReplyEnds
<1>5. CASE AwaitAborted
  BY <1>5, AwaitAbortedEnds
<1>6. CASE RejectFunction \/ LoseRequests \/ CrashOnUnknownStructure
  <2>1. /\ requests # <<>> /\ (requests' = Tail(requests) \/ requests' = <<>>)
        /\ (conn' = conn \/ conn' = "closed")
        /\ UNCHANGED <<app, calls, state, server, replies, received, unfreed>>
    BY <1>6 DEF RejectFunction, LoseRequests, CrashOnUnknownStructure, CanTake, book, inbox
  <2>2. QED
    BY <2>1, DropEnds
<1>7. CASE RejectMessage
  <2>1. /\ requests # <<>> /\ requests' = Tail(requests) /\ ~Busy
        /\ UNCHANGED <<app, calls, state, server, replies, conn, received>>
        /\ \A u \in unfreed' : u \in unfreed \/ u[1] = Head(requests).call
    BY <1>7 DEF RejectMessage, CanTake, book, inbox, Busy, Idle, Taken
  <2>2. QED
    BY <2>1, DropEnds
<1>8. CASE ReadRequest
  BY <1>8, ReadRequestEnds
<1>9. CASE RunFunction \/ RefuseInstance
  <2>1. PICK at : /\ UNCHANGED <<app, calls, state, requests, replies, conn, received, unfreed>>
                  /\ server.at = "read" /\ server' = [server EXCEPT !.at = at]
    BY <1>9 DEF RunFunction, RefuseInstance, inbox
  <2>2. Types /\ PlacesInv /\ UnsettledInv /\ OutcomeInv
    BY DEF RInv, EndInv
  <2>3. Busy /\ server'.call = server.call /\ server'.id = server.id /\ server'.got = server.got
        /\ server'.inner = server.inner
    BY <2>1, <2>2 DEF Busy, Types
  <2>4. PlacesInv'
    <3>1. Serves(app.handlers, calls[server.call], server')
      BY <2>2, <2>3 DEF PlacesInv, Serves
    <3>2. QED
      BY <2>1, <2>2, <2>3, <3>1 DEF PlacesInv
  <2>5. UnsettledInv' /\ OutcomeInv'
    BY <2>1, <2>2, <2>3 DEF UnsettledInv, OutcomeInv, Current
  <2>6. QED
    BY <2>4, <2>5 DEF EndInv
<1>10. CASE Answer \/ AnswerClosed
  BY <1>10, HandlerEndsCall
<1>11. CASE Close \/ FlushFails \/ UNCHANGED vars
  <2>1. /\ conn' = "closed" \/ conn' = conn
        /\ UNCHANGED <<app, calls, state, requests, server, replies, received, unfreed>>
    BY <1>11 DEF Close, FlushFails, vars, inbox
  <2>2. QED
    BY <2>1 DEF EndInv, PlacesInv, UnsettledInv, OutcomeInv, Busy, Current
<1>12. QED
  BY <1>1, <1>2, <1>3, <1>4, <1>5, <1>6, <1>7, <1>8, <1>9, <1>10, <1>11
  DEF Next, ClientNext, ServerNext

\* It holds always.
LEMMA InductiveEndInv ==
  ASSUME RowsFit
  PROVE  Spec => [](RInv /\ EndInv)
<1>1. Init => EndInv
  BY DEF Init, EndInv, PlacesInv, UnsettledInv, OutcomeInv, Busy, Idle, Current
<1>2. QED
  BY <1>1, InductiveRInv, NextEndInv, PTL DEF Spec

\* If every stub fits its handler, in every sequence of calls and whatever becomes of the
\* connection: a call that returns a result has filled the caller's outputs and nothing
\* else.
THEOREM OutputsArrive ==
  ASSUME RowsFit
  PROVE  Spec => []CallersGetTheOutputs
<1>1. RInv /\ EndInv => CallersGetTheOutputs
  BY DEF RInv, Types, EndInv, OutcomeInv, Outputs, CallersGetTheOutputs, Current, Answered
<1>2. QED
  BY <1>1, InductiveEndInv, PTL

\* While the connection is up a call fails only for a structure its client cannot write or
\* an output array without room.
THEOREM FailuresAreNamed ==
  ASSUME RowsFit
  PROVE  Spec => []OrdinaryCallsSucceed
<1>1. RInv /\ EndInv => OrdinaryCallsSucceed
  BY DEF RInv, Types, EndInv, OutcomeInv, OrdinaryCallsSucceed, Current
<1>2. QED
  BY <1>1, InductiveEndInv, PTL

\* The handler of a call with a result has freed all it allocated: what is lost belongs to
\* calls that were rejected, or whose answer could not be sent.
THEOREM ResultsLoseNothing ==
  ASSUME RowsFit
  PROVE  Spec => []OnlyFailuresLeak
<1>1. EndInv => OnlyFailuresLeak
  BY DEF EndInv, UnsettledInv, OnlyFailuresLeak, Answered
<1>2. QED
  BY <1>1, InductiveEndInv, PTL

=============================================================================
