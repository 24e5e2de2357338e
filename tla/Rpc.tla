-------------------------------- MODULE Rpc --------------------------------
(***************************************************************************)
(* Remote OpenXR calls: the stubs of rpc.cpp, the FUNCTION_CALL handler of *)
(* server.cpp with the handlers of function_dispatch.cpp, and the two      *)
(* message queues between them.  A stub holds the message mutex from       *)
(* start_message to its return, so calls follow one another; the server    *)
(* handles messages one at a time on its consumer thread (see Transport).  *)
(*                                                                         *)
(* The two sides are built separately: the server may lack an extension,   *)
(* a function of the runtime, or the deserializer of a structure that the  *)
(* application put in a next chain.  A request carries the stub that makes *)
(* it, an application the handlers of the server that it meets.            *)
(*                                                                         *)
(* The server compares the instance of xrDestroyInstance with the one it   *)
(* has saved, and refuses another without asking the runtime.  Of handles  *)
(* only this is modelled: whether an instance is the application's latest. *)
(***************************************************************************)
EXTENDS WireFields

CONSTANTS
  AllRequests,  \* what can be called: [fn, stub, ptrs, unknown, instance]
  Apps,         \* an application and its server: the requests it makes, how many of
                \* them, FunctionDispatch::handlers as [id -> handler], the functions
                \* that the server's runtime does not have, and saved_instance before
                \* the first of the requests
  MaxCalls,     \* bound: calls of one application
  MayClose      \* may the connection close?

\* The application's latest instance, and XR_NULL_HANDLE, in saved_instance.
Saved == {"own", "null"}

ASSUME AppsAssumption ==
  \A a \in Apps : a.requests \subseteq AllRequests /\ a.saved \in Saved

VARIABLES
  app,        \* the application
  calls,      \* its calls, in order
  state,      \* "open", "result", "refused" (by the server) or "failed", for each call
  requests,   \* FUNCTION_CALL messages on their way
  server,     \* the handler that is running, or Idle
  replies,    \* FUNCTION_RETURN messages on their way
  conn,       \* "up" or "closed"
  crashed,    \* did the server process die?
  saved,      \* saved_instance of the server
  runs,       \* history: how often the runtime was called, for each call
  seen,       \* history: what it was called with, for each call
  answer,     \* history: the call whose answer was read, 0 for none, for each call
  received,   \* history: what the stub wrote to the caller's memory, for each call
  unfreed     \* history: <<call, field>> of memory the server allocated and lost

book == <<runs, seen>>
inbox == <<answer, received>>
vars == <<app, calls, state, requests, server, replies, conn, crashed, saved, book, inbox, unfreed>>

-----------------------------------------------------------------------------
(* Requests: a function, what its pointers are, and where (if anywhere) it *)
(* holds a structure of a type that one of the builds does not know.       *)

Nowhere == [side |-> "none", at |-> 0]
Idle ==
  [at |-> "idle", call |-> 0, id |-> 0, got |-> {}, inner |-> NotInPlace, instance |-> "none"]
NotSeen == {}

\* Does r name an instance that its handler compares with saved_instance?
Checked(r) == r.instance # "none"

Current == Len(calls)
Open == Current > 0 /\ state[Current] = "open"

\* The pointers as they arrive: a length of 0 arrives as nullptr.
Arriving(ptrs) == [n \in DOMAIN ptrs |-> IF ptrs[n] = "set" THEN "set" ELSE "null"]

\* What the runtime must be called with: each parameter itself, times on its own clock.
Seen(r) ==
  LET fields == r.stub.request
      arriving == Arriving(r.ptrs)
      Part(f) ==
        [name |-> f.name,
         of |-> IF IsPointer(f) /\ arriving[f.name] = "null" THEN "nullptr" ELSE f.name,
         shift |-> IF f.op = "time" THEN 0 - 1 ELSE 0]
  IN {[fn |-> r.fn, args |-> {Part(fields[i]) : i \in DOMAIN fields}]}

\* What the stub of r writes; less than all of it when serialize_xr throws.
Tokens(r) ==
  IF r.unknown.side = "client"
  THEN WriteUntil(r.unknown.at, r.stub.request, r.ptrs, 1)
  ELSE Write(r.stub.request, r.ptrs, 1)

\* The tables agree: a handler that reads a request to its end has not got one that was
\* cut short, and has read the caller's arguments; it compares an instance with
\* saved_instance only if the request names one.
ASSUME HandlersAssumption ==
  \A a \in Apps : \A r \in a.requests : r.stub.id \in DOMAIN a.handlers =>
    LET h == a.handlers[r.stub.id]
        read == Read(h.reads, Tokens(r), NotInPlace, 0)
    IN read.st = "ok" =>
         /\ r.unknown.side # "client" /\ {[fn |-> h.fn, args |-> read.got]} = Seen(r)
         /\ h.instance = "checks" => Checked(r)

-----------------------------------------------------------------------------
(* The client's stub.                                                      *)

Message(r, tokens) ==
  [call |-> Current + 1, id |-> r.stub.id, tokens |-> tokens, ptrs |-> r.ptrs,
   foreign |-> r.unknown.side = "server", instance |-> r.instance]

\* The call is recorded with state s.
Record(r, s) ==
  /\ calls' = Append(calls, r)
  /\ state' = Append(state, s)
  /\ runs' = Append(runs, 0)
  /\ seen' = Append(seen, NotSeen)
  /\ answer' = Append(answer, 0)
  /\ received' = Append(received, {})

MayCall(r) == r \in app.requests /\ Current < app.max /\ ~Open

\* Mutant of SendCall: times are not moved to the server's clock.
SendsOwnTimes(r) ==
  /\ MayCall(r) /\ conn = "up" /\ r.unknown.side # "client"
  /\ requests' = Append(requests, Message(r, Write(r.stub.request, r.ptrs, 0)))
  /\ Record(r, "open")
  /\ UNCHANGED <<app, server, replies, conn, crashed, saved, unfreed>>

\* start_message, the serialization of the arguments and the flush.
SendCall(r) ==
  /\ MayCall(r) /\ conn = "up" /\ r.unknown.side # "client"
  /\ requests' = Append(requests, Message(r, Write(r.stub.request, r.ptrs, 1)))
  /\ Record(r, "open")
  /\ UNCHANGED <<app, server, replies, conn, crashed, saved, unfreed>>

\* serialize_xr throws at a structure it does not know.  The destructor of MessageLockOut
\* sends what was written so far; the stub returns XR_ERROR_RUNTIME_FAILURE.
SendTruncated(r) ==
  /\ MayCall(r) /\ conn = "up" /\ r.unknown.side = "client"
  /\ requests' = Append(requests,
       Message(r, WriteUntil(r.unknown.at, r.stub.request, r.ptrs, 1)))
  /\ Record(r, "failed")
  /\ UNCHANGED <<app, server, replies, conn, crashed, saved, unfreed>>

\* start_message throws: the transport is closed.  (If it is the flush that throws, the
\* destructor of MessageLockOut throws again and the application is terminated: it makes
\* no more calls.)
CallClosed(r) ==
  /\ MayCall(r) /\ conn = "closed"
  /\ Record(r, "failed")
  /\ UNCHANGED <<app, requests, server, replies, conn, crashed, saved, unfreed>>

\* await_message returns and the stub reads the answer into the caller's memory; an
\* exception of the in-place read makes the call fail.
ReadReply ==
  /\ Open /\ conn = "up" /\ replies # <<>>
  /\ LET r == calls[Current]
         m == Head(replies)
         read == Read(r.stub.reply, m.tokens, r.ptrs, 1)
         answered == IF m.ran THEN "result" ELSE "refused"
     IN /\ state' = [state EXCEPT ![Current] = IF read.st = "ok" THEN answered ELSE "failed"]
        /\ received' = [received EXCEPT ![Current] = read.got]
        /\ answer' = [answer EXCEPT ![Current] = m.call]
  /\ replies' = Tail(replies)
  /\ UNCHANGED <<app, calls, requests, server, conn, crashed, saved, book, unfreed>>

\* Mutant of AwaitAborted: a close does not wake an await whose queue is empty.
AbortsOnlyAwake ==
  /\ Open /\ conn = "closed" /\ replies # <<>>
  /\ state' = [state EXCEPT ![Current] = "failed"]
  /\ UNCHANGED <<app, calls, requests, server, replies, conn, crashed, saved, book, inbox, unfreed>>

\* await_message throws: the transport was closed.
AwaitAborted ==
  /\ Open /\ conn = "closed"
  /\ state' = [state EXCEPT ![Current] = "failed"]
  /\ UNCHANGED <<app, calls, requests, server, replies, conn, crashed, saved, book, inbox, unfreed>>

-----------------------------------------------------------------------------
(* The server.                                                             *)

\* The next FUNCTION_CALL, its handler's function, and what the handler reads of it.
Taken == Head(requests)
CanTake == server = Idle /\ ~crashed /\ requests # <<>>
Handler(id) == app.handlers[id]
Handles(id) == id \in DOMAIN app.handlers /\ Handler(id).fn \notin app.unloaded
HandlerRead == Read(Handler(Taken.id).reads, Taken.tokens, NotInPlace, 0)

\* Memory behind the pointers that have been read.
Allocated(reads, got) ==
  {f \in {reads[i] : i \in DOMAIN reads} :
     IsPointer(f) /\ \E g \in got : g.name = f.name /\ g.of # "nullptr"}

\* handle_function finds no handler, or ensure_function_loaded no function: the
\* exception is logged by the transport and nothing is answered.
RejectFunction ==
  /\ CanTake /\ ~Handles(Taken.id)
  /\ requests' = Tail(requests)
  /\ UNCHANGED <<app, calls, state, server, replies, conn, crashed, saved, book, inbox, unfreed>>

\* Mutant of RejectMessage: a message that cannot be read is answered with an error.
RejectsWithAnswer ==
  /\ CanTake /\ Handles(Taken.id) /\ ~Taken.foreign
  /\ HandlerRead.st # "ok"
  /\ requests' = Tail(requests)
  /\ replies' = Append(replies,
       [call |-> Taken.call, ran |-> FALSE,
        tokens |-> Write(Handler(Taken.id).writes, Arriving(Taken.ptrs), 0)])
  /\ UNCHANGED <<app, calls, state, server, conn, crashed, saved, book, inbox, unfreed>>

\* Reading the arguments runs past the end of the message: nothing is answered, and
\* what was allocated so far is lost.
RejectMessage ==
  /\ CanTake /\ Handles(Taken.id) /\ ~Taken.foreign
  /\ HandlerRead.st # "ok"
  /\ requests' = Tail(requests)
  /\ unfreed' = unfreed \cup
       {<<Taken.call, f>> : f \in Allocated(Handler(Taken.id).reads, HandlerRead.got)}
  /\ UNCHANGED <<app, calls, state, server, replies, conn, crashed, saved, book, inbox>>

\* deserialize_xr calls the null pointer that deserializer_lookup returns for a type
\* this build does not know.
CrashOnUnknownStructure ==
  /\ CanTake /\ Handles(Taken.id) /\ Taken.foreign
  /\ crashed' = TRUE /\ conn' = "closed"
  /\ requests' = Tail(requests)
  /\ UNCHANGED <<app, calls, state, server, replies, saved, book, inbox, unfreed>>

\* Mutant of ReadRequest: the end of the message goes unnoticed.
ReadsShort ==
  /\ CanTake /\ Handles(Taken.id) /\ ~Taken.foreign
  /\ HandlerRead.st \in {"ok", "eof"}
  /\ server' = [at |-> "read", call |-> Taken.call, id |-> Taken.id,
                got |-> HandlerRead.got, inner |-> Arriving(Taken.ptrs),
                instance |-> Taken.instance]
  /\ requests' = Tail(requests)
  /\ UNCHANGED <<app, calls, state, replies, conn, crashed, saved, book, inbox, unfreed>>

\* The handler has read all of its arguments.
ReadRequest ==
  /\ CanTake /\ Handles(Taken.id) /\ ~Taken.foreign
  /\ HandlerRead.st = "ok"
  /\ server' = [at |-> "read", call |-> Taken.call, id |-> Taken.id,
                got |-> HandlerRead.got, inner |-> Arriving(Taken.ptrs),
                instance |-> Taken.instance]
  /\ requests' = Tail(requests)
  /\ UNCHANGED <<app, calls, state, replies, conn, crashed, saved, book, inbox, unfreed>>

\* saved_instance after handler h has called the runtime: a creation may fail, a
\* destruction clears it whatever the runtime's result.
SavedBy(h) ==
  CASE h.instance = "saves" -> {saved, "own"}
    [] h.instance = "checks" -> {"null"}
    [] OTHER -> {saved}

\* destroy_instance_handler: the handle is not the one that the server has saved.
Foreign == Handler(server.id).instance = "checks" /\ server.instance # saved

\* The handler calls the runtime.
RunFunction ==
  /\ server.at = "read" /\ ~crashed /\ ~Foreign
  /\ server' = [server EXCEPT !.at = "ran"]
  /\ saved' \in SavedBy(Handler(server.id))
  /\ runs' = [runs EXCEPT ![server.call] = @ + 1]
  /\ seen' = [seen EXCEPT ![server.call] = @ \cup {[fn |-> Handler(server.id).fn, args |-> server.got]}]
  /\ UNCHANGED <<app, calls, state, requests, replies, conn, crashed, inbox, unfreed>>

\* The handler settles for XR_ERROR_HANDLE_INVALID and does not call the runtime.
RefuseInstance ==
  /\ server.at = "read" /\ ~crashed /\ Foreign
  /\ server' = [server EXCEPT !.at = "refused"]
  /\ UNCHANGED <<app, calls, state, requests, replies, conn, crashed, saved, book, inbox, unfreed>>

\* The handler's own pointers: the parameters it has read, and what structures hold.
Pointers(s) ==
  [n \in DOMAIN s.inner |->
     IF \E g \in s.got : g.name = n /\ g.of = "nullptr" THEN "null" ELSE s.inner[n]]

Finished == server.at \in {"ran", "refused"}

\* The handler sends its answer, with the runtime's result or its own, and frees what it
\* read.
Answer ==
  /\ Finished /\ ~crashed /\ conn = "up"
  /\ LET h == Handler(server.id)
         left == Allocated(h.reads, server.got) \ {h.frees[i] : i \in DOMAIN h.frees}
     IN /\ replies' = Append(replies,
             [call |-> server.call, ran |-> server.at = "ran",
              tokens |-> Write(h.writes, Pointers(server), 0)])
        /\ unfreed' = unfreed \cup {<<server.call, f>> : f \in left}
  /\ server' = Idle
  /\ UNCHANGED <<app, calls, state, requests, conn, crashed, saved, book, inbox>>

\* start_message throws in the handler, for the transport is closed.  The exception is
\* logged; the answer and the memory are lost.
AnswerClosed ==
  /\ Finished /\ ~crashed /\ conn = "closed"
  /\ unfreed' = unfreed \cup
       {<<server.call, f>> : f \in Allocated(Handler(server.id).reads, server.got)}
  /\ server' = Idle
  /\ UNCHANGED <<app, calls, state, requests, replies, conn, crashed, saved, book, inbox>>

\* The flush throws: the connection was lost after start_message, or the producer has not
\* noticed.  The destructor of MessageLockOut flushes once more, throws while the first
\* exception is under way, and the process is terminated.
FlushFails ==
  /\ Finished /\ ~crashed /\ conn = "closed"
  /\ crashed' = TRUE
  /\ UNCHANGED <<app, calls, state, requests, server, replies, conn, saved, book, inbox, unfreed>>

-----------------------------------------------------------------------------
(* The connection.                                                         *)

\* Either end closes the connection, or it breaks.
Close ==
  /\ MayClose /\ conn = "up"
  /\ conn' = "closed"
  /\ UNCHANGED <<app, calls, state, requests, server, replies, crashed, saved, book, inbox, unfreed>>

\* The server's producer meets the end of the stream before the consumer takes the rest.
LoseRequests ==
  /\ conn = "closed" /\ requests # <<>>
  /\ requests' = <<>>
  /\ UNCHANGED <<app, calls, state, server, replies, conn, crashed, saved, book, inbox, unfreed>>

Init ==
  /\ app \in Apps
  /\ calls = <<>> /\ state = <<>> /\ requests = <<>> /\ replies = <<>>
  /\ server = Idle
  /\ conn = "up" /\ crashed = FALSE /\ saved = app.saved
  /\ runs = <<>> /\ seen = <<>> /\ answer = <<>> /\ received = <<>>
  /\ unfreed = {}

ClientNext ==
  \/ \E r \in app.requests : SendCall(r) \/ SendTruncated(r) \/ CallClosed(r)
  \/ ReadReply
  \/ AwaitAborted

ServerNext ==
  \/ RejectFunction
  \/ RejectMessage
  \/ CrashOnUnknownStructure
  \/ ReadRequest
  \/ RunFunction
  \/ RefuseInstance
  \/ Answer
  \/ AnswerClosed
  \/ FlushFails

Next == ClientNext \/ ServerNext \/ Close \/ LoseRequests

Spec == Init /\ [][Next]_vars

\* The consumer thread of each side runs; the application need not call anything.
Fairness == WF_vars(ServerNext) /\ WF_vars(ReadReply) /\ WF_vars(AwaitAborted)
FairSpec == Spec /\ Fairness

-----------------------------------------------------------------------------
(* Properties.                                                             *)

\* Types of the bookkeeping of calls and of the two ends.
TypeOK ==
  /\ app \in Apps
  /\ calls \in Seq(app.requests)
  /\ state \in Seq({"open", "result", "refused", "failed"})
  /\ runs \in Seq(Nat) /\ answer \in Seq(Nat)
  /\ Len(state) = Current /\ Len(runs) = Current /\ Len(seen) = Current
  /\ Len(answer) = Current /\ Len(received) = Current
  /\ \A i \in DOMAIN requests : requests[i].call \in 1..Current
  /\ \A i \in DOMAIN replies : replies[i].call \in 1..Current
  /\ server.at \in {"idle", "read", "ran", "refused"}
  /\ server.at # "idle" => server.call \in 1..Current
  /\ conn \in {"up", "closed"} /\ crashed \in BOOLEAN /\ saved \in Saved

\* A call that returns the runtime's result read the answer to itself, from a handler that
\* called the runtime exactly once for it; one that returns the server's own
\* XR_ERROR_HANDLE_INVALID read the answer to itself too, and the runtime is never called
\* for it, before or after.  FUNCTION_RETURN carries no id: the pairing rests on every
\* other call having been answered, or never being answered at all.
AnswersAreOwn ==
  \A c \in DOMAIN calls :
    /\ state[c] = "result" => answer[c] = c /\ runs[c] = 1
    /\ state[c] = "refused" => answer[c] = c /\ runs[c] = 0 /\ Checked(calls[c])

\* A request that was cut short by an exception in the stub is never executed, whatever
\* the field at which it was cut.
TruncatedNeverRuns ==
  \A c \in DOMAIN calls : calls[c].unknown.side = "client" => runs[c] = 0

\* When a call returns a result, every output parameter the caller supplied holds what
\* the runtime wrote there, and nothing was written anywhere else.
CallersGetTheOutputs ==
  \A c \in DOMAIN calls : state[c] = "result" =>
    LET ptrs == calls[c].ptrs IN
    /\ \A n \in calls[c].stub.outs :
         ptrs[n] = "set" => [name |-> n, of |-> n, shift |-> 0] \in received[c]
    /\ \A g \in received[c] : g.of = IF ptrs[g.name] = "set" THEN g.name ELSE "nullptr"

\* Does the answer hold an array the caller passed with a length of 0?
HasEmptyOutput(r) ==
  LET reply == r.stub.reply IN
  \E i \in DOMAIN reply : IsPointer(reply[i]) /\ r.ptrs[reply[i].name] = "empty"

\* On a connection that stays open, a call fails for one of two reasons only: a structure
\* in it has no serializer, or the caller passed an output array that is not null but
\* has no room, for which deserialize_ptr throws.
OrdinaryCallsSucceed ==
  \A c \in DOMAIN calls :
    state[c] = "failed" /\ conn = "up" =>
      calls[c].unknown.side = "client" \/ HasEmptyOutput(calls[c])

\* A handler whose call was answered freed all that its deserializers allocated.
OnlyFailuresLeak ==
  \A u \in unfreed : state[u[1]] \notin {"result", "refused"}

\* Is the server able to answer call c?
Answerable(c) == Handles(calls[c].stub.id)

\* A call that the server can answer ends; so does every call once the connection is
\* closed.  (Nothing ends a call to a function that the server misses: no await has a
\* timeout.)
CallsEnd ==
  \A c \in 1..MaxCalls :
    (c \in DOMAIN calls /\ (Answerable(c) \/ conn = "closed")) ~>
      (c \in DOMAIN calls /\ state[c] # "open")

\* The whole is a remote call as RemoteCall promises it: at most one execution, with the
\* caller's arguments, no result of the runtime without it, and none at all of a call that
\* the server refused.
Abstract == INSTANCE RemoteCall WITH Requests <- AllRequests
IsRemoteCall == Abstract!Spec
=============================================================================
