------------------------------ MODULE Transport ------------------------------
(***************************************************************************)
(* One endpoint of the message transport (TransportImpl): the producer     *)
(* thread that reads the stream into a queue, the consumer thread that     *)
(* hands queued messages to handlers, and the user threads that send,      *)
(* call, await, shut down and close, all synchronised by a recursive       *)
(* message mutex, two leaf mutexes and two condition variables.            *)
(*                                                                         *)
(* A thread is a stack of frames, one per active call.  A critical section *)
(* of queue_mutex or num_waiting_mutex is one step: both are leaf mutexes, *)
(* and a wait on a condition variable enters the wait set in the same step *)
(* that leaves the critical section.  A notify that follows an unlock is   *)
(* merged with the critical section before it; a wake-up that comes later  *)
(* than that is one of the spurious wake-ups, which are modelled.          *)
(*                                                                         *)
(* The remote endpoint and the byte stream are an environment that answers *)
(* calls, sends calls of its own, shuts down or breaks.                    *)
(***************************************************************************)
EXTENDS Integers, Sequences

CONSTANTS
  Users,            \* user threads
  UserScripts,      \* [Users -> sets of sequences of operations a user may run]
  HandlerScripts,   \* what the handler of a "call" message may do
  MaxPeerCalls,     \* bound: calls the peer starts by itself
  PeerMayShutdown,  \* may the peer shut down first?
  MayBreak,         \* may the connection fail?
  MaxSpurious       \* bound: spurious wake-ups of condition variables

Producer == "producer"
Consumer == "consumer"
Workers == {Producer, Consumer}
Threads == Users \cup Workers

\* What a user thread or a handler can ask of the transport.  "reply" sends the
\* answer to the call being handled, "send" a message that has no answer,
\* "rpc" a call and its answer, "sync" two rpcs under one message lock.
Ops == {"start", "send", "rpc", "sync", "await", "handle", "register", "unregister",
        "clear", "reply", "shutdown", "close", "join", "destroy"}

ASSUME UsersAssumption == Users \cap Workers = {}
ASSUME ScriptsAssumption ==
  /\ DOMAIN UserScripts = Users
  /\ \A u \in Users : UserScripts[u] \subseteq Seq(Ops \ {"reply"})
  /\ HandlerScripts \subseteq Seq(Ops \ {"start", "join", "destroy"})
ASSUME BoundsAssumption ==
  /\ MaxPeerCalls \in Nat /\ MaxSpurious \in Nat
  /\ PeerMayShutdown \in BOOLEAN /\ MayBreak \in BOOLEAN

\* A "call" is answered by a "ret"; an "event" is not answered.
Headers == {"call", "ret", "event", "shutdown"}

\* A message; an answer carries the id of the call it answers.
Msg(h, n) == [header |-> h, id |-> n]
Msgs == [header : Headers, id : Nat]
NoMsg == Msg("event", 0)

Statuses == {"CREATED", "OPEN", "WRITE_CLOSED", "CLOSED"}

VARIABLES
  status,          \* std::atomic<xrtp_TransportStatus>
  stack,           \* [Threads -> Seq(frames)], the last frame is running
  held,            \* [Threads -> Nat], recursion depth in message_mutex
  num_waiting,     \* threads inside lock_message_mutex
  num_waiting_cv,  \* threads waiting on num_waiting_cv
  queue,           \* received messages not yet taken
  queue_cv,        \* threads waiting on queue_cv
  handlers,        \* headers with a registered handler
  stream_open,     \* has stream->close() not been called here?
  next_id,         \* id of the next call sent from here
  aborted,         \* std::terminate was called
  conn,            \* "up" or "broken"
  in_stream,       \* messages on their way to this endpoint
  out_stream,      \* messages on their way to the peer
  peer_calls,      \* calls the peer has started
  peer_shut,       \* has the peer sent its SHUTDOWN?
  spurious,        \* spurious wake-ups so far
  arrived,         \* history: messages queued by the producer, in order
  taken,           \* history: messages dispatched or returned, in order
  dropped,         \* history: messages dispatched without a handler
  answers,         \* history: <<id of the call, id in the answer>> of each rpc
  closed_once      \* history: has the status ever been CLOSED?

sync == <<num_waiting, num_waiting_cv>>
local == <<handlers, stream_open, next_id>>
env == <<conn, in_stream, out_stream, peer_calls, peer_shut, spurious>>
hist == <<arrived, taken, dropped, answers, closed_once>>
vars == <<status, stack, held, sync, queue, queue_cv, local, aborted, env, hist>>

-----------------------------------------------------------------------------
(* Frames and stacks.                                                      *)

\* at: where the call stands.  msg: the message it sends, awaits or handles.
\* todo: operations the caller still makes.  base: held when the call began,
\* restored by the destructors of the locks when it ends.
Frame(l, m, td, b) == [at |-> l, msg |-> m, todo |-> td, base |-> b]

UserLabels == {"idle", "handler", "sync_run"}
FlushLabels == {"send_flush", "rpc_flush", "shutdown_flush", "ack_flush"}
Labels == UserLabels \cup FlushLabels \cup
  {"lock_count", "lock_acquire", "lock_counted", "start_check",
   "send_done", "rpc_done", "await_pop", "await_done", "handle_pop", "handle_done",
   "dispatch", "ack_done", "shutdown_mark", "close_stop", "close_stream",
   "set_handler", "erase_handler", "clear_handlers",
   "c_top", "c_lock", "c_defer", "c_queue", "c_handled",
   "p_top", "p_read", "p_push"}
Frames == [at : Labels, msg : Msgs, todo : Seq(Ops), base : Nat]

Top(t) == stack[t][Len(stack[t])]
Under(s) == SubSeq(s, 1, Len(s) - 1)
WithTop(s, f) == Append(Under(s), f)
Moved(t, l) == WithTop(stack[t], [Top(t) EXCEPT !.at = l])

\* Thread t runs, and its innermost call stands at label l.
At(t, l) == ~aborted /\ stack[t] # <<>> /\ Top(t).at = l

\* A call of lock_message_mutex on top of the stack s, by a thread that holds the
\* message mutex n times.
Locking(s, n) == Append(s, Frame("lock_count", NoMsg, <<>>, n))
\* Likewise a call of start_message.
Starting(s, n) == Append(s, Frame("start_check", NoMsg, <<>>, n))

SetStack(t, s) == stack' = [stack EXCEPT ![t] = s]
SetHeld(t, n) == held' = [held EXCEPT ![t] = n]

\* The innermost call of t returns; the locks it owned are released.
Return(t) == SetStack(t, Under(stack[t])) /\ SetHeld(t, Top(t).base)

\* An exception leaves the call at the top of stack s of thread t.  The innermost
\* handler is left and its exception swallowed; user code catches the rest; one that
\* leaves consumer_loop terminates the process.
Throw(t, s) ==
  \/ \E i \in DOMAIN s :
       /\ s[i].at = "handler"
       /\ \A j \in DOMAIN s : j > i => s[j].at # "handler"
       /\ SetStack(t, SubSeq(s, 1, i - 1))
       /\ SetHeld(t, s[i].base)
       /\ UNCHANGED aborted
  \/ /\ \A i \in DOMAIN s : s[i].at # "handler"
     /\ t \in Users
     /\ SetStack(t, SubSeq(s, 1, 1))
     /\ SetHeld(t, 0)
     /\ UNCHANGED aborted
  \/ /\ \A i \in DOMAIN s : s[i].at # "handler"
     /\ t \notin Users
     /\ aborted' = TRUE
     /\ UNCHANGED <<stack, held>>

-----------------------------------------------------------------------------
(* lock_message_mutex                                                      *)

MutexFree(t) == \A u \in Threads \ {t} : held[u] = 0

LockCount(t) ==
  /\ At(t, "lock_count")
  /\ num_waiting' = num_waiting + 1
  /\ SetStack(t, Moved(t, "lock_acquire"))
  /\ UNCHANGED <<status, held, num_waiting_cv, queue, queue_cv, local, aborted, env, hist>>

LockAcquire(t) ==
  /\ At(t, "lock_acquire")
  /\ MutexFree(t)
  /\ SetHeld(t, held[t] + 1)
  /\ SetStack(t, Moved(t, "lock_counted"))
  /\ UNCHANGED <<status, sync, queue, queue_cv, local, aborted, env, hist>>

\* The last waiter wakes the consumer, the only thread that waits on num_waiting_cv.
CountedTooLate == IF num_waiting = 0 THEN {} ELSE num_waiting_cv  \* mutant: off by one
CountedOut == IF num_waiting = 1 THEN {} ELSE num_waiting_cv

\* The lock goes to the caller.
LockCounted(t) ==
  /\ At(t, "lock_counted")
  /\ num_waiting' = num_waiting - 1
  /\ num_waiting_cv' = CountedOut
  /\ SetStack(t, Under(stack[t]))
  /\ UNCHANGED <<status, held, queue, queue_cv, local, aborted, env, hist>>

-----------------------------------------------------------------------------
(* Sending: start_message, flush_to_stream and the end of a MessageLockOut *)

\* start_message: the status is tested before the lock is requested.
StartCheck(t) ==
  /\ At(t, "start_check")
  /\ \/ /\ status = "OPEN"
        /\ SetStack(t, Moved(t, "lock_count"))
        /\ UNCHANGED <<held, aborted>>
     \/ /\ status # "OPEN"
        /\ Throw(t, stack[t])
  /\ UNCHANGED <<status, sync, queue, queue_cv, local, env, hist>>

\* flush_to_stream writes message m; what is written to a broken connection is lost.
Written(m) ==
  /\ status = "OPEN" /\ stream_open
  /\ out_stream' = IF conn = "up" THEN Append(out_stream, m) ELSE out_stream
  /\ UNCHANGED <<conn, in_stream, peer_calls, peer_shut, spurious>>

\* The exception of a failed flush finds the buffer still full, so the destructor of
\* the MessageLockOut flushes again while the stack unwinds and throws again, which
\* terminates the process.
FlushFails(t) ==
  /\ \E l \in FlushLabels : At(t, l)
  /\ status # "OPEN" \/ ~stream_open \/ conn = "broken"
  /\ aborted' = TRUE
  /\ UNCHANGED <<status, stack, held, sync, queue, queue_cv, local, env, hist>>

SendFlush(t) ==
  /\ At(t, "send_flush")
  /\ Written(Top(t).msg)
  /\ SetStack(t, Moved(t, "send_done"))
  /\ UNCHANGED <<status, held, sync, queue, queue_cv, local, aborted, hist>>

SendDone(t) ==
  /\ At(t, "send_done")
  /\ Return(t)
  /\ UNCHANGED <<status, sync, queue, queue_cv, local, aborted, env, hist>>

\* A remote procedure call keeps its MessageLockOut, and with it the message mutex,
\* from start_message to the end of the function.
RpcFlush(t) ==
  LET call == Msg("call", next_id) IN
  /\ At(t, "rpc_flush")
  /\ Written(call)
  /\ next_id' = next_id + 1
  /\ SetStack(t, Locking(Append(WithTop(stack[t], [Top(t) EXCEPT !.at = "rpc_done",
                                                               !.msg = call]),
                                Frame("await_pop", Msg("ret", 0), <<>>, held[t])), held[t]))
  /\ UNCHANGED <<status, held, sync, queue, queue_cv, handlers, stream_open, aborted, hist>>

RpcDone(t) ==
  /\ At(t, "rpc_done")
  /\ Return(t)
  /\ UNCHANGED <<status, sync, queue, queue_cv, local, aborted, env, hist>>

-----------------------------------------------------------------------------
(* Receiving: await_any_message, await_message and handle_message          *)

Awaiting(t) == (At(t, "await_pop") \/ At(t, "handle_pop")) /\ t \notin queue_cv

\* await_any_message after the transport closed, whatever the queue holds.
AwaitClosed(t) ==
  /\ Awaiting(t)
  /\ status = "CLOSED"
  /\ Throw(t, stack[t])
  /\ UNCHANGED <<status, sync, queue, queue_cv, local, env, hist>>

\* Mutant: the status is not looked at before the wait.
AwaitBlocksUnchecked(t) ==
  /\ Awaiting(t)
  /\ queue = <<>>
  /\ queue_cv' = queue_cv \cup {t}
  /\ UNCHANGED <<status, stack, held, sync, queue, local, aborted, env, hist>>

AwaitBlocks(t) ==
  /\ Awaiting(t)
  /\ status # "CLOSED" /\ queue = <<>>
  /\ queue_cv' = queue_cv \cup {t}
  /\ UNCHANGED <<status, stack, held, sync, queue, local, aborted, env, hist>>

Dispatching(m, n) == Frame("dispatch", m, <<>>, n)

\* await_message finds the header it waits for and returns, still holding its lock.
AwaitMatch(t) ==
  LET m == Head(queue)
      caller == stack[t][Len(stack[t]) - 1]
  IN
  /\ At(t, "await_pop") /\ t \notin queue_cv /\ Len(stack[t]) > 1
  /\ status # "CLOSED" /\ queue # <<>>
  /\ m.header = Top(t).msg.header
  /\ queue' = Tail(queue)
  /\ SetStack(t, Under(stack[t]))
  /\ taken' = Append(taken, m)
  /\ answers' = IF caller.at = "rpc_done" THEN answers \cup {<<caller.msg.id, m.id>>}
                                          ELSE answers
  /\ UNCHANGED <<status, held, sync, queue_cv, local, aborted, env, arrived, dropped,
                 closed_once>>

\* await_message handles any other message itself.
AwaitOther(t) ==
  LET m == Head(queue) IN
  /\ At(t, "await_pop") /\ t \notin queue_cv
  /\ status # "CLOSED" /\ queue # <<>>
  /\ m.header # Top(t).msg.header
  /\ queue' = Tail(queue)
  /\ SetStack(t, Append(stack[t], Dispatching(m, held[t])))
  /\ UNCHANGED <<status, held, sync, queue_cv, local, aborted, env, hist>>

\* handle_message handles every message, up to and with the one it waits for.
HandleTake(t) ==
  LET m == Head(queue)
      next == IF m.header = Top(t).msg.header THEN "handle_done" ELSE "handle_pop"
  IN
  /\ At(t, "handle_pop") /\ t \notin queue_cv
  /\ status # "CLOSED" /\ queue # <<>>
  /\ queue' = Tail(queue)
  /\ SetStack(t, Append(Moved(t, next), Dispatching(m, held[t])))
  /\ UNCHANGED <<status, held, sync, queue_cv, local, aborted, env, hist>>

\* The caller of await_message drops the MessageLockIn; handle_message returns.
AwaitDone(t) ==
  /\ At(t, "await_done") \/ At(t, "handle_done")
  /\ Return(t)
  /\ UNCHANGED <<status, sync, queue, queue_cv, local, aborted, env, hist>>

-----------------------------------------------------------------------------
(* dispatch_to_handler                                                     *)

\* Under the status update every waiter is woken (stop_threads).
StopThreads ==
  /\ status' = "CLOSED"
  /\ queue_cv' = {}
  /\ closed_once' = TRUE

\* The handler receives the child lock and runs one of its scripts.
DispatchToHandler(t) ==
  LET m == Top(t).msg IN
  /\ At(t, "dispatch")
  /\ m.header # "shutdown" /\ m.header \in handlers
  /\ \E script \in HandlerScripts :
       SetStack(t, WithTop(stack[t], [Top(t) EXCEPT !.at = "handler", !.todo = script]))
  /\ SetHeld(t, held[t] + 1)
  /\ taken' = Append(taken, m)
  /\ UNCHANGED <<status, sync, queue, queue_cv, local, aborted, env, arrived, dropped,
                 answers, closed_once>>

\* No handler is registered: the message is ignored.
DispatchIgnored(t) ==
  LET m == Top(t).msg IN
  /\ At(t, "dispatch")
  /\ m.header # "shutdown" /\ m.header \notin handlers
  /\ Return(t)
  /\ taken' = Append(taken, m)
  /\ dropped' = dropped \cup {m}
  /\ UNCHANGED <<status, sync, queue, queue_cv, local, aborted, env, arrived, answers,
                 closed_once>>

AlwaysAcknowledges == TRUE  \* mutant: also after our own SHUTDOWN
Acknowledges == status = "OPEN"

\* The peer's SHUTDOWN is answered unless this endpoint shut down first.
DispatchShutdown(t) ==
  LET m == Top(t).msg IN
  /\ At(t, "dispatch")
  /\ m.header = "shutdown"
  /\ SetHeld(t, held[t] + 1)
  /\ SetStack(t, IF Acknowledges THEN Starting(Moved(t, "ack_flush"), held[t] + 1)
                                 ELSE Moved(t, "ack_done"))
  /\ taken' = Append(taken, m)
  /\ UNCHANGED <<status, sync, queue, queue_cv, local, aborted, env, arrived, dropped,
                 answers, closed_once>>

AckFlush(t) ==
  /\ At(t, "ack_flush")
  /\ Written(Msg("shutdown", 0))
  /\ SetStack(t, Moved(t, "ack_done"))
  /\ SetHeld(t, Top(t).base + 1)
  /\ UNCHANGED <<status, sync, queue, queue_cv, local, aborted, hist>>

AckDone(t) ==
  /\ At(t, "ack_done")
  /\ StopThreads
  /\ Return(t)
  /\ UNCHANGED <<sync, queue, local, aborted, env, arrived, taken, dropped, answers>>

\* The handler returns, and dispatch_to_handler with it.
HandlerReturn(t) ==
  /\ At(t, "handler") /\ Top(t).todo = <<>>
  /\ Return(t)
  /\ UNCHANGED <<status, sync, queue, queue_cv, local, aborted, env, hist>>

-----------------------------------------------------------------------------
(* Operations of the API, called by user code and by handlers              *)

\* The next operation of the caller at the top of t's stack is op.
Calls(t, op) ==
  /\ ~aborted /\ stack[t] # <<>>
  /\ Top(t).at \in UserLabels
  /\ Top(t).todo # <<>> /\ Head(Top(t).todo) = op
\* The stack of t with that operation begun.
Begun(t) == WithTop(stack[t], [Top(t) EXCEPT !.todo = Tail(Top(t).todo)])
Call(t, l, m) == Append(Begun(t), Frame(l, m, <<>>, held[t]))

\* start(): opens the transport and creates both workers, once.
Start(t) ==
  /\ Calls(t, "start")
  /\ \/ /\ status = "CREATED"
        /\ status' = "OPEN"
        /\ stack' = [stack EXCEPT ![t] = Begun(t),
                                  ![Producer] = <<Frame("p_top", NoMsg, <<>>, 0)>>,
                                  ![Consumer] = <<Frame("c_top", NoMsg, <<>>, 0)>>]
        /\ UNCHANGED <<held, aborted>>
     \/ /\ status # "CREATED"
        /\ Throw(t, Begun(t))
        /\ UNCHANGED status
  /\ UNCHANGED <<sync, queue, queue_cv, local, env, hist>>

\* start_message for a message without an answer, an answer, or a call.
CallSend(t) ==
  /\ \/ /\ Calls(t, "send")
        /\ SetStack(t, Starting(Call(t, "send_flush", Msg("event", 0)), held[t]))
     \/ /\ Calls(t, "reply")
        /\ SetStack(t, Starting(Call(t, "send_flush", Msg("ret", Top(t).msg.id)), held[t]))
     \/ /\ Calls(t, "rpc")
        /\ SetStack(t, Starting(Call(t, "rpc_flush", NoMsg), held[t]))
  /\ UNCHANGED <<status, held, sync, queue, queue_cv, local, aborted, env, hist>>

\* do_synchronize: rpcs under one lock from acquire_message_lock.
CallSync(t) ==
  /\ Calls(t, "sync")
  /\ SetStack(t, Locking(Append(Begun(t), Frame("sync_run", NoMsg, <<"rpc", "rpc">>, held[t])),
                         held[t]))
  /\ UNCHANGED <<status, held, sync, queue, queue_cv, local, aborted, env, hist>>

SyncDone(t) ==
  /\ At(t, "sync_run") /\ Top(t).todo = <<>>
  /\ Return(t)
  /\ UNCHANGED <<status, sync, queue, queue_cv, local, aborted, env, hist>>

\* await_message or handle_message of a call: refused before start.
CallAwait(t) ==
  /\ Calls(t, "await") \/ Calls(t, "handle")
  /\ \/ /\ status = "CREATED"
        /\ Throw(t, Begun(t))
     \/ /\ status # "CREATED" /\ Calls(t, "await")
        /\ SetStack(t, Locking(Append(Call(t, "await_done", NoMsg),
                                      Frame("await_pop", Msg("call", 0), <<>>, held[t])), held[t]))
        /\ UNCHANGED <<held, aborted>>
     \/ /\ status # "CREATED" /\ Calls(t, "handle")
        /\ SetStack(t, Locking(Call(t, "handle_pop", Msg("call", 0)), held[t]))
        /\ UNCHANGED <<held, aborted>>
  /\ UNCHANGED <<status, sync, queue, queue_cv, local, env, hist>>

\* register_handler, unregister_handler and clear_handlers take the message lock.
CallHandlers(t) ==
  /\ \E c \in {<<"register", "set_handler">>, <<"unregister", "erase_handler">>,
               <<"clear", "clear_handlers">>} :
       Calls(t, c[1]) /\ SetStack(t, Locking(Call(t, c[2], Msg("call", 0)), held[t]))
  /\ UNCHANGED <<status, held, sync, queue, queue_cv, local, aborted, env, hist>>

SetHandlers(t) ==
  /\ \/ At(t, "set_handler") /\ handlers' = handlers \cup {Top(t).msg.header}
     \/ At(t, "erase_handler") /\ handlers' = handlers \ {Top(t).msg.header}
     \/ At(t, "clear_handlers") /\ handlers' = {}
  /\ Return(t)
  /\ UNCHANGED <<status, sync, queue, queue_cv, stream_open, next_id, aborted, env, hist>>

\* shutdown(): refused unless OPEN.
CallShutdown(t) ==
  /\ Calls(t, "shutdown")
  /\ \/ /\ status = "OPEN"
        /\ SetStack(t, Starting(Call(t, "shutdown_flush", Msg("shutdown", 0)), held[t]))
        /\ UNCHANGED <<held, aborted>>
     \/ /\ status # "OPEN"
        /\ Throw(t, Begun(t))
  /\ UNCHANGED <<status, sync, queue, queue_cv, local, env, hist>>

ShutdownFlush(t) ==
  /\ At(t, "shutdown_flush")
  /\ Written(Top(t).msg)
  /\ SetStack(t, Moved(t, "shutdown_mark"))
  /\ UNCHANGED <<status, held, sync, queue, queue_cv, local, aborted, hist>>

\* The status is stored without queue_mutex and without looking at it again.
ShutdownMark(t) ==
  /\ At(t, "shutdown_mark")
  /\ status' = "WRITE_CLOSED"
  /\ Return(t)
  /\ UNCHANGED <<sync, queue, queue_cv, local, aborted, env, hist>>

\* close(): stop_threads, then the stream.
CallClose(t) ==
  /\ Calls(t, "close")
  /\ SetStack(t, Call(t, "close_stop", NoMsg))
  /\ UNCHANGED <<status, held, sync, queue, queue_cv, local, aborted, env, hist>>

CloseStop(t) ==
  /\ At(t, "close_stop")
  /\ StopThreads
  /\ SetStack(t, Moved(t, "close_stream"))
  /\ UNCHANGED <<held, sync, queue, local, aborted, env, arrived, taken, dropped, answers>>

CloseStream(t) ==
  /\ At(t, "close_stream")
  /\ stream_open' = FALSE
  /\ Return(t)
  /\ UNCHANGED <<status, sync, queue, queue_cv, handlers, next_id, aborted, env, hist>>

\* join() returns when both workers have ended, or were never started.
Join(t) ==
  /\ Calls(t, "join")
  /\ \A w \in Workers : stack[w] = <<>>
  /\ SetStack(t, Begun(t))
  /\ UNCHANGED <<status, held, sync, queue, queue_cv, local, aborted, env, hist>>

\* ~TransportImpl(): closes an open transport, then joins.
Destroy(t) ==
  /\ Calls(t, "destroy")
  /\ SetStack(t, WithTop(stack[t], [Top(t) EXCEPT !.todo =
       IF status \in {"OPEN", "WRITE_CLOSED"} THEN <<"close", "join">> ELSE <<"join">>]))
  /\ UNCHANGED <<status, held, sync, queue, queue_cv, local, aborted, env, hist>>

-----------------------------------------------------------------------------
(* producer_loop                                                           *)

ProducerTop(t) ==
  /\ At(t, "p_top")
  /\ SetStack(t, IF status # "CLOSED" THEN Moved(t, "p_read") ELSE <<>>)
  /\ UNCHANGED <<status, held, sync, queue, queue_cv, local, aborted, env, hist>>

\* Where a failed read leads: the producer closes the transport and ends.
RetriesRead == "p_top"  \* mutant: the failure is only logged
ReadFails == "close_stop"

\* A whole message is read, or the read fails and the producer closes the transport.
ProducerRead(t) ==
  /\ At(t, "p_read")
  /\ \/ /\ stream_open /\ in_stream # <<>>
        /\ SetStack(t, WithTop(stack[t], [Top(t) EXCEPT !.at = "p_push",
                                                       !.msg = Head(in_stream)]))
        /\ in_stream' = Tail(in_stream)
     \/ /\ ~stream_open \/ conn = "broken"
        /\ SetStack(t, Moved(t, ReadFails))
        /\ UNCHANGED in_stream
  /\ UNCHANGED <<status, held, sync, queue, queue_cv, local, aborted, conn, out_stream,
                 peer_calls, peer_shut, spurious, hist>>

\* Where the producer goes after it queued message m.
ReadsOn(t, m) == Moved(t, "p_top")  \* mutant: also after a SHUTDOWN
AfterPush(t, m) == IF m.header = "shutdown" THEN <<>> ELSE Moved(t, "p_top")

\* Everyone who waits for the queue is woken; nothing is read after a SHUTDOWN.
ProducerPush(t) ==
  LET m == Top(t).msg IN
  /\ At(t, "p_push")
  /\ queue' = Append(queue, m)
  /\ queue_cv' = {}
  /\ arrived' = Append(arrived, m)
  /\ SetStack(t, AfterPush(t, m))
  /\ UNCHANGED <<status, held, sync, local, aborted, env, taken, dropped, answers,
                 closed_once>>

-----------------------------------------------------------------------------
(* consumer_loop                                                           *)

ConsumerTop(t) ==
  /\ At(t, "c_top") /\ t \notin queue_cv \cup num_waiting_cv
  /\ SetStack(t, IF status # "CLOSED" THEN Moved(t, "c_lock") ELSE <<>>)
  /\ UNCHANGED <<status, held, sync, queue, queue_cv, local, aborted, env, hist>>

\* Mutant: the queue is looked at without the message lock.
ConsumerLockSkipped(t) ==
  /\ At(t, "c_lock")
  /\ SetHeld(t, held[t] + 1)
  /\ SetStack(t, Moved(t, "c_defer"))
  /\ UNCHANGED <<status, sync, queue, queue_cv, local, aborted, env, hist>>

ConsumerLock(t) ==
  /\ At(t, "c_lock")
  /\ MutexFree(t)
  /\ SetHeld(t, held[t] + 1)
  /\ SetStack(t, Moved(t, "c_defer"))
  /\ UNCHANGED <<status, sync, queue, queue_cv, local, aborted, env, hist>>

\* Someone waits for the message lock: give it back and wait until nobody does.
ConsumerDefer(t) ==
  /\ At(t, "c_defer")
  /\ IF num_waiting > 0
     THEN /\ SetHeld(t, 0)
          /\ SetStack(t, Moved(t, "c_top"))
          /\ num_waiting_cv' = num_waiting_cv \cup {t}
     ELSE /\ SetStack(t, Moved(t, "c_queue"))
          /\ UNCHANGED <<held, num_waiting_cv>>
  /\ UNCHANGED <<status, num_waiting, queue, queue_cv, local, aborted, env, hist>>

\* Under queue_mutex: leave when closed, take a message, or wait for one.
ConsumerExit(t) ==
  /\ At(t, "c_queue")
  /\ status = "CLOSED"
  /\ SetHeld(t, 0)
  /\ SetStack(t, <<>>)
  /\ UNCHANGED <<status, sync, queue, queue_cv, local, aborted, env, hist>>

\* Mutant: the message lock is released before the message is handled.
ConsumerTakeUnlocked(t) ==
  /\ At(t, "c_queue")
  /\ status # "CLOSED" /\ queue # <<>>
  /\ queue' = Tail(queue)
  /\ SetHeld(t, 0)
  /\ SetStack(t, Append(Moved(t, "c_handled"), Dispatching(Head(queue), 0)))
  /\ UNCHANGED <<status, sync, queue_cv, local, aborted, env, hist>>

ConsumerTake(t) ==
  /\ At(t, "c_queue")
  /\ status # "CLOSED" /\ queue # <<>>
  /\ queue' = Tail(queue)
  /\ SetStack(t, Append(Moved(t, "c_handled"), Dispatching(Head(queue), held[t])))
  /\ UNCHANGED <<status, held, sync, queue_cv, local, aborted, env, hist>>

ConsumerWait(t) ==
  /\ At(t, "c_queue")
  /\ status # "CLOSED" /\ queue = <<>>
  /\ SetHeld(t, 0)
  /\ SetStack(t, Moved(t, "c_top"))
  /\ queue_cv' = queue_cv \cup {t}
  /\ UNCHANGED <<status, sync, queue, local, aborted, env, hist>>

\* Mutant: the message lock is released by hand and again by its destructor.
ConsumerHandledTwice(t) ==
  /\ At(t, "c_handled")
  /\ SetHeld(t, held[t] - 2)
  /\ SetStack(t, Moved(t, "c_top"))
  /\ UNCHANGED <<status, sync, queue, queue_cv, local, aborted, env, hist>>

\* The message lock is released at the end of the loop's body.
ConsumerHandled(t) ==
  /\ At(t, "c_handled")
  /\ SetHeld(t, 0)
  /\ SetStack(t, Moved(t, "c_top"))
  /\ UNCHANGED <<status, sync, queue, queue_cv, local, aborted, env, hist>>

\* std::condition_variable may wake a waiter for no reason.
SpuriousWakeup(t) ==
  /\ ~aborted /\ spurious < MaxSpurious
  /\ t \in queue_cv \cup num_waiting_cv
  /\ queue_cv' = queue_cv \ {t}
  /\ num_waiting_cv' = num_waiting_cv \ {t}
  /\ spurious' = spurious + 1
  /\ UNCHANGED <<status, stack, held, num_waiting, queue, local, aborted, conn, in_stream,
                 out_stream, peer_calls, peer_shut, hist>>

-----------------------------------------------------------------------------
(* The peer and the connection                                             *)

\* The peer answers calls until it has shut down, and answers a SHUTDOWN.
PeerTake ==
  LET m == Head(out_stream) IN
  /\ ~aborted /\ conn = "up" /\ out_stream # <<>>
  /\ out_stream' = Tail(out_stream)
  /\ in_stream' = IF peer_shut \/ m.header \notin {"call", "shutdown"} THEN in_stream
                  ELSE IF m.header = "call" THEN Append(in_stream, Msg("ret", m.id))
                  ELSE Append(in_stream, Msg("shutdown", 0))
  /\ peer_shut' = (peer_shut \/ m.header = "shutdown")
  /\ UNCHANGED <<status, stack, held, sync, queue, queue_cv, local, aborted, conn, peer_calls,
                 spurious, hist>>

PeerCall ==
  /\ ~aborted /\ conn = "up" /\ ~peer_shut /\ peer_calls < MaxPeerCalls
  /\ peer_calls' = peer_calls + 1
  /\ in_stream' = Append(in_stream, Msg("call", peer_calls + 1))
  /\ UNCHANGED <<status, stack, held, sync, queue, queue_cv, local, aborted, conn, out_stream,
                 peer_shut, spurious, hist>>

PeerShutdown ==
  /\ ~aborted /\ conn = "up" /\ PeerMayShutdown /\ ~peer_shut
  /\ peer_shut' = TRUE
  /\ in_stream' = Append(in_stream, Msg("shutdown", 0))
  /\ UNCHANGED <<status, stack, held, sync, queue, queue_cv, local, aborted, conn, out_stream,
                 peer_calls, spurious, hist>>

ConnectionBreaks ==
  /\ ~aborted /\ conn = "up" /\ MayBreak
  /\ conn' = "broken"
  /\ out_stream' = <<>>
  /\ UNCHANGED <<status, stack, held, sync, queue, queue_cv, local, aborted, in_stream,
                 peer_calls, peer_shut, spurious, hist>>

-----------------------------------------------------------------------------
Init ==
  /\ status = "CREATED"
  /\ \E scripts \in [Users -> UNION {UserScripts[u] : u \in Users}] :
       /\ \A u \in Users : scripts[u] \in UserScripts[u]
       /\ stack = [t \in Threads |->
                     IF t \in Users THEN <<Frame("idle", NoMsg, scripts[t], 0)>> ELSE <<>>]
  /\ held = [t \in Threads |-> 0]
  /\ num_waiting = 0 /\ num_waiting_cv = {}
  /\ queue = <<>> /\ queue_cv = {}
  /\ handlers = {"call"} /\ stream_open = TRUE /\ next_id = 1
  /\ aborted = FALSE
  /\ conn = "up" /\ in_stream = <<>> /\ out_stream = <<>>
  /\ peer_calls = 0 /\ peer_shut = FALSE /\ spurious = 0
  /\ arrived = <<>> /\ taken = <<>> /\ dropped = {} /\ answers = {} /\ closed_once = FALSE

Step(t) ==
  \/ LockCount(t) \/ LockAcquire(t) \/ LockCounted(t)
  \/ StartCheck(t) \/ FlushFails(t) \/ SendFlush(t) \/ SendDone(t)
  \/ RpcFlush(t) \/ RpcDone(t)
  \/ AwaitClosed(t) \/ AwaitBlocks(t) \/ AwaitMatch(t) \/ AwaitOther(t)
  \/ HandleTake(t) \/ AwaitDone(t)
  \/ DispatchToHandler(t) \/ DispatchIgnored(t) \/ DispatchShutdown(t)
  \/ AckFlush(t) \/ AckDone(t) \/ HandlerReturn(t)
  \/ Start(t) \/ CallSend(t) \/ CallSync(t) \/ SyncDone(t) \/ CallAwait(t)
  \/ CallHandlers(t) \/ SetHandlers(t)
  \/ CallShutdown(t) \/ ShutdownFlush(t) \/ ShutdownMark(t)
  \/ CallClose(t) \/ CloseStop(t) \/ CloseStream(t) \/ Join(t) \/ Destroy(t)
  \/ ProducerTop(t) \/ ProducerRead(t) \/ ProducerPush(t)
  \/ ConsumerTop(t) \/ ConsumerLock(t) \/ ConsumerDefer(t) \/ ConsumerExit(t)
  \/ ConsumerTake(t) \/ ConsumerWait(t) \/ ConsumerHandled(t)

\* A user thread has run its script.
UserDone(u) == Len(stack[u]) = 1 /\ stack[u][1].todo = <<>>
\* The program is over: terminated, or every thread has ended.
Over ==
  \/ aborted
  \/ (\A u \in Users : UserDone(u)) /\ (\A w \in Workers : stack[w] = <<>>)
Finished == Over /\ UNCHANGED vars

Environment == PeerTake \/ PeerCall \/ PeerShutdown \/ ConnectionBreaks

Next ==
  \/ \E t \in Threads : Step(t) \/ SpuriousWakeup(t)
  \/ Environment
  \/ Finished

Spec == Init /\ [][Next]_vars

\* Every thread that can run eventually does, and the peer reads what it is sent.
FairSpec == Spec /\ (\A t \in Threads : WF_vars(Step(t))) /\ WF_vars(PeerTake)

-----------------------------------------------------------------------------
(* Properties                                                              *)

TypeOK ==
  /\ status \in Statuses
  /\ stack \in [Threads -> Seq(Frames)]
  /\ held \in [Threads -> Nat]
  /\ num_waiting \in Int /\ num_waiting_cv \subseteq Threads
  /\ queue \in Seq(Msgs) /\ queue_cv \subseteq Threads
  /\ handlers \subseteq Headers /\ stream_open \in BOOLEAN /\ next_id \in Nat
  /\ aborted \in BOOLEAN
  /\ conn \in {"up", "broken"} /\ in_stream \in Seq(Msgs) /\ out_stream \in Seq(Msgs)
  /\ peer_calls \in Nat /\ peer_shut \in BOOLEAN /\ spurious \in Nat
  /\ arrived \in Seq(Msgs) /\ taken \in Seq(Msgs) /\ dropped \subseteq Msgs
  /\ answers \subseteq Nat \X Nat /\ closed_once \in BOOLEAN

\* No wake-up is lost.  Nobody waits on queue_cv while the queue holds a message or
\* the transport is closed, and the consumer waits on num_waiting_cv only while some
\* thread is still going to decrement num_waiting and notify it.
NoLostWakeup ==
  /\ queue_cv # {} => queue = <<>> /\ status # "CLOSED"
  /\ num_waiting_cv # {} => num_waiting > 0

\* Messages reach handlers and callers in the order in which they arrived, each at
\* most once and without gaps, although the consumer and any number of awaiting user
\* threads take them from the queue and dispatch them after unlocking it.
DispatchedInOrder ==
  /\ Len(taken) <= Len(arrived)
  /\ \A i \in 1 .. Len(taken) : taken[i] = arrived[i]

\* A remote procedure call gets the answer to itself, and while it waits that answer
\* is never thrown away as a message without a handler: neither the consumer nor
\* another user can get between a call's flush and its await.
AnswersReachTheirCallers ==
  /\ \A a \in answers : a[1] = a[2]
  /\ \A t \in Threads : \A i \in DOMAIN stack[t] :
       stack[t][i].at = "rpc_done" =>
         \/ Msg("ret", stack[t][i].msg.id) \notin dropped
         \/ <<stack[t][i].msg.id, stack[t][i].msg.id>> \in answers

\* Once the status has been updated to closed, no thread falls into a wait for the queue.
NoWaitAfterClosed == [][closed_once => queue_cv' \subseteq queue_cv]_vars

\* A transport that is used and closed at the same time reports an error to its
\* callers; the process is not terminated.
NeverTerminated == ~aborted

\* With a peer that answers, every call returns, a shutdown is answered, both workers
\* end and join returns: no thread waits for ever for a message, a lock or a thread.
EveryThreadEnds == <>Over

\* Closing the transport or losing the connection ends both workers, and every user
\* waiting for a message, for the message lock or in join gets on.
ClosingEndsEveryThread == (closed_once \/ conn = "broken") ~> Over

=============================================================================
