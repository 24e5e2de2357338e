--------------------------- MODULE TransportProofs ---------------------------
(***************************************************************************)
(* Proofs about Transport, for any set of user threads, any scripts and    *)
(* any bounds.                                                             *)
(***************************************************************************)
EXTENDS Transport, SequenceTheorems, TLAPS

-----------------------------------------------------------------------------
(* Stacks                                                                  *)

\* What is left of a nonempty stack when its top is popped, and its top.
LEMMA UnderProperties ==
  ASSUME NEW S, NEW s \in Seq(S), s # <<>>
  PROVE  /\ Len(s) \in Nat \ {0}
         /\ Under(s) \in Seq(S)
         /\ Len(Under(s)) = Len(s) - 1
         /\ \A i \in 1 .. Len(s) - 1 : Under(s)[i] = s[i]
         /\ s[Len(s)] \in S
<1>1. Len(s) \in Nat \ {0}
  BY EmptySeq
<1>2. \A i \in 1 .. Len(s) : s[i] \in S
  BY ElementOfSeq
<1> DEFINE u == SubSeq(s, 1, Len(s) - 1)
           n == Len(s) - 1
<1>3. /\ u \in Seq(S)
      /\ Len(u) = IF 1 <= n THEN n - 1 + 1 ELSE 0
      /\ \A i \in 1 .. n - 1 + 1 : u[i] = s[1 + i - 1]
  BY <1>1, <1>2, SubSeqProperties
<1>4. n \in Nat
  BY <1>1
<1>5. s[Len(s)] \in S
  BY <1>1, <1>2
<1> HIDE DEF u, n
<1>6. Len(u) = n /\ \A i \in 1 .. n : u[i] = s[i]
  BY <1>3, <1>4
<1>7. QED
  BY <1>1, <1>3, <1>5, <1>6 DEF Under, u, n

\* Replacing the top of a nonempty stack.
LEMMA WithTopProperties ==
  ASSUME NEW S, NEW s \in Seq(S), s # <<>>, NEW f \in S
  PROVE  /\ WithTop(s, f) \in Seq(S)
         /\ WithTop(s, f) # <<>>
         /\ Len(WithTop(s, f)) = Len(s)
         /\ \A i \in 1 .. Len(s) - 1 : WithTop(s, f)[i] = s[i]
         /\ WithTop(s, f)[Len(s)] = f
<1>1. /\ Under(s) \in Seq(S) /\ Len(s) \in Nat \ {0} /\ Len(Under(s)) = Len(s) - 1
      /\ \A i \in 1 .. Len(s) - 1 : Under(s)[i] = s[i]
  BY UnderProperties
<1>2. QED
  BY <1>1, AppendProperties DEF WithTop

\* The frames below position n + 1 of a stack.
LEMMA PrefixProperties ==
  ASSUME NEW S, NEW s \in Seq(S), NEW n \in Nat, n <= Len(s)
  PROVE  /\ SubSeq(s, 1, n) \in Seq(S)
         /\ Len(SubSeq(s, 1, n)) = n
         /\ \A i \in 1 .. n : SubSeq(s, 1, n)[i] = s[i]
<1>1. Len(s) \in Nat /\ \A i \in 1 .. n : s[i] \in S
  BY LenProperties, ElementOfSeq
<1>2. QED
  BY <1>1, SubSeqProperties

\* The frames the actions push.
LEMMA FrameType ==
  ASSUME NEW l \in Labels, NEW m \in Msgs, NEW td \in Seq(Ops), NEW b \in Nat
  PROVE  Frame(l, m, td, b) \in Frames
BY DEF Frame, Frames

\* A message of a known header is a message.
LEMMA MsgType ==
  ASSUME NEW h \in Headers, NEW n \in Nat
  PROVE  Msg(h, n) \in Msgs
BY DEF Msg, Msgs

\* So is the placeholder of frames that carry none.
LEMMA NoMsgType == NoMsg \in Msgs
BY MsgType DEF NoMsg, Headers

\* Pushing a call of lock_message_mutex or start_message leaves a stack.
LEMMA LockingType ==
  ASSUME NEW s \in Seq(Frames), NEW n \in Nat
  PROVE  Locking(s, n) \in Seq(Frames) /\ Starting(s, n) \in Seq(Frames)
<1>1. <<>> \in Seq(Ops) /\ "lock_count" \in Labels /\ "start_check" \in Labels
  BY DEF Labels
<1>2. /\ Frame("lock_count", NoMsg, <<>>, n) \in Frames
      /\ Frame("start_check", NoMsg, <<>>, n) \in Frames
  BY <1>1, FrameType, NoMsgType
<1>3. QED
  BY <1>2, AppendProperties DEF Locking, Starting

\* The top of a running thread and the stack with its top moved to another label.
LEMMA TopType ==
  ASSUME TypeOK, NEW t \in Threads, stack[t] # <<>>
  PROVE  /\ stack[t] \in Seq(Frames)
         /\ Top(t) \in Frames
         /\ Top(t).at \in Labels /\ Top(t).msg \in Msgs
         /\ Top(t).todo \in Seq(Ops) /\ Top(t).base \in Nat
         /\ Under(stack[t]) \in Seq(Frames)
         /\ \A l \in Labels : Moved(t, l) \in Seq(Frames)
<1>1. stack[t] \in Seq(Frames)
  BY DEF TypeOK
<1>2. Top(t) \in Frames /\ Under(stack[t]) \in Seq(Frames)
  BY <1>1, UnderProperties DEF Top
<1>3. ASSUME NEW l \in Labels PROVE Moved(t, l) \in Seq(Frames)
  <2>1. [Top(t) EXCEPT !.at = l] \in Frames
    BY <1>2 DEF Frames
  <2>2. QED
    BY <1>1, <2>1, WithTopProperties DEF Moved
<1>4. QED
  BY <1>1, <1>2, <1>3 DEF Frames

\* The stack of a caller whose next operation has begun, and with a call pushed on it.
LEMMA BegunType ==
  ASSUME TypeOK, NEW t \in Threads, stack[t] # <<>>, Top(t).todo # <<>>
  PROVE  /\ Begun(t) \in Seq(Frames) /\ Begun(t) # <<>>
         /\ \A l \in Labels, m \in Msgs : Call(t, l, m) \in Seq(Frames)
<1>1. stack[t] \in Seq(Frames) /\ Top(t) \in Frames /\ Top(t).todo \in Seq(Ops) /\ held[t] \in Nat
  BY TopType DEF TypeOK
<1>2. Tail(Top(t).todo) \in Seq(Ops)
  BY <1>1, HeadTailProperties
<1> DEFINE f == [Top(t) EXCEPT !.todo = Tail(Top(t).todo)]
<1>3. f \in Frames
  BY <1>1, <1>2 DEF Frames
<1>4. Begun(t) \in Seq(Frames) /\ Begun(t) # <<>>
  <2>1. Begun(t) = WithTop(stack[t], f)
    BY DEF Begun
  <2> HIDE DEF f
  <2>2. WithTop(stack[t], f) \in Seq(Frames) /\ WithTop(stack[t], f) # <<>>
    BY <1>1, <1>3, WithTopProperties, Zenon
  <2>3. QED
    BY <2>1, <2>2, Zenon
<1>5. ASSUME NEW l \in Labels, NEW m \in Msgs PROVE Call(t, l, m) \in Seq(Frames)
  <2>1. <<>> \in Seq(Ops)
    OBVIOUS
  <2>2. Frame(l, m, <<>>, held[t]) \in Frames
    BY <1>1, <2>1, FrameType
  <2>3. QED
    BY <1>4, <2>2, AppendProperties DEF Call
<1>6. QED
  BY <1>4, <1>5

\* Storing a stack and a recursion depth.
LEMMA StoreType ==
  ASSUME TypeOK, NEW t \in Threads
  PROVE  /\ \A s \in Seq(Frames) : SetStack(t, s) => stack' \in [Threads -> Seq(Frames)]
         /\ \A n \in Nat : SetHeld(t, n) => held' \in [Threads -> Nat]
BY DEF TypeOK, SetStack, SetHeld

\* A return stores the rest of the stack and the caller's recursion depth.
LEMMA ReturnType ==
  ASSUME TypeOK, NEW t \in Threads, stack[t] # <<>>, Return(t)
  PROVE  stack' \in [Threads -> Seq(Frames)] /\ held' \in [Threads -> Nat]
BY TopType, StoreType DEF Return

\* An exception stores a prefix of the stack and a recursion depth, or terminates.
LEMMA ThrowType ==
  ASSUME TypeOK, NEW t \in Threads, NEW s \in Seq(Frames), s # <<>>, Throw(t, s)
  PROVE  /\ stack' \in [Threads -> Seq(Frames)]
         /\ held' \in [Threads -> Nat]
         /\ aborted' \in BOOLEAN
<1>1. Len(s) \in Nat /\ DOMAIN s = 1 .. Len(s)
  BY LenProperties
<1>2. ASSUME NEW i \in DOMAIN s, SetStack(t, SubSeq(s, 1, i - 1)), SetHeld(t, s[i].base),
             UNCHANGED aborted
      PROVE  /\ stack' \in [Threads -> Seq(Frames)]
             /\ held' \in [Threads -> Nat]
             /\ aborted' \in BOOLEAN
  <2>1. SubSeq(s, 1, i - 1) \in Seq(Frames)
    BY <1>1, PrefixProperties
  <2>2. s[i] \in Frames
    BY <1>1, ElementOfSeq
  <2>3. s[i].base \in Nat
    BY <2>2 DEF Frames
  <2>4. QED
    BY <1>2, <2>1, <2>3, StoreType DEF TypeOK
<1>3. ASSUME t \in Users, SetStack(t, SubSeq(s, 1, 1)), SetHeld(t, 0), UNCHANGED aborted
      PROVE  /\ stack' \in [Threads -> Seq(Frames)]
             /\ held' \in [Threads -> Nat]
             /\ aborted' \in BOOLEAN
  <2>1. SubSeq(s, 1, 1) \in Seq(Frames)
    BY <1>1, EmptySeq, PrefixProperties
  <2>2. QED
    BY <1>3, <2>1, StoreType DEF TypeOK
<1>4. ASSUME aborted' = TRUE, UNCHANGED <<stack, held>>
      PROVE  /\ stack' \in [Threads -> Seq(Frames)]
             /\ held' \in [Threads -> Nat]
             /\ aborted' \in BOOLEAN
  BY <1>4 DEF TypeOK
<1>5. QED
  BY <1>2, <1>3, <1>4 DEF Throw

\* Labels the actions move to or push are labels.
LEMMA LabelsType ==
  /\ UserLabels \subseteq Labels /\ FlushLabels \subseteq Labels
  /\ \A l \in {"lock_count", "lock_acquire", "lock_counted", "start_check", "send_done",
        "rpc_done", "await_pop", "await_done", "handle_pop", "handle_done", "dispatch",
        "ack_done", "shutdown_mark", "close_stop", "close_stream", "set_handler",
        "erase_handler", "clear_handlers", "c_top", "c_lock", "c_defer", "c_queue", "c_handled",
        "p_top", "p_read", "p_push", "idle", "handler", "sync_run", "send_flush", "rpc_flush",
        "shutdown_flush", "ack_flush"} : l \in Labels
BY DEF Labels, UserLabels, FlushLabels

\* Moving the innermost call to another label stores a stack.
LEMMA MoveType ==
  ASSUME TypeOK, NEW t \in Threads, stack[t] # <<>>, NEW l \in Labels, SetStack(t, Moved(t, l))
  PROVE  stack' \in [Threads -> Seq(Frames)]
<1>1. Moved(t, l) \in Seq(Frames)
  BY TopType
<1>2. QED
  BY <1>1, StoreType

\* Pushing dispatch_to_handler for a message leaves a stack.
LEMMA DispatchingType ==
  ASSUME NEW m \in Msgs, NEW n \in Nat
  PROVE  Dispatching(m, n) \in Frames
<1>1. <<>> \in Seq(Ops) /\ "dispatch" \in Labels
  BY LabelsType
<1>2. QED
  BY <1>1, FrameType DEF Dispatching

\* lock_message_mutex keeps the types: the count is raised,
LEMMA LockCountType ==
  ASSUME TypeOK, NEW t \in Threads, LockCount(t)
  PROVE  TypeOK'
<1>1. stack[t] # <<>>
  BY DEF LockCount, At
<1>2. stack' \in [Threads -> Seq(Frames)]
  BY <1>1, LabelsType, MoveType DEF LockCount
<1>3. QED
  BY <1>2 DEF TypeOK, LockCount, sync, local, env, hist

\* the message mutex is acquired once more,
LEMMA LockAcquireType ==
  ASSUME TypeOK, NEW t \in Threads, LockAcquire(t)
  PROVE  TypeOK'
<1>1. stack[t] # <<>>
  BY DEF LockAcquire, At
<1>2. stack' \in [Threads -> Seq(Frames)]
  BY <1>1, LabelsType, MoveType DEF LockAcquire
<1>3. held' \in [Threads -> Nat]
  <2>1. held[t] + 1 \in Nat
    BY <1>1, TopType DEF TypeOK
  <2>2. QED
    BY <2>1, StoreType DEF LockAcquire
<1>4. QED
  BY <1>2, <1>3 DEF TypeOK, LockAcquire, sync, local, env, hist

\* and the count is lowered.
LEMMA LockCountedType ==
  ASSUME TypeOK, NEW t \in Threads, LockCounted(t)
  PROVE  TypeOK'
<1>1. stack[t] # <<>>
  BY DEF LockCounted, At
<1>2. stack' \in [Threads -> Seq(Frames)]
  BY <1>1, TopType, StoreType DEF LockCounted
<1>3. QED
  BY <1>2 DEF TypeOK, LockCounted, CountedOut, sync, local, env, hist

\* start_message keeps the types, whether it goes on or throws.
LEMMA StartCheckType ==
  ASSUME TypeOK, NEW t \in Threads, StartCheck(t)
  PROVE  TypeOK'
<1>1. stack[t] # <<>>
  BY DEF StartCheck, At
<1>2. /\ stack' \in [Threads -> Seq(Frames)]
      /\ held' \in [Threads -> Nat]
      /\ aborted' \in BOOLEAN
  <2>1. CASE status = "OPEN"
    <3>1. SetStack(t, Moved(t, "lock_count"))
      BY <2>1 DEF StartCheck
    <3>2. QED
      BY <1>1, <2>1, <3>1, LabelsType, MoveType DEF StartCheck, TypeOK
  <2>2. CASE status # "OPEN"
    <3>1. Throw(t, stack[t]) /\ stack[t] \in Seq(Frames)
      BY <1>1, <2>2, TopType DEF StartCheck
    <3>2. QED
      BY <1>1, <3>1, ThrowType
  <2>3. QED
    BY <2>1, <2>2
<1>3. QED
  BY <1>2 DEF TypeOK, StartCheck, sync, local, env, hist

\* A failed flush only terminates.
LEMMA FlushFailsType ==
  ASSUME TypeOK, NEW t \in Threads, FlushFails(t)
  PROVE  TypeOK'
BY DEF TypeOK, FlushFails, sync, local, env, hist

\* flush_to_stream appends a message to the outgoing stream.
LEMMA WrittenType ==
  ASSUME TypeOK, NEW m \in Msgs, Written(m)
  PROVE  /\ out_stream' \in Seq(Msgs)
         /\ UNCHANGED <<conn, in_stream, peer_calls, peer_shut, spurious>>
BY AppendProperties DEF TypeOK, Written

\* The flush of a message without an answer keeps the types,
LEMMA SendFlushType ==
  ASSUME TypeOK, NEW t \in Threads, SendFlush(t)
  PROVE  TypeOK'
<1>1. stack[t] # <<>>
  BY DEF SendFlush, At
<1>2. stack' \in [Threads -> Seq(Frames)]
  BY <1>1, LabelsType, MoveType DEF SendFlush
<1>3. Top(t).msg \in Msgs
  BY <1>1, TopType
<1>4. out_stream' \in Seq(Msgs) /\ UNCHANGED <<conn, in_stream, peer_calls, peer_shut, spurious>>
  BY <1>3, WrittenType DEF SendFlush
<1>5. QED
  BY <1>2, <1>4 DEF TypeOK, SendFlush, sync, local, env, hist

\* so does the flush of shutdown(),
LEMMA ShutdownFlushType ==
  ASSUME TypeOK, NEW t \in Threads, ShutdownFlush(t)
  PROVE  TypeOK'
<1>1. stack[t] # <<>>
  BY DEF ShutdownFlush, At
<1>2. stack' \in [Threads -> Seq(Frames)]
  BY <1>1, LabelsType, MoveType DEF ShutdownFlush
<1>3. Top(t).msg \in Msgs
  BY <1>1, TopType
<1>4. out_stream' \in Seq(Msgs) /\ UNCHANGED <<conn, in_stream, peer_calls, peer_shut, spurious>>
  BY <1>3, WrittenType DEF ShutdownFlush
<1>5. QED
  BY <1>2, <1>4 DEF TypeOK, ShutdownFlush, sync, local, env, hist

\* and that of the answer to the peer's SHUTDOWN.
LEMMA AckFlushType ==
  ASSUME TypeOK, NEW t \in Threads, AckFlush(t)
  PROVE  TypeOK'
<1>1. stack[t] # <<>>
  BY DEF AckFlush, At
<1>2. stack' \in [Threads -> Seq(Frames)]
  BY <1>1, LabelsType, MoveType DEF AckFlush
<1>3. Msg("shutdown", 0) \in Msgs
  BY <1>1, MsgType DEF Headers
<1>4. out_stream' \in Seq(Msgs) /\ UNCHANGED <<conn, in_stream, peer_calls, peer_shut, spurious>>
  BY <1>3, WrittenType DEF AckFlush
<1>5. held' \in [Threads -> Nat]
  <2>1. Top(t).base + 1 \in Nat
    BY <1>1, TopType DEF TypeOK
  <2>2. QED
    BY <2>1, StoreType DEF AckFlush
<1>6. QED
  BY <1>2, <1>4, <1>5 DEF TypeOK, AckFlush, sync, local, env, hist

\* The end of a send keeps the types,
LEMMA SendDoneType ==
  ASSUME TypeOK, NEW t \in Threads, SendDone(t)
  PROVE  TypeOK'
<1>1. stack[t] # <<>>
  BY DEF SendDone, At
<1>2. stack' \in [Threads -> Seq(Frames)] /\ held' \in [Threads -> Nat]
  BY <1>1, ReturnType DEF SendDone
<1>3. QED
  BY <1>2 DEF TypeOK, SendDone, sync, local, env, hist

\* of a remote procedure call,
LEMMA RpcDoneType ==
  ASSUME TypeOK, NEW t \in Threads, RpcDone(t)
  PROVE  TypeOK'
<1>1. stack[t] # <<>>
  BY DEF RpcDone, At
<1>2. stack' \in [Threads -> Seq(Frames)] /\ held' \in [Threads -> Nat]
  BY <1>1, ReturnType DEF RpcDone
<1>3. QED
  BY <1>2 DEF TypeOK, RpcDone, sync, local, env, hist

\* of a handler,
LEMMA HandlerReturnType ==
  ASSUME TypeOK, NEW t \in Threads, HandlerReturn(t)
  PROVE  TypeOK'
<1>1. stack[t] # <<>>
  BY DEF HandlerReturn, At
<1>2. stack' \in [Threads -> Seq(Frames)] /\ held' \in [Threads -> Nat]
  BY <1>1, ReturnType DEF HandlerReturn
<1>3. QED
  BY <1>2 DEF TypeOK, HandlerReturn, sync, local, env, hist

\* of do_synchronize,
LEMMA SyncDoneType ==
  ASSUME TypeOK, NEW t \in Threads, SyncDone(t)
  PROVE  TypeOK'
<1>1. stack[t] # <<>>
  BY DEF SyncDone, At
<1>2. stack' \in [Threads -> Seq(Frames)] /\ held' \in [Threads -> Nat]
  BY <1>1, ReturnType DEF SyncDone
<1>3. QED
  BY <1>2 DEF TypeOK, SyncDone, sync, local, env, hist

\* of dispatch_to_handler for a SHUTDOWN,
LEMMA AckDoneType ==
  ASSUME TypeOK, NEW t \in Threads, AckDone(t)
  PROVE  TypeOK'
<1>1. stack[t] # <<>>
  BY DEF AckDone, At
<1>2. stack' \in [Threads -> Seq(Frames)] /\ held' \in [Threads -> Nat]
  BY <1>1, ReturnType DEF AckDone
<1>3. QED
  BY <1>2 DEF TypeOK, AckDone, sync, local, env, hist, StopThreads, Statuses

\* of shutdown(),
LEMMA ShutdownMarkType ==
  ASSUME TypeOK, NEW t \in Threads, ShutdownMark(t)
  PROVE  TypeOK'
<1>1. stack[t] # <<>>
  BY DEF ShutdownMark, At
<1>2. stack' \in [Threads -> Seq(Frames)] /\ held' \in [Threads -> Nat]
  BY <1>1, ReturnType DEF ShutdownMark
<1>3. QED
  BY <1>2 DEF TypeOK, ShutdownMark, sync, local, env, hist, Statuses

\* of close(),
LEMMA CloseStreamType ==
  ASSUME TypeOK, NEW t \in Threads, CloseStream(t)
  PROVE  TypeOK'
<1>1. stack[t] # <<>>
  BY DEF CloseStream, At
<1>2. stack' \in [Threads -> Seq(Frames)] /\ held' \in [Threads -> Nat]
  BY <1>1, ReturnType DEF CloseStream
<1>3. QED
  BY <1>2 DEF TypeOK, CloseStream, sync, local, env, hist

\* of await_message and handle_message,
LEMMA AwaitDoneType ==
  ASSUME TypeOK, NEW t \in Threads, AwaitDone(t)
  PROVE  TypeOK'
<1>1. stack[t] # <<>>
  BY DEF AwaitDone, At
<1>2. stack' \in [Threads -> Seq(Frames)] /\ held' \in [Threads -> Nat]
  BY <1>1, ReturnType DEF AwaitDone
<1>3. QED
  BY <1>2 DEF TypeOK, AwaitDone, sync, local, env, hist

\* and of the changes of the handler table.
LEMMA SetHandlersType ==
  ASSUME TypeOK, NEW t \in Threads, SetHandlers(t)
  PROVE  TypeOK'
<1>1. stack[t] # <<>>
  BY DEF SetHandlers, At
<1>2. stack' \in [Threads -> Seq(Frames)] /\ held' \in [Threads -> Nat]
  BY <1>1, ReturnType DEF SetHandlers
<1>3. QED
  BY <1>2, <1>1, TopType DEF TypeOK, SetHandlers, sync, local, env, hist, Msgs

\* The flush of a call pushes await_message and the lock it takes.
LEMMA RpcFlushType ==
  ASSUME TypeOK, NEW t \in Threads, RpcFlush(t)
  PROVE  TypeOK'
<1>1. stack[t] # <<>>
  BY DEF RpcFlush, At
<1> DEFINE call == Msg("call", next_id)
           f == [Top(t) EXCEPT !.at = "rpc_done", !.msg = call]
           g == Frame("await_pop", Msg("ret", 0), <<>>, held[t])
<1>2. held[t] \in Nat /\ <<>> \in Seq(Ops) /\ next_id \in Nat
  BY DEF TypeOK
<1>3. call \in Msgs /\ Msg("ret", 0) \in Msgs
  BY <1>2, MsgType DEF Headers
<1>4. f \in Frames
  BY <1>1, <1>3, TopType, LabelsType DEF Frames
<1>5. g \in Frames
  BY <1>2, <1>3, FrameType, LabelsType
<1>6. out_stream' \in Seq(Msgs) /\ UNCHANGED <<conn, in_stream, peer_calls, peer_shut, spurious>>
  BY <1>3, WrittenType DEF RpcFlush
<1>7. SetStack(t, Locking(Append(WithTop(stack[t], f), g), held[t]))
  BY DEF RpcFlush
<1>8. stack' \in [Threads -> Seq(Frames)]
  <2> HIDE DEF f, g
  <2>1. WithTop(stack[t], f) \in Seq(Frames)
    BY <1>1, <1>4, TopType, WithTopProperties
  <2>2. Append(WithTop(stack[t], f), g) \in Seq(Frames)
    BY <1>5, <2>1, AppendProperties
  <2>3. Locking(Append(WithTop(stack[t], f), g), held[t]) \in Seq(Frames)
    BY <1>2, <2>2, LockingType
  <2>4. QED
    BY <1>7, <2>3, StoreType
<1>9. QED
  BY <1>2, <1>6, <1>8 DEF TypeOK, RpcFlush, sync, local, env, hist

\* await_any_message keeps the types when it throws,
LEMMA AwaitClosedType ==
  ASSUME TypeOK, NEW t \in Threads, AwaitClosed(t)
  PROVE  TypeOK'
<1>1. stack[t] # <<>>
  BY DEF AwaitClosed, Awaiting, At
<1>2. /\ stack' \in [Threads -> Seq(Frames)]
      /\ held' \in [Threads -> Nat]
      /\ aborted' \in BOOLEAN
  <2>1. Throw(t, stack[t]) /\ stack[t] \in Seq(Frames)
    BY <1>1, TopType DEF AwaitClosed
  <2>2. QED
    BY <1>1, <2>1, ThrowType
<1>3. QED
  BY <1>2 DEF TypeOK, AwaitClosed, sync, local, env, hist

\* when it waits,
LEMMA AwaitBlocksType ==
  ASSUME TypeOK, NEW t \in Threads, AwaitBlocks(t)
  PROVE  TypeOK'
BY DEF TypeOK, AwaitBlocks, sync, local, env, hist

\* when it returns what await_message waits for,
LEMMA AwaitMatchType ==
  ASSUME TypeOK, NEW t \in Threads, AwaitMatch(t)
  PROVE  TypeOK'
<1>1. stack[t] # <<>>
  BY DEF AwaitMatch, At
<1>2. Head(queue) \in Msgs /\ Tail(queue) \in Seq(Msgs) /\ held[t] \in Nat
  BY HeadTailProperties DEF AwaitMatch, TypeOK
<1>3. stack' \in [Threads -> Seq(Frames)]
  BY <1>1, TopType, StoreType DEF AwaitMatch
<1>4. taken' \in Seq(Msgs)
  BY <1>2, AppendProperties DEF AwaitMatch, TypeOK
<1>5. answers' \subseteq Nat \X Nat
  <2> DEFINE caller == stack[t][Len(stack[t]) - 1]
  <2>1. CASE caller.at = "rpc_done"
    <3>1. /\ answers' = answers \cup {<<caller.msg.id, Head(queue).id>>}
      BY <2>1 DEF AwaitMatch
    <3>2. Head(queue).id \in Nat
      BY <1>2 DEF Msgs
    <3>3. caller.msg.id \in Nat
      <4>1. stack[t] \in Seq(Frames) /\ Len(stack[t]) \in Nat \ {0}
        BY <1>1, TopType, EmptySeq
      <4>2. Len(stack[t]) > 1
        BY DEF AwaitMatch
      <4>3. caller \in Frames
        BY <4>1, <4>2, ElementOfSeq
      <4>4. QED
        BY <4>3 DEF Frames, Msgs
    <3>4. QED
      BY <3>1, <3>2, <3>3 DEF TypeOK
  <2>2. CASE caller.at # "rpc_done"
    BY <2>2 DEF AwaitMatch, TypeOK
  <2>3. QED
    BY <2>1, <2>2
<1>6. QED
  BY <1>2, <1>3, <1>4, <1>5 DEF TypeOK, AwaitMatch, sync, local, env, hist

\* when await_message dispatches what it took,
LEMMA AwaitOtherType ==
  ASSUME TypeOK, NEW t \in Threads, AwaitOther(t)
  PROVE  TypeOK'
<1>1. stack[t] # <<>>
  BY DEF AwaitOther, At
<1>2. Head(queue) \in Msgs /\ Tail(queue) \in Seq(Msgs) /\ held[t] \in Nat
  BY HeadTailProperties DEF AwaitOther, TypeOK
<1>3. stack' \in [Threads -> Seq(Frames)]
  <2>1. Append(stack[t], Dispatching(Head(queue), held[t])) \in Seq(Frames)
    BY <1>1, <1>2, TopType, DispatchingType, AppendProperties
  <2>2. QED
    BY <2>1, StoreType DEF AwaitOther
<1>4. QED
  BY <1>2, <1>3 DEF TypeOK, AwaitOther, sync, local, env, hist

\* and when handle_message does.
LEMMA HandleTakeType ==
  ASSUME TypeOK, NEW t \in Threads, HandleTake(t)
  PROVE  TypeOK'
<1>1. stack[t] # <<>>
  BY DEF HandleTake, At
<1>2. Head(queue) \in Msgs /\ Tail(queue) \in Seq(Msgs) /\ held[t] \in Nat
  BY HeadTailProperties DEF HandleTake, TypeOK
<1>3. stack' \in [Threads -> Seq(Frames)]
  <2>1. PICK l \in {"handle_done", "handle_pop"} :
               SetStack(t, Append(Moved(t, l), Dispatching(Head(queue), held[t])))
    BY DEF HandleTake
  <2>2. Moved(t, l) \in Seq(Frames)
    BY <1>1, TopType, LabelsType
  <2>3. Append(Moved(t, l), Dispatching(Head(queue), held[t])) \in Seq(Frames)
    BY <1>2, <2>2, DispatchingType, AppendProperties
  <2>4. QED
    BY <2>1, <2>3, StoreType
<1>4. QED
  BY <1>2, <1>3 DEF TypeOK, HandleTake, sync, local, env, hist

\* The consumer takes a message and dispatches it.
LEMMA ConsumerTakeType ==
  ASSUME TypeOK, NEW t \in Threads, ConsumerTake(t)
  PROVE  TypeOK'
<1>1. stack[t] # <<>>
  BY DEF ConsumerTake, At
<1>2. Head(queue) \in Msgs /\ Tail(queue) \in Seq(Msgs) /\ held[t] \in Nat
  BY HeadTailProperties DEF ConsumerTake, TypeOK
<1>3. stack' \in [Threads -> Seq(Frames)]
  <2>1. PICK l \in {"c_handled"} :
               SetStack(t, Append(Moved(t, l), Dispatching(Head(queue), held[t])))
    BY DEF ConsumerTake
  <2>2. Moved(t, l) \in Seq(Frames)
    BY <1>1, TopType, LabelsType
  <2>3. Append(Moved(t, l), Dispatching(Head(queue), held[t])) \in Seq(Frames)
    BY <1>2, <2>2, DispatchingType, AppendProperties
  <2>4. QED
    BY <2>1, <2>3, StoreType
<1>4. QED
  BY <1>2, <1>3 DEF TypeOK, ConsumerTake, sync, local, env, hist

\* dispatch_to_handler keeps the types when it runs a handler,
LEMMA DispatchToHandlerType ==
  ASSUME TypeOK, NEW t \in Threads, DispatchToHandler(t)
  PROVE  TypeOK'
<1>1. stack[t] # <<>>
  BY DEF DispatchToHandler, At
<1>2. Top(t).msg \in Msgs /\ held[t] \in Nat
  BY <1>1, TopType DEF TypeOK
<1>3. taken' \in Seq(Msgs)
  BY <1>2, AppendProperties DEF DispatchToHandler, TypeOK
<1>4. held' \in [Threads -> Nat]
  BY <1>2, StoreType DEF DispatchToHandler
<1>5. stack' \in [Threads -> Seq(Frames)]
  <2>1. PICK script \in HandlerScripts :
          SetStack(t, WithTop(stack[t], [Top(t) EXCEPT !.at = "handler", !.todo = script]))
    BY DEF DispatchToHandler
  <2>2. script \in Seq(Ops)
    BY <2>1, ScriptsAssumption, SeqMonotonic
  <2> DEFINE f == [Top(t) EXCEPT !.at = "handler", !.todo = script]
  <2>3. f \in Frames
    BY <1>1, <2>2, TopType, LabelsType DEF Frames
  <2> HIDE DEF f
  <2>4. WithTop(stack[t], f) \in Seq(Frames)
    BY <1>1, <2>3, TopType, WithTopProperties
  <2>5. QED
    BY <2>1, <2>4, StoreType DEF f
<1>6. QED
  BY <1>3, <1>4, <1>5 DEF TypeOK, DispatchToHandler, sync, local, env, hist

\* when it finds none,
LEMMA DispatchIgnoredType ==
  ASSUME TypeOK, NEW t \in Threads, DispatchIgnored(t)
  PROVE  TypeOK'
<1>1. stack[t] # <<>>
  BY DEF DispatchIgnored, At
<1>2. Top(t).msg \in Msgs /\ held[t] \in Nat
  BY <1>1, TopType DEF TypeOK
<1>3. taken' \in Seq(Msgs)
  BY <1>2, AppendProperties DEF DispatchIgnored, TypeOK
<1>4. stack' \in [Threads -> Seq(Frames)] /\ held' \in [Threads -> Nat]
  BY <1>1, ReturnType DEF DispatchIgnored
<1>5. QED
  BY <1>2, <1>3, <1>4 DEF TypeOK, DispatchIgnored, sync, local, env, hist

\* and when the message is a SHUTDOWN.
LEMMA DispatchShutdownType ==
  ASSUME TypeOK, NEW t \in Threads, DispatchShutdown(t)
  PROVE  TypeOK'
<1>1. stack[t] # <<>>
  BY DEF DispatchShutdown, At
<1>2. Top(t).msg \in Msgs /\ held[t] \in Nat
  BY <1>1, TopType DEF TypeOK
<1>3. taken' \in Seq(Msgs)
  BY <1>2, AppendProperties DEF DispatchShutdown, TypeOK
<1>4. held' \in [Threads -> Nat]
  BY <1>2, StoreType DEF DispatchShutdown
<1>5. stack' \in [Threads -> Seq(Frames)]
  <2>1. Moved(t, "ack_flush") \in Seq(Frames) /\ Moved(t, "ack_done") \in Seq(Frames)
    BY <1>1, TopType, LabelsType
  <2> DEFINE n == held[t] + 1
  <2>a. n \in Nat
    BY <1>2
  <2> HIDE DEF n
  <2>2. Starting(Moved(t, "ack_flush"), n) \in Seq(Frames)
    BY <2>a, <2>1, LockingType
  <2>3. QED
    BY <2>1, <2>2, StoreType DEF DispatchShutdown, n
<1>6. QED
  BY <1>3, <1>4, <1>5 DEF TypeOK, DispatchShutdown, sync, local, env, hist

\* start() stores the stacks of both workers, or throws.
LEMMA StartType ==
  ASSUME TypeOK, NEW t \in Threads, Start(t)
  PROVE  TypeOK'
<1>1. stack[t] # <<>> /\ Top(t).todo # <<>> /\ held[t] \in Nat
  BY DEF Start, Calls, TypeOK
<1>2. /\ stack' \in [Threads -> Seq(Frames)]
      /\ held' \in [Threads -> Nat]
      /\ aborted' \in BOOLEAN
      /\ status' \in Statuses
  <2>1. CASE status = "CREATED"
    <3>1. /\ Frame("p_top", NoMsg, <<>>, 0) \in Frames
          /\ Frame("c_top", NoMsg, <<>>, 0) \in Frames
      <4>1. <<>> \in Seq(Ops)
        OBVIOUS
      <4>2. QED
        BY <4>1, FrameType, NoMsgType, LabelsType
    <3>2. /\ <<Frame("p_top", NoMsg, <<>>, 0)>> \in Seq(Frames)
          /\ <<Frame("c_top", NoMsg, <<>>, 0)>> \in Seq(Frames)
      BY <3>1
    <3>3. Begun(t) \in Seq(Frames)
      BY <1>1, BegunType
    <3>4. stack' = [stack EXCEPT ![t] = Begun(t),
                                 ![Producer] = <<Frame("p_top", NoMsg, <<>>, 0)>>,
                                 ![Consumer] = <<Frame("c_top", NoMsg, <<>>, 0)>>]
      BY <2>1 DEF Start
    <3>5. stack' \in [Threads -> Seq(Frames)]
      BY <3>2, <3>3, <3>4 DEF TypeOK
    <3>6. QED
      BY <2>1, <3>5 DEF Start, TypeOK, Statuses
  <2>2. CASE status # "CREATED"
    <3>1. Throw(t, Begun(t)) /\ Begun(t) \in Seq(Frames) /\ Begun(t) # <<>> /\ status' = status
      BY <1>1, <2>2, BegunType DEF Start
    <3>2. QED
      BY <3>1, ThrowType DEF TypeOK
  <2>3. QED
    BY <2>1, <2>2
<1>3. QED
  BY <1>2 DEF TypeOK, Start, sync, local, env, hist

\* The beginning of a send, an answer or a call keeps the types,
LEMMA CallSendType ==
  ASSUME TypeOK, NEW t \in Threads, CallSend(t)
  PROVE  TypeOK'
<1>1. stack[t] # <<>> /\ Top(t).todo # <<>> /\ held[t] \in Nat
  BY DEF CallSend, Calls, TypeOK
<1>2. stack' \in [Threads -> Seq(Frames)]
  <2>1. Top(t).msg \in Msgs
    BY <1>1, TopType
  <2>2. Msg("event", 0) \in Msgs /\ NoMsg \in Msgs /\ Msg("ret", Top(t).msg.id) \in Msgs
    BY <2>1, MsgType, NoMsgType DEF Headers, Msgs
  <2>3. PICK l \in {"send_flush", "rpc_flush"}, m \in Msgs :
               SetStack(t, Starting(Call(t, l, m), held[t]))
    BY <2>2 DEF CallSend
  <2>4. Call(t, l, m) \in Seq(Frames)
    BY <1>1, BegunType, LabelsType
  <2>5. QED
    BY <1>1, <2>3, <2>4, LockingType, StoreType
<1>3. QED
  BY <1>2 DEF TypeOK, CallSend, sync, local, env, hist

\* of do_synchronize,
LEMMA CallSyncType ==
  ASSUME TypeOK, NEW t \in Threads, CallSync(t)
  PROVE  TypeOK'
<1>1. stack[t] # <<>> /\ Top(t).todo # <<>> /\ held[t] \in Nat
  BY DEF CallSync, Calls, TypeOK
<1>2. stack' \in [Threads -> Seq(Frames)]
  <2> DEFINE f == Frame("sync_run", NoMsg, <<"rpc", "rpc">>, held[t])
  <2>1. <<"rpc", "rpc">> \in Seq(Ops)
    BY DEF Ops
  <2>2. f \in Frames
    BY <1>1, <2>1, FrameType, NoMsgType, LabelsType
  <2>3. SetStack(t, Locking(Append(Begun(t), f), held[t]))
    BY DEF CallSync
  <2> HIDE DEF f
  <2>4. Append(Begun(t), f) \in Seq(Frames)
    BY <1>1, <2>2, BegunType, AppendProperties
  <2>5. QED
    BY <1>1, <2>3, <2>4, LockingType, StoreType
<1>3. QED
  BY <1>2 DEF TypeOK, CallSync, sync, local, env, hist

\* of await_message and handle_message,
LEMMA CallAwaitType ==
  ASSUME TypeOK, NEW t \in Threads, CallAwait(t)
  PROVE  TypeOK'
<1>1. stack[t] # <<>> /\ Top(t).todo # <<>> /\ held[t] \in Nat
  BY DEF CallAwait, Calls, TypeOK
<1>2. /\ stack' \in [Threads -> Seq(Frames)]
      /\ held' \in [Threads -> Nat]
      /\ aborted' \in BOOLEAN
  <2>1. CASE status = "CREATED"
    <3>1. Throw(t, Begun(t)) /\ Begun(t) \in Seq(Frames) /\ Begun(t) # <<>>
      BY <1>1, <2>1, BegunType DEF CallAwait
    <3>2. QED
      BY <3>1, ThrowType
  <2>2. CASE status # "CREATED"
    <3> DEFINE g == Frame("await_pop", Msg("call", 0), <<>>, held[t])
    <3>1. Msg("call", 0) \in Msgs /\ <<>> \in Seq(Ops)
      BY MsgType DEF Headers
    <3>2. g \in Frames
      BY <1>1, <3>1, FrameType, LabelsType
    <3>3. /\ Call(t, "await_done", NoMsg) \in Seq(Frames)
          /\ Call(t, "handle_pop", Msg("call", 0)) \in Seq(Frames)
      BY <1>1, <3>1, BegunType, LabelsType, NoMsgType
    <3>4. PICK s \in {Append(Call(t, "await_done", NoMsg), g), Call(t, "handle_pop", Msg("call", 0))} :
            SetStack(t, Locking(s, held[t])) /\ UNCHANGED <<held, aborted>>
      BY <2>2 DEF CallAwait
    <3> HIDE DEF g
    <3>5. Append(Call(t, "await_done", NoMsg), g) \in Seq(Frames)
      BY <3>2, <3>3, AppendProperties
    <3>6. s \in Seq(Frames)
      BY <3>3, <3>4, <3>5
    <3>7. QED
      BY <1>1, <3>4, <3>6, LockingType, StoreType DEF TypeOK
  <2>3. QED
    BY <2>1, <2>2
<1>3. QED
  BY <1>2 DEF TypeOK, CallAwait, sync, local, env, hist

\* of a change of the handler table,
LEMMA CallHandlersType ==
  ASSUME TypeOK, NEW t \in Threads, CallHandlers(t)
  PROVE  TypeOK'
<1>1. stack[t] # <<>> /\ Top(t).todo # <<>> /\ held[t] \in Nat
  BY DEF CallHandlers, Calls, TypeOK
<1>2. stack' \in [Threads -> Seq(Frames)]
  <2>1. Msg("call", 0) \in Msgs
    BY MsgType DEF Headers
  <2>2. PICK l \in {"set_handler", "erase_handler", "clear_handlers"} :
               SetStack(t, Locking(Call(t, l, Msg("call", 0)), held[t]))
    BY DEF CallHandlers
  <2>3. Call(t, l, Msg("call", 0)) \in Seq(Frames)
    BY <1>1, <2>1, BegunType, LabelsType
  <2>4. QED
    BY <1>1, <2>2, <2>3, LockingType, StoreType
<1>3. QED
  BY <1>2 DEF TypeOK, CallHandlers, sync, local, env, hist

\* of shutdown(),
LEMMA CallShutdownType ==
  ASSUME TypeOK, NEW t \in Threads, CallShutdown(t)
  PROVE  TypeOK'
<1>1. stack[t] # <<>> /\ Top(t).todo # <<>> /\ held[t] \in Nat
  BY DEF CallShutdown, Calls, TypeOK
<1>2. /\ stack' \in [Threads -> Seq(Frames)]
      /\ held' \in [Threads -> Nat]
      /\ aborted' \in BOOLEAN
  <2>1. CASE status = "OPEN"
    <3>1. Msg("shutdown", 0) \in Msgs
      BY MsgType DEF Headers
    <3>2. Call(t, "shutdown_flush", Msg("shutdown", 0)) \in Seq(Frames)
      BY <1>1, <3>1, BegunType, LabelsType
    <3>3. QED
      BY <1>1, <2>1, <3>2, LockingType, StoreType DEF CallShutdown, TypeOK
  <2>2. CASE status # "OPEN"
    <3>1. Throw(t, Begun(t)) /\ Begun(t) \in Seq(Frames) /\ Begun(t) # <<>>
      BY <1>1, <2>2, BegunType DEF CallShutdown
    <3>2. QED
      BY <3>1, ThrowType
  <2>3. QED
    BY <2>1, <2>2
<1>3. QED
  BY <1>2 DEF TypeOK, CallShutdown, sync, local, env, hist

\* of close(),
LEMMA CallCloseType ==
  ASSUME TypeOK, NEW t \in Threads, CallClose(t)
  PROVE  TypeOK'
<1>1. stack[t] # <<>> /\ Top(t).todo # <<>> /\ held[t] \in Nat
  BY DEF CallClose, Calls, TypeOK
<1>2. Call(t, "close_stop", NoMsg) \in Seq(Frames)
  BY <1>1, BegunType, LabelsType, NoMsgType
<1>3. stack' \in [Threads -> Seq(Frames)]
  BY <1>2, StoreType DEF CallClose
<1>4. QED
  BY <1>3 DEF TypeOK, CallClose, sync, local, env, hist

\* its stop_threads,
LEMMA CloseStopType ==
  ASSUME TypeOK, NEW t \in Threads, CloseStop(t)
  PROVE  TypeOK'
<1>1. stack[t] # <<>>
  BY DEF CloseStop, At
<1>2. stack' \in [Threads -> Seq(Frames)]
  BY <1>1, LabelsType, MoveType DEF CloseStop
<1>3. QED
  BY <1>2 DEF TypeOK, CloseStop, sync, local, env, hist, StopThreads, Statuses

\* join(),
LEMMA JoinType ==
  ASSUME TypeOK, NEW t \in Threads, Join(t)
  PROVE  TypeOK'
<1>1. stack[t] # <<>> /\ Top(t).todo # <<>> /\ held[t] \in Nat
  BY DEF Join, Calls, TypeOK
<1>2. stack' \in [Threads -> Seq(Frames)]
  BY <1>1, BegunType, StoreType DEF Join
<1>3. QED
  BY <1>2 DEF TypeOK, Join, sync, local, env, hist

\* and the destructor, which goes on as close() and join().
LEMMA DestroyType ==
  ASSUME TypeOK, NEW t \in Threads, Destroy(t)
  PROVE  TypeOK'
<1>1. stack[t] # <<>> /\ Top(t).todo # <<>> /\ held[t] \in Nat
  BY DEF Destroy, Calls, TypeOK
<1>2. PICK td \in {<<"close", "join">>, <<"join">>} :
         SetStack(t, WithTop(stack[t], [Top(t) EXCEPT !.todo = td]))
  BY DEF Destroy
<1>3. td \in Seq(Ops)
  <2>1. "close" \in Ops /\ "join" \in Ops
    BY DEF Ops
  <2>2. <<"close", "join">> \in Seq(Ops)
    BY <2>1
  <2>3. <<"join">> \in Seq(Ops)
    BY <2>1
  <2>4. QED
    BY <2>2, <2>3, Zenon
<1> DEFINE f == [Top(t) EXCEPT !.todo = td]
<1>4. f \in Frames
  BY <1>1, <1>3, TopType DEF Frames
<1>5. stack' \in [Threads -> Seq(Frames)]
  <2> HIDE DEF f
  <2>1. WithTop(stack[t], f) \in Seq(Frames)
    BY <1>1, <1>4, TopType, WithTopProperties
  <2>2. QED
    BY <1>2, <2>1, StoreType DEF f
<1>6. QED
  BY <1>5 DEF TypeOK, Destroy, sync, local, env, hist

\* The head of producer_loop keeps the types,
LEMMA ProducerTopType ==
  ASSUME TypeOK, NEW t \in Threads, ProducerTop(t)
  PROVE  TypeOK'
<1>1. stack[t] # <<>>
  BY DEF ProducerTop, At
<1>2. <<>> \in Seq(Frames) /\ Moved(t, "p_read") \in Seq(Frames)
  BY <1>1, TopType, LabelsType
<1>3. stack' \in [Threads -> Seq(Frames)]
  BY <1>2, StoreType DEF ProducerTop
<1>4. QED
  BY <1>3 DEF TypeOK, ProducerTop, sync, local, env, hist

\* its read, good or failed,
LEMMA ProducerReadType ==
  ASSUME TypeOK, NEW t \in Threads, ProducerRead(t)
  PROVE  TypeOK'
<1>1. stack[t] # <<>>
  BY DEF ProducerRead, At
<1>2. stack' \in [Threads -> Seq(Frames)] /\ in_stream' \in Seq(Msgs)
  <2>1. CASE /\ in_stream # <<>>
             /\ SetStack(t, WithTop(stack[t], [Top(t) EXCEPT !.at = "p_push", !.msg = Head(in_stream)]))
             /\ in_stream' = Tail(in_stream)
    <3>1. Head(in_stream) \in Msgs /\ Tail(in_stream) \in Seq(Msgs)
      BY <2>1, HeadTailProperties DEF TypeOK
    <3> DEFINE f == [Top(t) EXCEPT !.at = "p_push", !.msg = Head(in_stream)]
    <3>2. f \in Frames
      BY <1>1, <3>1, TopType, LabelsType DEF Frames
    <3> HIDE DEF f
    <3>3. WithTop(stack[t], f) \in Seq(Frames)
      BY <1>1, <3>2, TopType, WithTopProperties
    <3>4. QED
      BY <2>1, <3>1, <3>3, StoreType DEF f
  <2>2. CASE SetStack(t, Moved(t, "close_stop")) /\ UNCHANGED in_stream
    <3>1. stack' \in [Threads -> Seq(Frames)]
      BY <1>1, <2>2, LabelsType, MoveType
    <3>2. QED
      BY <2>2, <3>1 DEF TypeOK
  <2>3. QED
    BY <2>1, <2>2 DEF ProducerRead, ReadFails
<1>3. QED
  BY <1>2 DEF TypeOK, ProducerRead, sync, local, env, hist

\* and its push into the queue.
LEMMA ProducerPushType ==
  ASSUME TypeOK, NEW t \in Threads, ProducerPush(t)
  PROVE  TypeOK'
<1>1. stack[t] # <<>>
  BY DEF ProducerPush, At
<1>2. <<>> \in Seq(Frames) /\ Moved(t, "p_top") \in Seq(Frames)
  BY <1>1, TopType, LabelsType
<1>3. stack' \in [Threads -> Seq(Frames)]
  BY <1>2, StoreType DEF ProducerPush, AfterPush
<1>4. queue' \in Seq(Msgs) /\ arrived' \in Seq(Msgs)
  BY <1>1, TopType, AppendProperties DEF ProducerPush, TypeOK
<1>5. QED
  BY <1>3, <1>4 DEF TypeOK, ProducerPush, sync, local, env, hist

\* The head of consumer_loop keeps the types,
LEMMA ConsumerTopType ==
  ASSUME TypeOK, NEW t \in Threads, ConsumerTop(t)
  PROVE  TypeOK'
<1>1. stack[t] # <<>>
  BY DEF ConsumerTop, At
<1>2. <<>> \in Seq(Frames) /\ Moved(t, "c_lock") \in Seq(Frames)
  BY <1>1, TopType, LabelsType
<1>3. stack' \in [Threads -> Seq(Frames)]
  BY <1>2, StoreType DEF ConsumerTop
<1>4. QED
  BY <1>3 DEF TypeOK, ConsumerTop, sync, local, env, hist

\* its lock,
LEMMA ConsumerLockType ==
  ASSUME TypeOK, NEW t \in Threads, ConsumerLock(t)
  PROVE  TypeOK'
<1>1. stack[t] # <<>>
  BY DEF ConsumerLock, At
<1>2. stack' \in [Threads -> Seq(Frames)]
  BY <1>1, LabelsType, MoveType DEF ConsumerLock
<1>3. held' \in [Threads -> Nat]
  <2>1. held[t] + 1 \in Nat
    BY <1>1, TopType DEF TypeOK
  <2>2. QED
    BY <2>1, StoreType DEF ConsumerLock
<1>4. QED
  BY <1>2, <1>3 DEF TypeOK, ConsumerLock, sync, local, env, hist

\* its yielding to waiting threads,
LEMMA ConsumerDeferType ==
  ASSUME TypeOK, NEW t \in Threads, ConsumerDefer(t)
  PROVE  TypeOK'
<1>1. stack[t] # <<>>
  BY DEF ConsumerDefer, At
<1>2. Moved(t, "c_top") \in Seq(Frames) /\ Moved(t, "c_queue") \in Seq(Frames)
  BY <1>1, TopType, LabelsType
<1>3. stack' \in [Threads -> Seq(Frames)] /\ held' \in [Threads -> Nat]
  BY <1>2, StoreType DEF ConsumerDefer, TypeOK
<1>4. QED
  BY <1>3 DEF TypeOK, ConsumerDefer, sync, local, env, hist

\* its return,
LEMMA ConsumerExitType ==
  ASSUME TypeOK, NEW t \in Threads, ConsumerExit(t)
  PROVE  TypeOK'
<1>1. stack[t] # <<>>
  BY DEF ConsumerExit, At
<1>2. <<>> \in Seq(Frames)
  OBVIOUS
<1>3. stack' \in [Threads -> Seq(Frames)] /\ held' \in [Threads -> Nat]
  BY <1>2, StoreType DEF ConsumerExit
<1>4. QED
  BY <1>3 DEF TypeOK, ConsumerExit, sync, local, env, hist

\* its wait for the queue,
LEMMA ConsumerWaitType ==
  ASSUME TypeOK, NEW t \in Threads, ConsumerWait(t)
  PROVE  TypeOK'
<1>1. stack[t] # <<>>
  BY DEF ConsumerWait, At
<1>2. stack' \in [Threads -> Seq(Frames)]
  BY <1>1, LabelsType, MoveType DEF ConsumerWait
<1>3. held' \in [Threads -> Nat]
  <2>1. 0 \in Nat
    BY <1>1, TopType DEF TypeOK
  <2>2. QED
    BY <2>1, StoreType DEF ConsumerWait
<1>4. QED
  BY <1>2, <1>3 DEF TypeOK, ConsumerWait, sync, local, env, hist

\* and the end of its body.
LEMMA ConsumerHandledType ==
  ASSUME TypeOK, NEW t \in Threads, ConsumerHandled(t)
  PROVE  TypeOK'
<1>1. stack[t] # <<>>
  BY DEF ConsumerHandled, At
<1>2. stack' \in [Threads -> Seq(Frames)]
  BY <1>1, LabelsType, MoveType DEF ConsumerHandled
<1>3. held' \in [Threads -> Nat]
  <2>1. 0 \in Nat
    BY <1>1, TopType DEF TypeOK
  <2>2. QED
    BY <2>1, StoreType DEF ConsumerHandled
<1>4. QED
  BY <1>2, <1>3 DEF TypeOK, ConsumerHandled, sync, local, env, hist

\* A spurious wake-up shrinks the wait sets.
LEMMA SpuriousWakeupType ==
  ASSUME TypeOK, NEW t \in Threads, SpuriousWakeup(t)
  PROVE  TypeOK'
BY BoundsAssumption DEF TypeOK, SpuriousWakeup, sync, local, env, hist

\* The peer and the connection change the streams and their counters only.
LEMMA EnvironmentType ==
  ASSUME TypeOK, Environment
  PROVE  TypeOK'
<1>1. Msg("shutdown", 0) \in Msgs /\ Msg("call", peer_calls + 1) \in Msgs /\ peer_calls \in Nat
  BY MsgType DEF Headers, TypeOK
<1>2. CASE PeerTake
  <2>1. Head(out_stream) \in Msgs /\ Tail(out_stream) \in Seq(Msgs)
    BY <1>2, HeadTailProperties DEF PeerTake, TypeOK
  <2>2. Msg("ret", Head(out_stream).id) \in Msgs
    BY <2>1, MsgType DEF Headers, Msgs
  <2>3. in_stream' \in Seq(Msgs)
    BY <1>1, <1>2, <2>2, AppendProperties DEF PeerTake, TypeOK
  <2>4. QED
    BY <1>2, <2>1, <2>3 DEF PeerTake, TypeOK, sync, local, env, hist
<1>3. CASE PeerCall
  <2>1. in_stream' \in Seq(Msgs)
    BY <1>1, <1>3, AppendProperties DEF PeerCall, TypeOK
  <2>2. QED
    BY <1>1, <1>3, <2>1 DEF PeerCall, TypeOK, sync, local, env, hist
<1>4. CASE PeerShutdown
  <2>1. in_stream' \in Seq(Msgs)
    BY <1>1, <1>4, AppendProperties DEF PeerShutdown, TypeOK
  <2>2. QED
    BY <1>4, <2>1 DEF PeerShutdown, TypeOK, sync, local, env, hist
<1>5. CASE ConnectionBreaks
  BY <1>5 DEF ConnectionBreaks, TypeOK, sync, local, env, hist
<1>6. QED
  BY <1>2, <1>3, <1>4, <1>5 DEF Environment

\* Type correctness: every variable keeps its type, for any users, scripts and bounds.
THEOREM TypeCorrect == Spec => []TypeOK
<1>1. Init => TypeOK
  <2> SUFFICES ASSUME Init PROVE TypeOK
    OBVIOUS
  <2>1. PICK scripts \in [Users -> UNION {UserScripts[u] : u \in Users}] :
          /\ \A u \in Users : scripts[u] \in UserScripts[u]
          /\ stack = [t \in Threads |->
                       IF t \in Users THEN <<Frame("idle", NoMsg, scripts[t], 0)>> ELSE <<>>]
    BY DEF Init
  <2>2. ASSUME NEW u \in Users PROVE <<Frame("idle", NoMsg, scripts[u], 0)>> \in Seq(Frames)
    <3>1. scripts[u] \in Seq(Ops)
      BY <2>1, ScriptsAssumption, SeqMonotonic
    <3>2. Frame("idle", NoMsg, scripts[u], 0) \in Frames
      BY <3>1, FrameType, NoMsgType, LabelsType
    <3>3. QED
      BY <3>2
  <2>3. stack \in [Threads -> Seq(Frames)]
    BY <2>1, <2>2
  <2>4. held \in [Threads -> Nat]
    BY DEF Init
  <2>5. /\ queue \in Seq(Msgs) /\ in_stream \in Seq(Msgs) /\ out_stream \in Seq(Msgs)
        /\ arrived \in Seq(Msgs) /\ taken \in Seq(Msgs)
    BY DEF Init
  <2>6. num_waiting \in Int /\ next_id \in Nat /\ peer_calls \in Nat /\ spurious \in Nat
    BY DEF Init
  <2>7. QED
    BY <2>3, <2>4, <2>5, <2>6, Zenon DEF Init, TypeOK, Statuses, Headers
<1>2. TypeOK /\ [Next]_vars => TypeOK'
  <2> SUFFICES ASSUME TypeOK, [Next]_vars PROVE TypeOK'
    OBVIOUS
  <2>1. ASSUME NEW t \in Threads, Step(t) PROVE TypeOK'
    BY <2>1, LockCountType, LockAcquireType, LockCountedType, StartCheckType,
     FlushFailsType, SendFlushType, SendDoneType, RpcFlushType, RpcDoneType,
     AwaitClosedType, AwaitBlocksType, AwaitMatchType, AwaitOtherType,
     HandleTakeType, AwaitDoneType, DispatchToHandlerType, DispatchIgnoredType,
     DispatchShutdownType, AckFlushType, AckDoneType, HandlerReturnType, StartType,
     CallSendType, CallSyncType, SyncDoneType, CallAwaitType, CallHandlersType,
     SetHandlersType, CallShutdownType, ShutdownFlushType, ShutdownMarkType,
     CallCloseType, CloseStopType, CloseStreamType, JoinType, DestroyType,
     ProducerTopType, ProducerReadType, ProducerPushType, ConsumerTopType,
     ConsumerLockType, ConsumerDeferType, ConsumerExitType, ConsumerTakeType,
     ConsumerWaitType, ConsumerHandledType DEF Step
  <2>2. ASSUME NEW t \in Threads, SpuriousWakeup(t) PROVE TypeOK'
    BY <2>2, SpuriousWakeupType
  <2>3. CASE Environment
    BY <2>3, EnvironmentType
  <2>4. CASE Finished \/ UNCHANGED vars
    BY <2>4 DEF Finished, vars, sync, local, env, hist, TypeOK
  <2>5. QED
    BY <2>1, <2>2, <2>3, <2>4 DEF Next
<1>3. QED
  BY <1>1, <1>2, PTL DEF Spec

-----------------------------------------------------------------------------
(* No wake-up is lost                                                      *)

\* The steps that neither wait, nor notify, nor touch what is waited for.
LEMMA WaitersUnchanged ==
  ASSUME NoLostWakeup, UNCHANGED <<status, queue, queue_cv, num_waiting, num_waiting_cv>>
  PROVE  NoLostWakeup'
BY DEF NoLostWakeup

\* A thread inside lock_message_mutex: the count is raised before the mutex is requested,
\* and the thread that brings it to zero notifies.
LEMMA LockKeepsWakeups ==
  ASSUME TypeOK, NoLostWakeup, NEW t \in Threads, LockCount(t) \/ LockCounted(t)
  PROVE  NoLostWakeup'
<1>1. num_waiting \in Int
  BY DEF TypeOK
<1>2. CASE LockCount(t)
  BY <1>1, <1>2 DEF NoLostWakeup, LockCount
<1>3. CASE LockCounted(t)
  BY <1>1, <1>3 DEF NoLostWakeup, LockCounted, CountedOut
<1>4. QED
  BY <1>2, <1>3

\* Taking a message from the queue: nobody waits for a queue that holds one.
LEMMA TakeKeepsWakeups ==
  ASSUME NoLostWakeup, NEW t \in Threads,
         AwaitMatch(t) \/ AwaitOther(t) \/ HandleTake(t) \/ ConsumerTake(t)
  PROVE  NoLostWakeup'
<1>1. /\ queue # <<>>
      /\ UNCHANGED <<status, queue_cv, num_waiting, num_waiting_cv>>
  BY DEF AwaitMatch, AwaitOther, HandleTake, ConsumerTake, sync
<1>2. QED
  BY <1>1 DEF NoLostWakeup

\* The steps that enter a wait on the queue test it and the status in the same critical
\* section; those that change the queue or the status wake everyone, or cannot close.
LEMMA QueueKeepsWakeups ==
  ASSUME NoLostWakeup, NEW t \in Threads,
         \/ AwaitBlocks(t) \/ ConsumerWait(t) \/ ProducerPush(t) \/ AckDone(t)
         \/ CloseStop(t) \/ ShutdownMark(t) \/ Start(t)
  PROVE  NoLostWakeup'
<1>1. UNCHANGED <<num_waiting, num_waiting_cv>>
  BY DEF AwaitBlocks, ConsumerWait, ProducerPush, AckDone, CloseStop, ShutdownMark, Start, sync
<1>2. queue_cv' # {} => queue' = <<>> /\ status' # "CLOSED"
  <2>1. CASE AwaitBlocks(t) \/ ConsumerWait(t)
    BY <2>1 DEF AwaitBlocks, ConsumerWait
  <2>2. CASE ProducerPush(t) \/ AckDone(t) \/ CloseStop(t)
    BY <2>2 DEF ProducerPush, AckDone, CloseStop, StopThreads
  <2>3. CASE ShutdownMark(t)
    BY <2>3 DEF NoLostWakeup, ShutdownMark
  <2>4. CASE Start(t)
    BY <2>4 DEF NoLostWakeup, Start
  <2>5. QED
    BY <2>1, <2>2, <2>3, <2>4
<1>3. QED
  BY <1>1, <1>2 DEF NoLostWakeup

\* The consumer yields the message lock, or a waiter wakes for no reason.
LEMMA YieldKeepsWakeups ==
  ASSUME NoLostWakeup, NEW t \in Threads, ConsumerDefer(t) \/ SpuriousWakeup(t)
  PROVE  NoLostWakeup'
<1>1. CASE ConsumerDefer(t)
  BY <1>1 DEF NoLostWakeup, ConsumerDefer
<1>2. CASE SpuriousWakeup(t)
  BY <1>2 DEF NoLostWakeup, SpuriousWakeup
<1>3. QED
  BY <1>1, <1>2

\* No wake-up is lost: whoever sleeps on queue_cv sleeps on an empty queue of a transport
\* that is not closed, and the consumer sleeps on num_waiting_cv only while a thread is
\* still counted in num_waiting; for any users, scripts and bounds.
THEOREM NoWakeupIsLost == Spec => []NoLostWakeup
<1>1. Init => NoLostWakeup
  BY DEF Init, NoLostWakeup
<1>2. TypeOK /\ NoLostWakeup /\ [Next]_vars => NoLostWakeup'
  <2> SUFFICES ASSUME TypeOK, NoLostWakeup, [Next]_vars PROVE NoLostWakeup'
    OBVIOUS
  <2> DEFINE Kept == UNCHANGED <<status, queue, queue_cv, num_waiting, num_waiting_cv>>
  <2>1. ASSUME NEW t \in Threads, Step(t) PROVE NoLostWakeup'
    <3>1. CASE LockCount(t) \/ LockCounted(t)
      BY <3>1, LockKeepsWakeups
    <3>2. CASE AwaitMatch(t) \/ AwaitOther(t) \/ HandleTake(t) \/ ConsumerTake(t)
      BY <3>2, TakeKeepsWakeups
    <3>3. CASE \/ AwaitBlocks(t) \/ ConsumerWait(t) \/ ProducerPush(t) \/ AckDone(t)
               \/ CloseStop(t) \/ ShutdownMark(t) \/ Start(t)
      BY <3>3, QueueKeepsWakeups
    <3>4. CASE ConsumerDefer(t)
      BY <3>4, YieldKeepsWakeups
    <3>5. CASE \/ LockAcquire(t) \/ StartCheck(t) \/ FlushFails(t) \/ SendFlush(t)
               \/ SendDone(t) \/ RpcFlush(t) \/ RpcDone(t) \/ AwaitClosed(t) \/ AwaitDone(t)
               \/ DispatchToHandler(t) \/ DispatchIgnored(t) \/ DispatchShutdown(t)
               \/ AckFlush(t) \/ HandlerReturn(t)
      <4>1. Kept
        BY <3>5 DEF LockAcquire, StartCheck, FlushFails, SendFlush, SendDone, RpcFlush,
          RpcDone, AwaitClosed, AwaitDone, DispatchToHandler, DispatchIgnored,
          DispatchShutdown, AckFlush, HandlerReturn, sync
      <4>2. QED
        BY <4>1, WaitersUnchanged
    <3>6. CASE \/ CallSend(t) \/ CallSync(t) \/ SyncDone(t) \/ CallAwait(t) \/ CallHandlers(t)
               \/ SetHandlers(t) \/ CallShutdown(t) \/ ShutdownFlush(t) \/ CallClose(t)
               \/ CloseStream(t) \/ Join(t) \/ Destroy(t)
      <4>1. Kept
        BY <3>6 DEF CallSend, CallSync, SyncDone, CallAwait, CallHandlers, SetHandlers,
          CallShutdown, ShutdownFlush, CallClose, CloseStream, Join, Destroy, sync
      <4>2. QED
        BY <4>1, WaitersUnchanged
    <3>7. CASE \/ ProducerTop(t) \/ ProducerRead(t) \/ ConsumerTop(t) \/ ConsumerLock(t)
               \/ ConsumerExit(t) \/ ConsumerHandled(t)
      <4>1. Kept
        BY <3>7 DEF ProducerTop, ProducerRead, ConsumerTop, ConsumerLock, ConsumerExit,
          ConsumerHandled, sync
      <4>2. QED
        BY <4>1, WaitersUnchanged
    <3>8. QED
      BY <2>1, <3>1, <3>2, <3>3, <3>4, <3>5, <3>6, <3>7, Zenon DEF Step
  <2>2. ASSUME NEW t \in Threads, SpuriousWakeup(t) PROVE NoLostWakeup'
    BY <2>2, YieldKeepsWakeups
  <2>3. CASE Environment \/ Finished \/ UNCHANGED vars
    <3>1. Kept
      BY <2>3 DEF Environment, PeerTake, PeerCall, PeerShutdown, ConnectionBreaks, Finished,
        vars, sync
    <3>2. QED
      BY <3>1, WaitersUnchanged
  <2>4. QED
    BY <2>1, <2>2, <2>3 DEF Next
<1>3. QED
  BY <1>1, <1>2, TypeCorrect, PTL DEF Spec


-----------------------------------------------------------------------------
(* Waits and the close                                                     *)

\* Once closed, the status stays CLOSED.
ClosedStays == closed_once => status = "CLOSED"

\* shutdown() stores its status in a transport that has been closed in the meantime.
Reopens == status = "CLOSED" /\ \E t \in Threads : ShutdownMark(t)

\* shutdown()'s blind store is the only thing that can make a thread wait for the queue of a
\* closed transport: unless it overwrites CLOSED, no thread falls into a wait after the
\* close, for any users, scripts, handlers and peers, and whoever closes.
THEOREM OnlyShutdownReopens == Spec /\ [][~Reopens]_vars => NoWaitAfterClosed
<1>1. Init => ClosedStays
  BY DEF Init, ClosedStays
<1>2. ASSUME ClosedStays, [Next]_vars, [~Reopens]_vars
      PROVE  ClosedStays' /\ [closed_once => queue_cv' \subseteq queue_cv]_vars
  <2> DEFINE Good == ClosedStays' /\ (closed_once => queue_cv' \subseteq queue_cv)
  <2> SUFFICES Good
    OBVIOUS
  <2>1. ASSUME UNCHANGED <<status, closed_once>>, queue_cv' \subseteq queue_cv PROVE Good
    BY <1>2, <2>1 DEF ClosedStays
  <2>2. ASSUME NEW t \in Threads, Step(t) PROVE Good
    <3>1. CASE \/ LockCount(t) \/ LockAcquire(t) \/ LockCounted(t) \/ StartCheck(t)
               \/ FlushFails(t) \/ SendFlush(t) \/ SendDone(t) \/ RpcFlush(t) \/ RpcDone(t)
               \/ AwaitClosed(t) \/ AwaitMatch(t) \/ AwaitOther(t) \/ HandleTake(t)
               \/ AwaitDone(t)
      <4>1. UNCHANGED <<status, queue_cv, closed_once>>
        BY <3>1 DEF LockCount, LockAcquire, LockCounted, StartCheck, FlushFails, SendFlush,
          SendDone, RpcFlush, RpcDone, AwaitClosed, AwaitMatch, AwaitOther, HandleTake,
          AwaitDone, sync, hist
      <4>2. QED
        BY <2>1, <4>1
    <3>2. CASE \/ DispatchToHandler(t) \/ DispatchIgnored(t) \/ DispatchShutdown(t)
               \/ AckFlush(t) \/ HandlerReturn(t) \/ CallSend(t) \/ CallSync(t)
               \/ SyncDone(t) \/ CallAwait(t) \/ CallHandlers(t) \/ SetHandlers(t)
      <4>1. UNCHANGED <<status, queue_cv, closed_once>>
        BY <3>2 DEF DispatchToHandler, DispatchIgnored, DispatchShutdown, AckFlush,
          HandlerReturn, CallSend, CallSync, SyncDone, CallAwait, CallHandlers, SetHandlers,
          sync, hist
      <4>2. QED
        BY <2>1, <4>1
    <3>3. CASE \/ CallShutdown(t) \/ ShutdownFlush(t) \/ CallClose(t) \/ CloseStream(t)
               \/ Join(t) \/ Destroy(t) \/ ProducerTop(t) \/ ProducerRead(t)
               \/ ConsumerTop(t) \/ ConsumerLock(t) \/ ConsumerDefer(t) \/ ConsumerExit(t)
               \/ ConsumerTake(t) \/ ConsumerHandled(t)
      <4>1. UNCHANGED <<status, queue_cv, closed_once>>
        BY <3>3 DEF CallShutdown, ShutdownFlush, CallClose, CloseStream, Join, Destroy,
          ProducerTop, ProducerRead, ConsumerTop, ConsumerLock, ConsumerDefer, ConsumerExit,
          ConsumerTake, ConsumerHandled, sync, hist
      <4>2. QED
        BY <2>1, <4>1
    <3>4. CASE ProducerPush(t)
      BY <2>1, <3>4 DEF ProducerPush
    <3>5. CASE AwaitBlocks(t) \/ ConsumerWait(t)
      <4>1. status # "CLOSED" /\ UNCHANGED <<status, closed_once>>
        BY <3>5 DEF AwaitBlocks, ConsumerWait, hist
      <4>2. QED
        BY <1>2, <4>1 DEF ClosedStays
    <3>6. CASE AckDone(t) \/ CloseStop(t)
      <4>1. StopThreads
        BY <3>6 DEF AckDone, CloseStop
      <4>2. QED
        BY <4>1 DEF StopThreads, ClosedStays
    <3>7. CASE Start(t)
      <4>1. UNCHANGED <<queue_cv, closed_once>> /\ (status = "CREATED" \/ UNCHANGED status)
        BY <3>7 DEF Start, hist
      <4>2. QED
        BY <1>2, <4>1 DEF ClosedStays
    <3>8. CASE ShutdownMark(t)
      <4>1. UNCHANGED <<queue_cv, closed_once>> /\ status' = "WRITE_CLOSED"
        BY <3>8 DEF ShutdownMark, hist
      <4>2. status # "CLOSED"
        BY <1>2, <3>8, <4>1 DEF Reopens, vars
      <4>3. QED
        BY <1>2, <4>1, <4>2 DEF ClosedStays
    <3>9. QED
      BY <2>2, <3>1, <3>2, <3>3, <3>4, <3>5, <3>6, <3>7, <3>8, Zenon DEF Step
  <2>3. ASSUME NEW t \in Threads, SpuriousWakeup(t) PROVE Good
    BY <2>1, <2>3 DEF SpuriousWakeup, hist
  <2>4. CASE Environment \/ Finished \/ UNCHANGED vars
    BY <2>1, <2>4 DEF Environment, PeerTake, PeerCall, PeerShutdown, ConnectionBreaks,
      Finished, vars, sync, hist
  <2>5. QED
    BY <1>2, <2>2, <2>3, <2>4 DEF Next
<1>3. QED
  BY <1>1, <1>2, PTL DEF Spec, NoWaitAfterClosed

=============================================================================
