------------------------ MODULE TransportAnswerProofs ------------------------
(***************************************************************************)
(* A remote procedure call gets its own answer.  Proved for handlers that  *)
(* make no calls and await no messages, as none of the handlers the        *)
(* repository registers does: an answer that arrives while such a handler  *)
(* awaits one of its own would go to the wrong caller.                     *)
(*                                                                         *)
(* And the process is never terminated when one user starts, uses, shuts   *)
(* down and ends the transport in turn while the others listen, with a     *)
(* peer that leaves the shutdown to it over a connection that lasts.       *)
(***************************************************************************)
EXTENDS TransportOrderProofs

\* The operations of a handler that neither calls nor awaits.
Calm == {"send", "register", "unregister", "clear", "reply", "shutdown", "close"}
CalmHandlers == HandlerScripts \subseteq Seq(Calm)

-----------------------------------------------------------------------------
(* The shape of a stack with a call that waits for its answer              *)

\* Where calls made while await_message handles another message can stand.
Above == {"dispatch", "handler", "ack_flush", "ack_done", "send_flush", "send_done",
          "shutdown_flush", "shutdown_mark", "close_stop", "close_stream", "set_handler",
          "erase_handler", "clear_handlers", "start_check", "lock_count", "lock_acquire",
          "lock_counted"}

\* Call f may stand directly above a remote procedure call, and higher above it.
Answering(f) == f.at = "await_pop" /\ f.msg.header = "ret" /\ f.base > 0
Nested(f) == f.at \in Above /\ (f.at = "dispatch" => f.msg.header # "ret")

\* What a caller still does: nothing that waits in a handler, only rpcs in do_synchronize;
\* what is sent without waiting for an answer is no call.
Behaves(f) ==
  /\ f.at = "handler" => f.todo \in Seq(Calm)
  /\ f.at = "sync_run" => f.todo \in Seq({"rpc"})
  /\ f.at \in {"send_flush", "shutdown_flush"} => f.msg.header # "call"

\* A remote procedure call awaits its answer itself, and nothing above it awaits; the
\* producer calls nothing while it holds a message.
Shaped(s) ==
  /\ \A i, j \in 1 .. Len(s) : i < j /\ s[i].at = "rpc_done" =>
       /\ j = i + 1 => Answering(s[j])
       /\ j > i + 1 => Nested(s[j])
  /\ \A i \in 1 .. Len(s) :
       (s[i].at = "idle" => i = 1) /\ (s[i].at = "p_push" => i = Len(s)) /\ Behaves(s[i])

\* A remote procedure call in s still waits for its answer.
Waits(s) == \E i \in 1 .. Len(s) : i < Len(s) /\ s[i].at = "rpc_done"

\* The remote procedure calls in r are in s too, waiting in one if in the other.
Kept(s, r) ==
  \A i \in 1 .. Len(r) : r[i].at = "rpc_done" =>
    i <= Len(s) /\ s[i].at = "rpc_done" /\ s[i].msg = r[i].msg /\ (i = Len(r) <=> i = Len(s))

\* Stack r comes from s by a step that neither answers nor abandons a call.
Follows(s, r) == Shaped(r) /\ Kept(s, r) /\ (Waits(s) => Waits(r))

\* To keep the calls is reflexive and transitive.
LEMMA KeptOn ==
  ASSUME NEW s \in Seq(Frames), NEW r \in Seq(Frames), NEW q \in Seq(Frames)
  PROVE  Kept(s, s) /\ (Kept(s, r) /\ Kept(r, q) => Kept(s, q))
<1>1. Len(s) \in Nat /\ Len(r) \in Nat /\ Len(q) \in Nat
  BY LenProperties
<1>2. Kept(s, s)
  BY <1>1 DEF Kept
<1>3. Kept(s, r) /\ Kept(r, q) => Kept(s, q)
  BY <1>1 DEF Kept
<1>4. QED
  BY <1>2, <1>3

\* Steps of that kind compose.
LEMMA FollowsOn ==
  ASSUME NEW s \in Seq(Frames), NEW r \in Seq(Frames), NEW q \in Seq(Frames),
         Follows(s, r), Follows(r, q)
  PROVE  Follows(s, q)
BY KeptOn DEF Follows

\* The innermost call goes on.
LEMMA ShapedOn ==
  ASSUME NEW s \in Seq(Frames), s # <<>>, Shaped(s), NEW f \in Frames, Behaves(f),
         s[Len(s)].at # "await_pop", s[Len(s)].at \in Above => f.at \in Above,
         f.at # "dispatch", f.at = "idle" => s[Len(s)].at = "idle"
  PROVE  /\ Shaped(WithTop(s, f))
         /\ f.at # "rpc_done" /\ s[Len(s)].at # "rpc_done" => Follows(s, WithTop(s, f))
<1>1. PICK r : r = WithTop(s, f)
  OBVIOUS
<1>2. /\ r \in Seq(Frames) /\ Len(r) = Len(s) /\ r[Len(s)] = f
      /\ \A i \in 1 .. Len(s) - 1 : r[i] = s[i]
  <2>1. /\ WithTop(s, f) \in Seq(Frames)
        /\ Len(WithTop(s, f)) = Len(s) /\ WithTop(s, f)[Len(s)] = f
    BY WithTopProperties, Zenon
  <2>2. \A i \in 1 .. Len(s) - 1 : WithTop(s, f)[i] = s[i]
    BY WithTopProperties
  <2>3. QED
    BY <1>1, <2>1, <2>2
<1>3. Len(s) \in Nat \ {0}
  BY UnderProperties
<1>4. ASSUME NEW i \in 1 .. Len(r), NEW j \in 1 .. Len(r), i < j, r[i].at = "rpc_done"
      PROVE  (j = i + 1 => Answering(r[j])) /\ (j > i + 1 => Nested(r[j]))
  <2>1. r[i] = s[i] /\ i \in 1 .. Len(s) /\ j \in 1 .. Len(s)
    BY <1>2, <1>3, <1>4
  <2>2. CASE j < Len(s)
    BY <1>2, <1>3, <1>4, <2>1, <2>2 DEF Shaped
  <2>3. CASE j = Len(s)
    <3>1. (j = i + 1 => Answering(s[j])) /\ (j > i + 1 => Nested(s[j]))
      BY <1>4, <2>1 DEF Shaped
    <3>2. j # i + 1
      BY <2>3, <3>1 DEF Answering
    <3>3. j > i + 1
      BY <1>3, <1>4, <2>1, <3>2
    <3>4. s[Len(s)].at \in Above
      BY <2>3, <3>1, <3>3 DEF Nested
    <3>5. QED
      BY <1>2, <2>3, <3>2, <3>4 DEF Nested
  <2>4. QED
    BY <1>2, <1>3, <2>2, <2>3
<1>5. ASSUME NEW i \in 1 .. Len(r)
      PROVE  (r[i].at = "idle" => i = 1) /\ (r[i].at = "p_push" => i = Len(r)) /\ Behaves(r[i])
  <2>1. CASE i < Len(s)
    BY <1>2, <1>3, <2>1 DEF Shaped
  <2>2. CASE i = Len(s)
    BY <1>2, <1>3, <2>2 DEF Shaped
  <2>3. QED
    BY <1>2, <1>3, <2>1, <2>2
<1>6. Shaped(r)
  BY <1>4, <1>5 DEF Shaped
<1>7. ASSUME f.at # "rpc_done", s[Len(s)].at # "rpc_done" PROVE Kept(s, r) /\ (Waits(s) => Waits(r))
  BY <1>2, <1>3, <1>7 DEF Kept, Waits
<1>8. QED
  BY <1>1, <1>6, <1>7 DEF Follows

\* A call is made.
LEMMA ShapedInto ==
  ASSUME NEW s \in Seq(Frames), s # <<>>, Shaped(s), NEW f \in Frames, Behaves(f),
         s[Len(s)].at = "rpc_done" => Answering(f),
         Answering(s[Len(s)]) \/ Nested(s[Len(s)]) => Nested(f),
         f.at # "idle", s[Len(s)].at # "p_push"
  PROVE  /\ Shaped(Append(s, f))
         /\ f.at # "rpc_done" /\ s[Len(s)].at # "rpc_done" => Follows(s, Append(s, f))
<1>1. PICK r : r = Append(s, f)
  OBVIOUS
<1>2. /\ r \in Seq(Frames) /\ Len(s) \in Nat \ {0}
      /\ Len(r) = Len(s) + 1 /\ r[Len(s) + 1] = f
      /\ \A i \in 1 .. Len(s) : r[i] = s[i]
  BY <1>1, PushProperties, UnderProperties
<1>3. ASSUME NEW i \in 1 .. Len(r), NEW j \in 1 .. Len(r), i < j, r[i].at = "rpc_done"
      PROVE  (j = i + 1 => Answering(r[j])) /\ (j > i + 1 => Nested(r[j]))
  <2>1. r[i] = s[i] /\ i \in 1 .. Len(s)
    BY <1>2, <1>3
  <2>2. CASE j <= Len(s)
    BY <1>2, <1>3, <2>1, <2>2 DEF Shaped
  <2>3. CASE j = Len(s) + 1 /\ i = Len(s)
    BY <1>2, <1>3, <2>1, <2>3
  <2>4. CASE j = Len(s) + 1 /\ i # Len(s)
    <3>1. i < Len(s) /\ Len(s) \in 1 .. Len(s) /\ (Len(s) = i + 1 \/ Len(s) > i + 1)
      BY <1>2, <2>1, <2>4
    <3>2. Answering(s[Len(s)]) \/ Nested(s[Len(s)])
      BY <1>3, <2>1, <3>1 DEF Shaped
    <3>3. QED
      BY <1>2, <2>1, <2>4, <3>2
  <2>5. QED
    BY <1>2, <2>2, <2>3, <2>4
<1>4. ASSUME NEW i \in 1 .. Len(r)
      PROVE  (r[i].at = "idle" => i = 1) /\ (r[i].at = "p_push" => i = Len(r)) /\ Behaves(r[i])
  <2>1. CASE i <= Len(s)
    BY <1>2, <2>1 DEF Shaped
  <2>2. CASE i = Len(s) + 1
    BY <1>2, <2>2
  <2>3. QED
    BY <1>2, <2>1, <2>2
<1>5. Shaped(r)
  BY <1>3, <1>4 DEF Shaped
<1>6. ASSUME f.at # "rpc_done", s[Len(s)].at # "rpc_done" PROVE Kept(s, r) /\ (Waits(s) => Waits(r))
  <2>1. Kept(s, r)
    BY <1>2, <1>6 DEF Kept
  <2>2. ASSUME Waits(s) PROVE Waits(r)
    BY <1>2, <2>2 DEF Waits
  <2>3. QED
    BY <2>1, <2>2
<1>7. QED
  BY <1>1, <1>5, <1>6 DEF Follows

\* The k outermost calls of a stack, where the next one is not an await.
LEMMA ShapedOut ==
  ASSUME NEW s \in Seq(Frames), Shaped(s), NEW k \in Nat, k < Len(s),
         s[k + 1].at # "await_pop"
  PROVE  /\ Shaped(SubSeq(s, 1, k)) /\ Kept(s, SubSeq(s, 1, k))
         /\ \A i \in 1 .. k : SubSeq(s, 1, k)[i].at # "p_push"
<1>1. PICK r : r = SubSeq(s, 1, k)
  OBVIOUS
<1>2. Len(s) \in Nat /\ k <= Len(s) /\ k + 1 \in 1 .. Len(s)
  BY LenProperties
<1>3. Len(r) = k /\ \A i \in 1 .. k : r[i] = s[i]
  BY <1>1, <1>2, PrefixProperties
<1>4. Shaped(r)
  BY <1>2, <1>3 DEF Shaped
<1>5. ASSUME NEW i \in 1 .. Len(r), r[i].at = "rpc_done"
      PROVE  /\ i <= Len(s) /\ s[i].at = "rpc_done" /\ s[i].msg = r[i].msg
             /\ i = Len(r) <=> i = Len(s)
  <2>1. i \in 1 .. Len(s) /\ i < k + 1 /\ s[i] = r[i]
    BY <1>2, <1>3, <1>5
  <2>2. i = k => Answering(s[k + 1])
    BY <1>2, <1>5, <2>1 DEF Shaped
  <2>3. i # k
    BY <2>2 DEF Answering
  <2>4. QED
    BY <1>2, <1>3, <1>5, <2>1, <2>3
<1>6. \A i \in 1 .. k : r[i].at # "p_push"
  BY <1>2, <1>3 DEF Shaped
<1>7. Kept(s, r)
  BY <1>5 DEF Kept
<1>8. QED
  BY <1>1, <1>4, <1>6, <1>7

\* The innermost call, that is not an await, returns.
LEMMA ShapedBack ==
  ASSUME NEW s \in Seq(Frames), s # <<>>, Shaped(s), s[Len(s)].at # "await_pop"
  PROVE  /\ Follows(s, Under(s))
         /\ \A i \in 1 .. Len(Under(s)) : Under(s)[i].at # "p_push"
<1>1. PICK k \in Nat : k + 1 = Len(s) /\ k < Len(s) /\ k = Len(s) - 1
  BY UnderProperties
<1>2. Shaped(SubSeq(s, 1, k)) /\ Kept(s, SubSeq(s, 1, k))
  BY <1>1, ShapedOut
<1>3. PICK r : r = Under(s)
  OBVIOUS
<1>4. r = SubSeq(s, 1, k)
  BY <1>1, <1>3 DEF Under
<1>5. Len(r) = k /\ \A i \in 1 .. k : r[i] = s[i]
  BY <1>1, <1>4, PrefixProperties
<1>6. ASSUME Waits(s) PROVE Waits(r)
  <2>1. PICK i \in 1 .. Len(s) : i < Len(s) /\ s[i].at = "rpc_done"
    BY <1>6 DEF Waits
  <2>2. i = k => Answering(s[Len(s)])
    <3>1. Len(s) \in 1 .. Len(s)
      BY <1>1
    <3>2. QED
      BY <1>1, <2>1, <3>1 DEF Shaped
  <2>3. i # k
    BY <2>2 DEF Answering
  <2>4. i < k /\ i \in 1 .. k
    <3>1. i \in Int /\ 1 <= i /\ i < k + 1
      BY <1>1, <2>1
    <3>2. QED
      BY <2>3, <3>1
  <2>5. QED
    BY <1>5, <2>1, <2>4 DEF Waits
<1>7. \A i \in 1 .. Len(r) : r[i].at # "p_push"
  BY <1>1, <1>4, <1>5, ShapedOut
<1>8. QED
  BY <1>2, <1>3, <1>4, <1>6, <1>7 DEF Follows

-----------------------------------------------------------------------------
(* The call in flight                                                      *)

\* Messages of header h in a sequence: there is one, there is at most one, all have id n.
Has(q, h) == \E i \in 1 .. Len(q) : q[i].header = h
One(q, h) == \A i, j \in 1 .. Len(q) : q[i].header = h /\ q[j].header = h => i = j
All(q, h, n) == \A i \in 1 .. Len(q) : q[i].header = h => q[i].id = n

\* A thread at label l carries an answer.
Carries(s, l) == s # <<>> /\ s[Len(s)].at = l /\ s[Len(s)].msg.header = "ret"

\* Where a call or its answer can be.
Out == Has(out_stream, "call")
In == Has(in_stream, "ret")
Read == \E t \in Threads : Carries(stack[t], "p_push")
Queued == Has(queue, "ret")
Taken == \E t \in Threads : Carries(stack[t], "dispatch")

\* No message is sent any more.
Dead == status \notin {"CREATED", "OPEN"}

\* At most one call or answer is on its way, that of the last call sent; unless nothing is
\* sent any more, its caller is waiting for it.
PipeInv ==
  /\ One(out_stream, "call") /\ All(out_stream, "call", next_id - 1)
  /\ One(in_stream, "ret") /\ All(in_stream, "ret", next_id - 1)
  /\ One(queue, "ret") /\ All(queue, "ret", next_id - 1)
  /\ \A t, u \in Threads : Carries(stack[t], "p_push") /\ Carries(stack[u], "p_push") => t = u
  /\ \A t \in Threads : Carries(stack[t], "p_push") \/ Carries(stack[t], "dispatch")
       => Top(t).msg.id = next_id - 1
  /\ Out => ~In /\ ~Read /\ ~Queued /\ ~Taken
  /\ In => ~Read /\ ~Queued /\ ~Taken
  /\ Read => ~Queued /\ ~Taken
  /\ Queued => ~Taken
  /\ Out \/ In \/ Read \/ Queued \/ Taken => Dead \/ \E t \in Threads : Waits(stack[t])

\* A call that waits is the last one sent and its answer was not dropped; one that does not
\* wait any more was answered.
CallInv ==
  /\ \A t \in Threads : \A i \in 1 .. Len(stack[t]) : stack[t][i].at = "rpc_done" =>
       /\ i < Len(stack[t]) => /\ stack[t][i].msg.id = next_id - 1
                               /\ Msg("ret", next_id - 1) \notin dropped
       /\ i = Len(stack[t]) => <<stack[t][i].msg.id, stack[t][i].msg.id>> \in answers
       /\ status # "CREATED"
  /\ \A m \in dropped : m.header = "ret" => m.id < next_id
  /\ \A a \in answers : a[1] = a[2]

ShapeInv == \A t \in Threads : Shaped(stack[t])

AnswerInv == ShapeInv /\ PipeInv /\ CallInv

\* A message is appended to a sequence,
LEMMA AppendCounts ==
  ASSUME NEW q \in Seq(Msgs), NEW m \in Msgs, NEW h, NEW n
  PROVE  /\ Has(Append(q, m), h) <=> Has(q, h) \/ m.header = h
         /\ One(q, h) /\ (m.header = h => ~Has(q, h)) => One(Append(q, m), h)
         /\ All(q, h, n) /\ (m.header = h => m.id = n) => All(Append(q, m), h, n)
<1>1. PICK r : r = Append(q, m)
  OBVIOUS
<1>2. /\ Len(q) \in Nat /\ Len(r) = Len(q) + 1 /\ r[Len(q) + 1] = m
  BY <1>1, AppendProperties, LenProperties
<1>3. \A i \in 1 .. Len(q) : r[i] = q[i]
  BY <1>1, AppendProperties
<1>4. \A i \in 1 .. Len(r) : i \in 1 .. Len(q) \/ i = Len(q) + 1
  BY <1>2
<1>5. Has(r, h) <=> Has(q, h) \/ m.header = h
  BY <1>2, <1>3, <1>4 DEF Has
<1>6. One(q, h) /\ (m.header = h => ~Has(q, h)) => One(r, h)
  BY <1>2, <1>3, <1>4 DEF Has, One
<1>7. All(q, h, n) /\ (m.header = h => m.id = n) => All(r, h, n)
  BY <1>2, <1>3, <1>4 DEF All
<1>8. QED
  BY <1>1, <1>5, <1>6, <1>7

\* and taken from it.
LEMMA TailCounts ==
  ASSUME NEW q \in Seq(Msgs), q # <<>>, NEW h, NEW n
  PROVE  /\ Head(q) \in Msgs /\ Tail(q) \in Seq(Msgs)
         /\ Has(Tail(q), h) => Has(q, h)
         /\ One(q, h) => One(Tail(q), h)
         /\ All(q, h, n) => All(Tail(q), h, n)
         /\ One(q, h) /\ Head(q).header = h => ~Has(Tail(q), h)
         /\ Head(q).header = h => Has(q, h)
         /\ All(q, h, n) /\ Head(q).header = h => Head(q).id = n
<1>1. PICK r, m : r = Tail(q) /\ m = Head(q)
  OBVIOUS
<1>2. /\ m \in Msgs /\ r \in Seq(Msgs) /\ Len(r) = Len(q) - 1 /\ Len(q) \in Nat \ {0} /\ m = q[1]
  BY <1>1, HeadTailProperties, EmptySeq
<1>3. \A i \in 1 .. Len(r) : r[i] = q[i + 1]
  BY <1>1, HeadTailProperties
<1>4. \A i \in 1 .. Len(r) : i + 1 \in 1 .. Len(q) /\ i + 1 # 1
  BY <1>2
<1>5. 1 \in 1 .. Len(q)
  BY <1>2
<1>6. Has(r, h) => Has(q, h)
  BY <1>3, <1>4 DEF Has
<1>7. ASSUME One(q, h) PROVE One(r, h)
  <2> SUFFICES ASSUME NEW i \in 1 .. Len(r), NEW j \in 1 .. Len(r),
                      r[i].header = h, r[j].header = h
               PROVE  i = j
    BY DEF One
  <2>1. i + 1 = j + 1
    BY <1>3, <1>4, <1>7 DEF One
  <2>2. QED
    BY <1>2, <2>1
<1>8. All(q, h, n) => All(r, h, n)
  BY <1>3, <1>4 DEF All
<1>9. One(q, h) /\ m.header = h => ~Has(r, h)
  BY <1>2, <1>3, <1>4, <1>5 DEF One, Has
<1>10. m.header = h => Has(q, h)
  BY <1>2, <1>5 DEF Has
<1>11. All(q, h, n) /\ m.header = h => m.id = n
  BY <1>2, <1>5 DEF All
<1>12. QED
  BY <1>1, <1>2, <1>6, <1>7, <1>8, <1>9, <1>10, <1>11

\* A step of t that answers no call, and abandons one only when nothing is sent any more.
Tracks(t) ==
  /\ \A u \in Threads \ {t} : stack'[u] = stack[u]
  /\ Shaped(stack'[t]) /\ Kept(stack[t], stack'[t])
  /\ Waits(stack[t]) => Waits(stack'[t]) \/ Dead'

\* Such a step keeps what is known of the calls,
LEMMA TracksCalls ==
  ASSUME TypeOK, TypeOK', ShapeInv, CallInv, NEW t \in Threads, Tracks(t),
         UNCHANGED <<next_id, dropped, answers>>, status # "CREATED" => status' # "CREATED"
  PROVE  ShapeInv' /\ CallInv'
<1>1. ShapeInv'
  BY DEF ShapeInv, Tracks
<1>2. ASSUME NEW u \in Threads, NEW i \in 1 .. Len(stack'[u]), stack'[u][i].at = "rpc_done"
      PROVE  /\ i < Len(stack'[u]) => /\ stack'[u][i].msg.id = next_id' - 1
                                      /\ Msg("ret", next_id' - 1) \notin dropped'
             /\ i = Len(stack'[u]) =>
                  <<stack'[u][i].msg.id, stack'[u][i].msg.id>> \in answers'
             /\ status' # "CREATED"
  <2>1. CASE u # t
    <3>1. stack'[u] = stack[u]
      BY <2>1 DEF Tracks
    <3>2. QED
      BY <1>2, <3>1 DEF CallInv
  <2>2. CASE u = t
    <3>1. Len(stack[t]) \in Nat /\ Len(stack'[t]) \in Nat
      BY LenProperties DEF TypeOK
    <3>2. /\ i \in 1 .. Len(stack[t]) /\ stack[t][i].at = "rpc_done"
          /\ stack[t][i].msg = stack'[t][i].msg /\ (i = Len(stack'[t]) <=> i = Len(stack[t]))
      BY <1>2, <2>2, <3>1 DEF Tracks, Kept
    <3>3. i < Len(stack'[t]) => i < Len(stack[t])
      BY <1>2, <2>2, <3>1, <3>2
    <3>4. QED
      BY <2>2, <3>2, <3>3 DEF CallInv
  <2>3. QED
    BY <2>1, <2>2
<1>3. QED
  BY <1>1, <1>2 DEF CallInv

\* and the waiting caller.
LEMMA TracksWaiting ==
  ASSUME NEW t \in Threads, Tracks(t), Dead => Dead',
         Dead \/ \E u \in Threads : Waits(stack[u])
  PROVE  Dead' \/ \E u \in Threads : Waits(stack'[u])
BY DEF Tracks

\* Only an owner of the message mutex has made a call.
LEMMA CallersHold ==
  ASSUME TypeOK, LockInv, ShapeInv, NEW t \in Threads, NEW i \in 1 .. Len(stack[t]),
         stack[t][i].at = "rpc_done"
  PROVE  held[t] > 0
<1>1. /\ stack[t] \in Seq(Frames) /\ Len(stack[t]) \in Nat /\ held[t] \in Nat
      /\ Sound(t, stack[t], held[t]) /\ Shaped(stack[t])
  BY LenProperties DEF TypeOK, LockInv, ShapeInv
<1>2. CASE i = Len(stack[t])
  <2>1. "rpc_done" \in Owners
    BY DEF Owners
  <2>2. QED
    BY <1>1, <1>2, <2>1 DEF Sound, Disciplined
<1>3. CASE i # Len(stack[t])
  <2>1. i < i + 1 /\ i + 1 \in 1 .. Len(stack[t]) /\ Len(stack[t]) \in 1 .. Len(stack[t])
        /\ i + 1 <= Len(stack[t])
    BY <1>1, <1>3
  <2>2. stack[t][i + 1].base > 0
    BY <1>1, <2>1 DEF Shaped, Answering
  <2>3. stack[t][i + 1].base <= stack[t][Len(stack[t])].base
    BY <1>1, <2>1 DEF Sound, Disciplined
  <2>4. stack[t][Len(stack[t])].base <= held[t]
    BY <1>1, <2>1, EmptySeq DEF Sound, Disciplined
  <2>5. stack[t][i + 1] \in Frames /\ stack[t][Len(stack[t])] \in Frames
    BY <1>1, <2>1, ElementOfSeq
  <2>6. stack[t][i + 1].base \in Nat /\ stack[t][Len(stack[t])].base \in Nat
    BY <2>5 DEF Frames
  <2>7. QED
    BY <1>1, <2>2, <2>3, <2>4, <2>6
<1>4. QED
  BY <1>2, <1>3

\* Such a step that leaves t without an answer in its hands.
Passes(t) ==
  Tracks(t) /\ ~Carries(stack'[t], "p_push") /\ ~Carries(stack'[t], "dispatch")

\* A step of t that moves no call and no answer.
Steady(t) ==
  /\ Passes(t)
  /\ UNCHANGED <<next_id, in_stream, queue, answers>>
  /\ \/ UNCHANGED out_stream
     \/ \E m \in Msgs : m.header # "call" /\ out_stream' = Append(out_stream, m)
  /\ status' = status \/ Dead'

\* Such a step keeps what is on its way,
LEMMA SteadyPipe ==
  ASSUME TypeOK, PipeInv, NEW t \in Threads, Steady(t)
  PROVE  PipeInv'
<1>1. (Out' <=> Out) /\ One(out_stream', "call") /\ All(out_stream', "call", next_id - 1)
  <2>1. CASE UNCHANGED out_stream
    BY <2>1 DEF PipeInv, Out
  <2>2. ASSUME NEW m \in Msgs, m.header # "call", out_stream' = Append(out_stream, m)
        PROVE  (Out' <=> Out) /\ One(out_stream', "call") /\ All(out_stream', "call", next_id - 1)
    <3>1. out_stream \in Seq(Msgs)
      BY DEF TypeOK
    <3>2. QED
      BY <2>2, <3>1, AppendCounts DEF PipeInv, Out
  <2>3. QED
    BY <2>1, <2>2 DEF Steady
<1>2. (In' <=> In) /\ (Queued' <=> Queued)
  BY DEF Steady, In, Queued
<1>3. ASSUME NEW u \in Threads, NEW l \in {"p_push", "dispatch"}, Carries(stack'[u], l)
      PROVE  Carries(stack[u], l) /\ Top(u)' = Top(u)
  <2>1. u # t /\ stack'[u] = stack[u]
    BY <1>3 DEF Steady, Passes, Tracks
  <2>2. QED
    BY <1>3, <2>1 DEF Top
<1>4. (Read' => Read) /\ (Taken' => Taken)
  BY <1>3 DEF Read, Taken
<1>5. Dead => Dead'
  BY DEF Steady, Dead
<1>6. ASSUME Out' \/ In' \/ Read' \/ Queued' \/ Taken'
      PROVE  Dead' \/ \E u \in Threads : Waits(stack'[u])
  <2>1. Dead \/ \E u \in Threads : Waits(stack[u])
    BY <1>1, <1>2, <1>4, <1>6 DEF PipeInv
  <2>2. QED
    BY <1>5, <2>1, TracksWaiting DEF Steady, Passes
<1>7. \A u, v \in Threads : Carries(stack'[u], "p_push") /\ Carries(stack'[v], "p_push") => u = v
  BY <1>3 DEF PipeInv
<1>8. \A u \in Threads : Carries(stack'[u], "p_push") \/ Carries(stack'[u], "dispatch")
        => Top(u)'.msg.id = next_id' - 1
  BY <1>3 DEF PipeInv, Steady
<1>9. /\ One(in_stream', "ret") /\ All(in_stream', "ret", next_id' - 1)
      /\ One(queue', "ret") /\ All(queue', "ret", next_id' - 1) /\ next_id' = next_id
  BY DEF PipeInv, Steady
<1>10. QED
  BY <1>1, <1>2, <1>4, <1>6, <1>7, <1>8, <1>9 DEF PipeInv

\* and everything else.
LEMMA SteadyAnswers ==
  ASSUME TypeOK, TypeOK', AnswerInv, NEW t \in Threads, Steady(t), UNCHANGED dropped
  PROVE  AnswerInv'
<1>1. PipeInv'
  BY SteadyPipe DEF AnswerInv
<1>2. ShapeInv' /\ CallInv'
  BY TracksCalls DEF AnswerInv, Steady, Passes, Dead
<1>3. QED
  BY <1>1, <1>2 DEF AnswerInv

-----------------------------------------------------------------------------
(* Steps of a thread                                                       *)

\* The stack of a running thread.
LEMMA RunningShape ==
  ASSUME TypeOK, ShapeInv, NEW t \in Threads, stack[t] # <<>>
  PROVE  /\ stack[t] \in Seq(Frames) /\ Len(stack[t]) \in 1 .. Len(stack[t])
         /\ Top(t) \in Frames /\ Top(t) = stack[t][Len(stack[t])]
         /\ Shaped(stack[t]) /\ Behaves(Top(t)) /\ (Top(t).at = "idle" => Len(stack[t]) = 1)
<1>1. stack[t] \in Seq(Frames) /\ Top(t) \in Frames /\ Shaped(stack[t])
  BY TopType DEF ShapeInv
<1>2. Len(stack[t]) \in 1 .. Len(stack[t]) /\ Top(t) = stack[t][Len(stack[t])]
  BY <1>1, UnderProperties DEF Top
<1>3. QED
  BY <1>1, <1>2 DEF Shaped

\* What SetStack stores.
LEMMA Stacks ==
  ASSUME TypeOK, NEW t \in Threads, NEW s, SetStack(t, s)
  PROVE  stack'[t] = s /\ \A u \in Threads \ {t} : stack'[u] = stack[u]
BY DEF TypeOK, SetStack

\* The stack of t goes on in one that follows it.
LEMMA FollowsTracks ==
  ASSUME TypeOK, NEW t \in Threads, NEW s, SetStack(t, s), Follows(stack[t], s)
  PROVE  Tracks(t) /\ stack'[t] = s
<1>1. stack'[t] = s /\ \A u \in Threads \ {t} : stack'[u] = stack[u]
  BY Stacks
<1>2. QED
  BY <1>1 DEF Tracks, Follows

\* A stack with another innermost call.
LEMMA TopIs ==
  ASSUME NEW s \in Seq(Frames), s # <<>>, NEW f \in Frames
  PROVE  /\ WithTop(s, f) \in Seq(Frames) /\ WithTop(s, f) # <<>>
         /\ Len(WithTop(s, f)) = Len(s) /\ WithTop(s, f)[Len(s)] = f
BY WithTopProperties, Zenon

\* The innermost call of t goes on to label l.
LEMMA MovesTrack ==
  ASSUME TypeOK, ShapeInv, NEW t \in Threads, stack[t] # <<>>, NEW l \in Labels,
         SetStack(t, Moved(t, l)), Top(t).at \notin {"await_pop", "rpc_done"},
         l \notin UserLabels \cup {"rpc_done", "dispatch", "send_flush", "shutdown_flush"},
         Top(t).at \in Above => l \in Above
  PROVE  /\ Tracks(t) /\ ~Carries(stack'[t], "dispatch")
         /\ l # "p_push" => ~Carries(stack'[t], "p_push")
<1>1. /\ stack[t] \in Seq(Frames) /\ Top(t) \in Frames /\ Top(t) = stack[t][Len(stack[t])]
      /\ Shaped(stack[t])
  BY RunningShape
<1>2. PICK f : f = [Top(t) EXCEPT !.at = l]
  OBVIOUS
<1>3. f \in Frames /\ f.at = l
  BY <1>1, <1>2 DEF Frames
<1>4. Behaves(f)
  BY <1>3 DEF Behaves, UserLabels
<1>5. Moved(t, l) = WithTop(stack[t], f)
  BY <1>2 DEF Moved
<1>6. Follows(stack[t], WithTop(stack[t], f))
  BY <1>1, <1>3, <1>4, ShapedOn DEF UserLabels
<1>7. Tracks(t) /\ stack'[t] = WithTop(stack[t], f)
  BY <1>5, <1>6, FollowsTracks
<1>8. Len(WithTop(stack[t], f)) = Len(stack[t]) /\ WithTop(stack[t], f)[Len(stack[t])] = f
  BY <1>1, <1>3, TopIs
<1>9. QED
  BY <1>3, <1>7, <1>8 DEF Carries

\* The innermost call of t, that is not an await, returns.
LEMMA ReturnsTrack ==
  ASSUME TypeOK, ShapeInv, NEW t \in Threads, stack[t] # <<>>,
         SetStack(t, Under(stack[t])), Top(t).at # "await_pop"
  PROVE  Tracks(t) /\ ~Carries(stack'[t], "p_push")
<1>1. stack[t] \in Seq(Frames) /\ Top(t) = stack[t][Len(stack[t])] /\ Shaped(stack[t])
  BY RunningShape
<1>2. PICK r : r = Under(stack[t])
  OBVIOUS
<1>3. Follows(stack[t], r) /\ \A i \in 1 .. Len(r) : r[i].at # "p_push"
  BY <1>1, <1>2, ShapedBack
<1>4. Tracks(t) /\ stack'[t] = r
  BY <1>2, <1>3, FollowsTracks
<1>5. r \in Seq(Frames)
  BY <1>1, <1>2, UnderProperties
<1>6. r # <<>> => Len(r) \in 1 .. Len(r)
  BY <1>5, UnderProperties
<1>7. QED
  BY <1>3, <1>4, <1>6 DEF Carries

\* Consumer and producer end: nothing is below their loops.
LEMMA EndsTrack ==
  ASSUME TypeOK, LockInv, ShapeInv, NEW t \in Threads, stack[t] # <<>>,
         SetStack(t, <<>>), Top(t).at \in Looping
  PROVE  Tracks(t) /\ ~Carries(stack'[t], "p_push")
<1>1. /\ stack[t] \in Seq(Frames) /\ Len(stack[t]) \in 1 .. Len(stack[t])
      /\ Top(t) = stack[t][Len(stack[t])] /\ Sound(t, stack[t], held[t])
  BY RunningShape, Running
<1>2. Len(stack[t]) = 1
  BY <1>1 DEF Sound, Disciplined
<1>3. stack'[t] = <<>> /\ \A u \in Threads \ {t} : stack'[u] = stack[u]
  BY Stacks
<1>4. Shaped(<<>>) /\ Kept(stack[t], <<>>)
  BY DEF Shaped, Kept
<1>5. ~Waits(stack[t])
  BY <1>2 DEF Waits
<1>6. QED
  BY <1>3, <1>4, <1>5 DEF Tracks, Carries

\* The innermost call of t throws, in a stack with the same calls, out of no call that
\* waits or when nothing is sent any more.
LEMMA ThrowsTrack ==
  ASSUME TypeOK, ShapeInv, NEW t \in Threads, stack[t] # <<>>, Top(t).at # "p_push",
         NEW s \in Seq(Frames), s # <<>>, Shaped(s), Kept(stack[t], s),
         Sound(t, s, held[t]), Throw(t, s), Dead' \/ ~Waits(stack[t])
  PROVE  Tracks(t) /\ ~Carries(stack'[t], "p_push")
<1>1. /\ Len(s) \in Nat \ {0} /\ DOMAIN s = 1 .. Len(s) /\ Len(stack[t]) \in Nat
      /\ stack[t] \in Seq(Frames) /\ Shaped(stack[t]) /\ Top(t) = stack[t][Len(stack[t])]
  BY LenProperties, EmptySeq, RunningShape
<1>2. ASSUME NEW r, SetStack(t, r), Shaped(r), Kept(stack[t], r), ~Carries(r, "p_push")
      PROVE  Tracks(t) /\ ~Carries(stack'[t], "p_push")
  <2>1. stack'[t] = r /\ \A u \in Threads \ {t} : stack'[u] = stack[u]
    BY <1>2, Stacks
  <2>2. QED
    BY <1>2, <2>1 DEF Tracks
<1>3. ASSUME NEW i \in DOMAIN s, s[i].at = "handler", SetStack(t, SubSeq(s, 1, i - 1))
      PROVE  Tracks(t) /\ ~Carries(stack'[t], "p_push")
  <2>1. PICK k \in Nat : k = i - 1 /\ k < Len(s) /\ k <= Len(s) /\ i = k + 1
    BY <1>1, <1>3
  <2>2. PICK r : r = SubSeq(s, 1, k)
    OBVIOUS
  <2>3. Shaped(r) /\ Kept(s, r) /\ \A j \in 1 .. k : r[j].at # "p_push"
    BY <1>3, <2>1, <2>2, ShapedOut
  <2>4. r \in Seq(Frames) /\ Len(r) = k
    BY <2>1, <2>2, PrefixProperties
  <2>5. Kept(stack[t], r)
    BY <1>1, <2>3, <2>4, KeptOn
  <2>6. r # <<>> => Len(r) \in 1 .. k
    BY <2>4, EmptySeq
  <2>7. ~Carries(r, "p_push")
    BY <2>3, <2>6 DEF Carries
  <2>8. QED
    BY <1>2, <1>3, <2>1, <2>2, <2>3, <2>5, <2>7
<1>4. ASSUME t \in Users, SetStack(t, SubSeq(s, 1, 1))
      PROVE  Tracks(t) /\ ~Carries(stack'[t], "p_push")
  <2>1. PICK r : r = SubSeq(s, 1, 1)
    OBVIOUS
  <2>2. Len(r) = 1 /\ \A i \in 1 .. 1 : r[i] = s[i]
    BY <1>1, <2>1, PrefixProperties
  <2>3. r[1] = s[1] /\ r[1].at = "idle" /\ 1 \in 1 .. Len(s)
    BY <1>1, <1>4, <2>2 DEF Sound
  <2>4. Behaves(r[1])
    BY <2>3 DEF Shaped
  <2>5. Shaped(r)
    BY <2>2, <2>3, <2>4 DEF Shaped
  <2>6. Kept(stack[t], r) /\ ~Carries(r, "p_push")
    BY <2>2, <2>3 DEF Kept, Carries
  <2>7. QED
    BY <1>2, <1>4, <2>1, <2>5, <2>6
<1>5. ASSUME UNCHANGED stack PROVE Tracks(t) /\ ~Carries(stack'[t], "p_push")
  <2>1. Kept(stack[t], stack[t])
    BY <1>1, KeptOn
  <2>2. QED
    BY <1>1, <1>5, <2>1 DEF Tracks, Carries
<1>6. QED
  BY <1>3, <1>4, <1>5 DEF Throw

\* Who makes a call: no handler one that waits, and user code alone most of the others.
LEMMA Caller ==
  ASSUME TypeOK, ShapeInv, NEW t \in Threads, NEW op, Calls(t, op)
  PROVE  /\ op \notin Calm => Top(t).at # "handler"
         /\ op \notin Calm \cup {"rpc"} => Top(t).at = "idle" /\ ~Waits(stack[t])
<1>1. /\ stack[t] # <<>> /\ Top(t).at \in UserLabels
      /\ Top(t).todo # <<>> /\ Head(Top(t).todo) = op
  BY DEF Calls
<1>2. Behaves(Top(t)) /\ (Top(t).at = "idle" => Len(stack[t]) = 1)
  BY <1>1, RunningShape
<1>3. \A S : Top(t).todo \in Seq(S) => op \in S
  BY <1>1, HeadTailProperties
<1>4. (Top(t).at = "handler" => op \in Calm) /\ (Top(t).at = "sync_run" => op \in {"rpc"})
  BY <1>2, <1>3 DEF Behaves
<1>5. Len(stack[t]) = 1 => ~Waits(stack[t])
  BY DEF Waits
<1>6. QED
  BY <1>1, <1>2, <1>4, <1>5 DEF UserLabels

\* The stack of a caller whose next operation has begun.
LEMMA BegunFollows ==
  ASSUME TypeOK, ShapeInv, NEW t \in Threads, stack[t] # <<>>, Top(t).at \in UserLabels,
         Top(t).todo # <<>>
  PROVE  /\ Begun(t) \in Seq(Frames) /\ Begun(t) # <<>>
         /\ Begun(t)[Len(Begun(t))].at = Top(t).at
         /\ Follows(stack[t], Begun(t)) /\ ~Carries(Begun(t), "p_push")
<1>1. /\ stack[t] \in Seq(Frames) /\ Top(t) \in Frames /\ Top(t) = stack[t][Len(stack[t])]
      /\ Shaped(stack[t]) /\ Behaves(Top(t))
  BY RunningShape
<1>2. PICK f : f = [Top(t) EXCEPT !.todo = Tail(Top(t).todo)]
  OBVIOUS
<1>3. \A S : Top(t).todo \in Seq(S) => Tail(Top(t).todo) \in Seq(S)
  BY HeadTailProperties
<1>4. f \in Frames /\ f.at = Top(t).at /\ f.msg = Top(t).msg /\ f.todo = Tail(Top(t).todo)
  BY <1>1, <1>2, <1>3 DEF Frames
<1>5. Behaves(f)
  BY <1>1, <1>3, <1>4 DEF Behaves
<1>6. Begun(t) = WithTop(stack[t], f)
  BY <1>2 DEF Begun
<1>7. Top(t).at \notin {"await_pop", "dispatch", "rpc_done", "p_push"}
  BY DEF UserLabels
<1>8. Follows(stack[t], WithTop(stack[t], f))
  BY <1>1, <1>4, <1>5, <1>7, ShapedOn
<1>9. /\ WithTop(stack[t], f) \in Seq(Frames) /\ WithTop(stack[t], f) # <<>>
      /\ Len(WithTop(stack[t], f)) = Len(stack[t]) /\ WithTop(stack[t], f)[Len(stack[t])] = f
  BY <1>1, <1>4, TopIs
<1>10. QED
  BY <1>4, <1>6, <1>7, <1>8, <1>9 DEF Carries

\* A call is made from a stack that follows q.
LEMMA PushFollows ==
  ASSUME NEW q \in Seq(Frames), NEW s \in Seq(Frames), s # <<>>, Follows(q, s),
         s[Len(s)].at \notin {"rpc_done", "p_push"},
         NEW f \in Frames, Behaves(f), f.at \notin {"rpc_done", "idle"},
         Answering(s[Len(s)]) \/ Nested(s[Len(s)]) => Nested(f)
  PROVE  /\ Append(s, f) \in Seq(Frames) /\ Append(s, f) # <<>>
         /\ Append(s, f)[Len(Append(s, f))] = f
         /\ Follows(q, Append(s, f))
<1>1. /\ Append(s, f) \in Seq(Frames) /\ Append(s, f) # <<>>
      /\ Append(s, f)[Len(Append(s, f))] = f
  BY PushProperties
<1>2. Shaped(s)
  BY DEF Follows
<1>3. Follows(s, Append(s, f))
  BY <1>2, ShapedInto
<1>4. QED
  BY <1>1, <1>3, FollowsOn

\* Calls of lock_message_mutex and start_message.
LEMMA LockFrames ==
  ASSUME NEW n \in Nat, NEW l \in {"lock_count", "start_check"}
  PROVE  /\ Frame(l, NoMsg, <<>>, n) \in Frames /\ Behaves(Frame(l, NoMsg, <<>>, n))
         /\ Nested(Frame(l, NoMsg, <<>>, n)) /\ Frame(l, NoMsg, <<>>, n).at = l
<1>1. <<>> \in Seq(Ops)
  OBVIOUS
<1>2. Frame(l, NoMsg, <<>>, n) \in Frames
  BY <1>1, LabelsType, NoMsgType, FrameType
<1>3. QED
  BY <1>2 DEF Behaves, Nested, Frame, Above

\* A call f of user code or of a handler that first takes the message lock.
LEMMA CallTracks ==
  ASSUME TypeOK, ShapeInv, NEW t \in Threads, stack[t] # <<>>, Top(t).at \in UserLabels,
         Top(t).todo # <<>>,
         NEW f \in Frames, Behaves(f), f.at \notin {"rpc_done", "idle", "p_push"},
         Top(t).at = "handler" => Nested(f),
         \/ SetStack(t, Locking(Append(Begun(t), f), held[t]))
         \/ SetStack(t, Starting(Append(Begun(t), f), held[t]))
  PROVE  Tracks(t) /\ ~Carries(stack'[t], "p_push")
<1>1. /\ Begun(t) \in Seq(Frames) /\ Begun(t) # <<>>
      /\ Begun(t)[Len(Begun(t))].at = Top(t).at /\ Follows(stack[t], Begun(t))
  BY BegunFollows
<1>2. held[t] \in Nat /\ stack[t] \in Seq(Frames)
  BY DEF TypeOK
<1>3. PICK s : s = Append(Begun(t), f)
  OBVIOUS
<1>4. /\ Top(t).at \notin {"rpc_done", "p_push", "await_pop"}
      /\ Top(t).at \in Above => Top(t).at = "handler"
  BY DEF UserLabels, Above
<1>5. Answering(Begun(t)[Len(Begun(t))]) \/ Nested(Begun(t)[Len(Begun(t))]) => Nested(f)
  BY <1>1, <1>4 DEF Answering, Nested
<1>6. s \in Seq(Frames) /\ s # <<>> /\ s[Len(s)] = f /\ Follows(stack[t], s)
  BY <1>1, <1>2, <1>3, <1>4, <1>5, PushFollows
<1>7. ASSUME NEW l \in {"lock_count", "start_check"},
             SetStack(t, Append(s, Frame(l, NoMsg, <<>>, held[t])))
      PROVE  Tracks(t) /\ ~Carries(stack'[t], "p_push")
  <2>1. PICK g : g = Frame(l, NoMsg, <<>>, held[t])
    OBVIOUS
  <2>2. g \in Frames /\ Behaves(g) /\ Nested(g) /\ g.at \in {"lock_count", "start_check"}
    BY <1>2, <2>1, LockFrames
  <2>3. Append(s, g)[Len(Append(s, g))] = g /\ Follows(stack[t], Append(s, g))
    BY <1>2, <1>6, <2>2, PushFollows
  <2>4. Tracks(t) /\ stack'[t] = Append(s, g)
    BY <1>7, <2>1, <2>3, FollowsTracks
  <2>5. QED
    BY <2>2, <2>3, <2>4 DEF Carries
<1>8. QED
  BY <1>3, <1>7 DEF Locking, Starting

-----------------------------------------------------------------------------
(* Steps that move no call and no answer                                   *)

\* A quiet step that passes and changes nothing else is steady.
LEMMA QuietSteady ==
  ASSUME TypeOK, NEW t \in Threads, Quiet(t), Tracks(t), ~Carries(stack'[t], "p_push"),
         UNCHANGED <<next_id, in_stream, answers>>,
         \/ UNCHANGED out_stream
         \/ \E m \in Msgs : m.header # "call" /\ out_stream' = Append(out_stream, m),
         status' = status \/ Dead'
  PROVE  Steady(t)
<1>1. UNCHANGED queue /\ ~Carries(stack'[t], "dispatch")
  BY DEF Quiet, Pends, Carries
<1>2. QED
  BY <1>1 DEF Steady, Passes

\* No call has been made before start().
LEMMA NoneBeforeStart ==
  ASSUME CallInv, status = "CREATED", NEW t \in Threads
  PROVE  ~Waits(stack[t])
BY DEF CallInv, Waits

\* The calls of user code and handlers.
LEMMA CallsAreSteady ==
  ASSUME TypeOK, LockInv, AnswerInv, NEW t \in Threads,
         CallSend(t) \/ CallSync(t) \/ CallHandlers(t)
  PROVE  Steady(t)
<1>1. /\ stack[t] # <<>> /\ Top(t).at \in UserLabels /\ Top(t).todo # <<>> /\ ShapeInv
      /\ UNCHANGED <<next_id, in_stream, answers, out_stream, status>>
  BY DEF CallSend, CallSync, CallHandlers, Calls, hist, local, env, AnswerInv
<1>2. held[t] \in Nat /\ Top(t).msg.id \in Nat
  BY <1>1, TopType DEF TypeOK, Msgs
<1>3. <<>> \in Seq(Ops) /\ <<"rpc", "rpc">> \in Seq(Ops) /\ <<"rpc", "rpc">> \in Seq({"rpc"})
  BY DEF Ops
<1>4. /\ Msg("event", 0) \in Msgs /\ Msg("ret", Top(t).msg.id) \in Msgs
      /\ Msg("call", 0) \in Msgs /\ NoMsg \in Msgs
  BY <1>2, MsgType, NoMsgType DEF Headers
<1>5. Quiet(t)
  BY CallsAreQuiet
<1>6. ASSUME NEW l \in {"send_flush", "rpc_flush", "set_handler", "erase_handler",
                        "clear_handlers", "sync_run"},
             NEW m \in Msgs, NEW td \in Seq(Ops),
             l = "send_flush" => m.header # "call", l = "sync_run" => td \in Seq({"rpc"}),
             Top(t).at = "handler" => l \in Above,
             \/ SetStack(t, Locking(Append(Begun(t), Frame(l, m, td, held[t])), held[t]))
             \/ SetStack(t, Starting(Append(Begun(t), Frame(l, m, td, held[t])), held[t]))
      PROVE  Steady(t)
  <2>1. PICK f : f = Frame(l, m, td, held[t])
    OBVIOUS
  <2>2. f \in Frames /\ f.at = l /\ f.msg = m /\ f.todo = td
    BY <1>2, <2>1, FrameType, LabelsType DEF Frame
  <2>3. Behaves(f) /\ (f.at \in Above => Nested(f)) /\ f.at \notin {"rpc_done", "idle", "p_push"}
    BY <1>6, <2>2 DEF Behaves, Nested
  <2>4. Tracks(t) /\ ~Carries(stack'[t], "p_push")
    BY <1>1, <1>6, <2>1, <2>2, <2>3, CallTracks
  <2>5. QED
    BY <1>1, <1>5, <2>4, QuietSteady
<1>7. /\ Msg("event", 0).header # "call" /\ Msg("ret", Top(t).msg.id).header # "call"
      /\ {"send_flush", "set_handler", "erase_handler", "clear_handlers"} \subseteq Above
      /\ {"rpc", "sync"} \cap Calm = {}
  BY DEF Msg, Above, Calm
<1>8. CASE CallSend(t)
  <2>1. CASE Calls(t, "rpc") /\ SetStack(t, Starting(Call(t, "rpc_flush", NoMsg), held[t]))
    <3>1. Top(t).at # "handler"
      BY <1>1, <1>7, <2>1, Caller
    <3>2. QED
      BY <1>3, <1>4, <1>6, <2>1, <3>1 DEF Call
  <2>2. CASE SetStack(t, Starting(Call(t, "send_flush", Msg("event", 0)), held[t]))
    BY <1>3, <1>4, <1>6, <1>7, <2>2 DEF Call
  <2>3. CASE SetStack(t, Starting(Call(t, "send_flush", Msg("ret", Top(t).msg.id)), held[t]))
    BY <1>3, <1>4, <1>6, <1>7, <2>3 DEF Call
  <2>4. QED
    BY <1>8, <2>1, <2>2, <2>3 DEF CallSend
<1>9. CASE CallSync(t)
  <2>1. Top(t).at # "handler"
    BY <1>1, <1>7, <1>9, Caller DEF CallSync
  <2>2. QED
    BY <1>3, <1>4, <1>6, <1>9, <2>1 DEF CallSync
<1>10. CASE CallHandlers(t)
  <2>1. PICK c \in {<<"register", "set_handler">>, <<"unregister", "erase_handler">>,
                    <<"clear", "clear_handlers">>} :
          SetStack(t, Locking(Call(t, c[2], Msg("call", 0)), held[t]))
    BY <1>10 DEF CallHandlers
  <2>2. c[2] \in {"set_handler", "erase_handler", "clear_handlers"}
    BY <2>1
  <2>3. QED
    BY <1>3, <1>4, <1>6, <1>7, <2>1, <2>2 DEF Call
<1>11. QED
  BY <1>8, <1>9, <1>10

\* await_message and handle_message are refused, or called.
LEMMA CallAwaitIsSteady ==
  ASSUME TypeOK, LockInv, AnswerInv, NEW t \in Threads, CallAwait(t)
  PROVE  Steady(t)
<1>1. /\ stack[t] # <<>> /\ Top(t).at \in UserLabels /\ Top(t).todo # <<>>
      /\ ShapeInv /\ CallInv
      /\ UNCHANGED <<next_id, in_stream, answers, out_stream, status>>
  BY DEF CallAwait, Calls, hist, local, env, AnswerInv
<1>2. /\ Begun(t) \in Seq(Frames) /\ Begun(t) # <<>>
      /\ Begun(t)[Len(Begun(t))].at = Top(t).at /\ Follows(stack[t], Begun(t))
  BY <1>1, BegunFollows
<1>3. Top(t).at = "idle"
  BY <1>1, Caller DEF CallAwait, Calm
<1>4. stack[t] \in Seq(Frames) /\ held[t] \in Nat /\ Quiet(t)
  BY CallAwaitIsQuiet DEF TypeOK
<1>5. ASSUME Tracks(t), ~Carries(stack'[t], "p_push") PROVE Steady(t)
  BY <1>1, <1>4, <1>5, QuietSteady
<1>6. CASE status = "CREATED" /\ Throw(t, Begun(t))
  <2>1. ~Waits(stack[t])
    BY <1>1, <1>6, NoneBeforeStart
  <2>2. Shaped(Begun(t)) /\ Kept(stack[t], Begun(t))
    BY <1>2 DEF Follows
  <2>3. Sound(t, Begun(t), held[t])
    BY <1>1, Begins
  <2>4. QED
    BY <1>1, <1>2, <1>3, <1>5, <1>6, <2>1, <2>2, <2>3, ThrowsTrack
<1> DEFINE f == Frame("await_done", NoMsg, <<>>, held[t])
           g == Frame("await_pop", Msg("call", 0), <<>>, held[t])
           h == Frame("handle_pop", Msg("call", 0), <<>>, held[t])
           k == Frame("lock_count", NoMsg, <<>>, held[t])
<1>7. f \in Frames /\ g \in Frames /\ h \in Frames /\ k \in Frames
  <2>1. <<>> \in Seq(Ops) /\ Msg("call", 0) \in Msgs /\ NoMsg \in Msgs
    BY MsgType, NoMsgType DEF Headers
  <2>2. QED
    BY <1>4, <2>1, FrameType, LabelsType
<1>8. /\ f.at = "await_done" /\ g.at = "await_pop" /\ h.at = "handle_pop" /\ k.at = "lock_count"
      /\ ~Answering(f) /\ ~Nested(f) /\ ~Answering(g) /\ ~Nested(g) /\ Nested(k)
      /\ Behaves(f) /\ Behaves(g) /\ Behaves(h) /\ Behaves(k)
  BY DEF Frame, Msg, Answering, Nested, Above, Behaves
<1> HIDE DEF f, g, h, k
<1>9. ~Answering(Begun(t)[Len(Begun(t))]) /\ ~Nested(Begun(t)[Len(Begun(t))])
  BY <1>2, <1>3 DEF Answering, Nested, Above
<1>10. CASE SetStack(t, Locking(Append(Append(Begun(t), f), g), held[t]))
  <2>1. PICK r : r = Append(Begun(t), f)
    OBVIOUS
  <2>2. r \in Seq(Frames) /\ r # <<>> /\ r[Len(r)] = f /\ Follows(stack[t], r)
    BY <1>2, <1>3, <1>4, <1>7, <1>8, <1>9, <2>1, PushFollows
  <2>3. PICK q : q = Append(r, g)
    OBVIOUS
  <2>4. q \in Seq(Frames) /\ q # <<>> /\ q[Len(q)] = g /\ Follows(stack[t], q)
    BY <1>4, <1>7, <1>8, <2>2, <2>3, PushFollows
  <2>5. Append(q, k)[Len(Append(q, k))] = k /\ Follows(stack[t], Append(q, k))
    BY <1>4, <1>7, <1>8, <2>4, PushFollows
  <2>6. SetStack(t, Append(q, k))
    BY <1>10, <2>1, <2>3 DEF Locking, k
  <2>7. Tracks(t) /\ stack'[t] = Append(q, k)
    BY <2>5, <2>6, FollowsTracks
  <2>8. QED
    BY <1>5, <1>8, <2>5, <2>7 DEF Carries
<1>11. CASE SetStack(t, Locking(Append(Begun(t), h), held[t]))
  <2>1. Tracks(t) /\ ~Carries(stack'[t], "p_push")
    BY <1>1, <1>3, <1>7, <1>8, <1>11, CallTracks
  <2>2. QED
    BY <1>5, <2>1
<1>12. QED
  BY <1>6, <1>10, <1>11 DEF CallAwait, Call, f, g, h

\* An operation that is refused because the transport is not open, and a refused start():
\* no call waits in the thread, or nothing is sent any more.
LEMMA RefusalsTrack ==
  ASSUME TypeOK, LockInv, AnswerInv, NEW t \in Threads, stack[t] # <<>>,
         Top(t).at \in UserLabels, Top(t).todo # <<>>, Throw(t, Begun(t)), UNCHANGED status,
         status # "OPEN" \/ ~Waits(stack[t])
  PROVE  Tracks(t) /\ ~Carries(stack'[t], "p_push")
<1>1. ShapeInv /\ CallInv /\ Top(t).at # "p_push" /\ status \in Statuses
  BY DEF AnswerInv, UserLabels, TypeOK
<1>2. /\ Begun(t) \in Seq(Frames) /\ Begun(t) # <<>>
      /\ Shaped(Begun(t)) /\ Kept(stack[t], Begun(t))
  BY <1>1, BegunFollows DEF Follows
<1>3. Sound(t, Begun(t), held[t])
  BY Begins
<1>4. Dead' \/ ~Waits(stack[t])
  BY <1>1, NoneBeforeStart DEF Dead, Statuses
<1>5. QED
  BY <1>1, <1>2, <1>3, <1>4, ThrowsTrack

\* shutdown() is refused, or called.
LEMMA CallShutdownIsSteady ==
  ASSUME TypeOK, LockInv, AnswerInv, NEW t \in Threads, CallShutdown(t)
  PROVE  Steady(t)
<1>1. /\ stack[t] # <<>> /\ Top(t).at \in UserLabels /\ Top(t).todo # <<>> /\ ShapeInv
      /\ UNCHANGED <<next_id, in_stream, answers, out_stream, status>>
  BY DEF CallShutdown, Calls, hist, local, env, AnswerInv
<1>2. held[t] \in Nat /\ Quiet(t)
  BY CallShutdownIsQuiet DEF TypeOK
<1>3. CASE status # "OPEN" /\ Throw(t, Begun(t))
  <2>1. Tracks(t) /\ ~Carries(stack'[t], "p_push")
    BY <1>1, <1>3, RefusalsTrack
  <2>2. QED
    BY <1>1, <1>2, <2>1, QuietSteady
<1>4. PICK f : f = Frame("shutdown_flush", Msg("shutdown", 0), <<>>, held[t])
  OBVIOUS
<1>5. f \in Frames
  <2>1. <<>> \in Seq(Ops) /\ Msg("shutdown", 0) \in Msgs
    BY MsgType DEF Headers
  <2>2. QED
    BY <1>2, <1>4, <2>1, FrameType, LabelsType
<1>6. Behaves(f) /\ Nested(f) /\ f.at = "shutdown_flush"
  BY <1>4 DEF Frame, Msg, Behaves, Nested, Above
<1>7. CASE SetStack(t, Starting(Append(Begun(t), f), held[t]))
  <2>1. Tracks(t) /\ ~Carries(stack'[t], "p_push")
    BY <1>1, <1>5, <1>6, <1>7, CallTracks
  <2>2. QED
    BY <1>1, <1>2, <2>1, QuietSteady
<1>8. QED
  BY <1>3, <1>4, <1>7 DEF CallShutdown, Call

\* close(), join() and the destructor.
LEMMA CloseIsSteady ==
  ASSUME TypeOK, LockInv, AnswerInv, NEW t \in Threads, CallClose(t) \/ Join(t) \/ Destroy(t)
  PROVE  Steady(t)
<1>1. /\ stack[t] # <<>> /\ Top(t).at \in UserLabels /\ Top(t).todo # <<>> /\ ShapeInv
      /\ UNCHANGED <<next_id, in_stream, answers, out_stream, status>>
  BY DEF CallClose, Join, Destroy, Calls, hist, local, env, AnswerInv
<1>2. held[t] \in Nat /\ stack[t] \in Seq(Frames) /\ Quiet(t)
  BY CloseIsQuiet DEF TypeOK
<1>3. /\ Begun(t) \in Seq(Frames) /\ Begun(t) # <<>>
      /\ Begun(t)[Len(Begun(t))].at = Top(t).at
      /\ Follows(stack[t], Begun(t)) /\ ~Carries(Begun(t), "p_push")
  BY <1>1, BegunFollows
<1>4. ASSUME NEW s, SetStack(t, s), Follows(stack[t], s), ~Carries(s, "p_push")
      PROVE  Steady(t)
  <2>1. Tracks(t) /\ stack'[t] = s
    BY <1>4, FollowsTracks
  <2>2. QED
    BY <1>1, <1>2, <1>4, <2>1, QuietSteady
<1>5. CASE CallClose(t)
  <2>1. PICK f : f = Frame("close_stop", NoMsg, <<>>, held[t])
    OBVIOUS
  <2>2. f \in Frames
    <3>1. <<>> \in Seq(Ops)
      OBVIOUS
    <3>2. QED
      BY <1>2, <2>1, <3>1, NoMsgType, FrameType, LabelsType
  <2>3. Behaves(f) /\ Nested(f) /\ f.at = "close_stop"
    BY <2>1 DEF Frame, Behaves, Nested, Above
  <2>4. Begun(t)[Len(Begun(t))].at \notin {"rpc_done", "p_push"}
    BY <1>1, <1>3 DEF UserLabels
  <2>5. /\ Append(Begun(t), f)[Len(Append(Begun(t), f))] = f
        /\ Follows(stack[t], Append(Begun(t), f))
    BY <1>2, <1>3, <2>2, <2>3, <2>4, PushFollows
  <2>6. ~Carries(Append(Begun(t), f), "p_push")
    BY <2>3, <2>5 DEF Carries
  <2>7. SetStack(t, Append(Begun(t), f))
    BY <1>5, <2>1 DEF CallClose, Call
  <2>8. QED
    BY <1>4, <2>5, <2>6, <2>7
<1>6. CASE Join(t)
  BY <1>3, <1>4, <1>6 DEF Join
<1>7. CASE Destroy(t)
  <2>1. PICK td \in {<<"close", "join">>, <<"join">>} :
          SetStack(t, WithTop(stack[t], [Top(t) EXCEPT !.todo = td]))
    BY <1>7 DEF Destroy
  <2>2. PICK f : f = [Top(t) EXCEPT !.todo = td]
    OBVIOUS
  <2>3. /\ Top(t) \in Frames /\ Top(t) = stack[t][Len(stack[t])] /\ Shaped(stack[t])
    BY <1>1, RunningShape
  <2>4. td \in Seq(Ops)
    <3>1. <<"close", "join">> \in Seq(Ops) /\ <<"join">> \in Seq(Ops)
      BY DEF Ops
    <3>2. QED
      BY <2>1, <3>1
  <2>5. Top(t).at = "idle"
    BY <1>1, <1>7, Caller DEF Destroy, Calm
  <2>6. f \in Frames /\ f.at = "idle"
    BY <2>2, <2>3, <2>4, <2>5 DEF Frames
  <2>7. Behaves(f)
    BY <2>6 DEF Behaves
  <2>8. Top(t).at \notin Above
    BY <2>5 DEF Above
  <2>9. Follows(stack[t], WithTop(stack[t], f))
    BY <1>1, <1>2, <2>3, <2>5, <2>6, <2>7, <2>8, ShapedOn
  <2>10. ~Carries(WithTop(stack[t], f), "p_push")
    BY <1>1, <1>2, <2>6, TopIs DEF Carries
  <2>11. QED
    BY <1>4, <2>1, <2>2, <2>9, <2>10
<1>8. QED
  BY <1>5, <1>6, <1>7

\* lock_message_mutex and start_message on their way.
LEMMA LockIsSteady ==
  ASSUME TypeOK, LockInv, AnswerInv, NEW t \in Threads,
         LockCount(t) \/ LockAcquire(t) \/ LockCounted(t) \/ StartCheck(t)
  PROVE  Steady(t)
<1>1. /\ stack[t] # <<>> /\ ShapeInv /\ CallInv
      /\ UNCHANGED <<next_id, in_stream, answers, out_stream, status>>
  BY DEF LockCount, LockAcquire, LockCounted, StartCheck, At, hist, local, env, AnswerInv
<1>2. Quiet(t)
  BY LockIsQuiet
<1>3. ASSUME Tracks(t), ~Carries(stack'[t], "p_push") PROVE Steady(t)
  BY <1>1, <1>2, <1>3, QuietSteady
<1>4. Top(t).at \in Lockers /\ Top(t).at \notin {"await_pop", "rpc_done", "p_push"}
  BY DEF LockCount, LockAcquire, LockCounted, StartCheck, At, Lockers
<1>5. ASSUME NEW l \in {"lock_acquire", "lock_counted", "lock_count"}, SetStack(t, Moved(t, l))
      PROVE  Steady(t)
  <2>1. /\ l \in Labels /\ l \in Above
        /\ l \notin UserLabels \cup {"rpc_done", "dispatch", "send_flush", "shutdown_flush"}
    BY LabelsType DEF Above, UserLabels
  <2>2. Tracks(t) /\ ~Carries(stack'[t], "p_push")
    BY <1>1, <1>4, <1>5, <2>1, MovesTrack
  <2>3. QED
    BY <1>3, <2>2
<1>6. CASE LockCounted(t)
  <2>1. Tracks(t) /\ ~Carries(stack'[t], "p_push")
    BY <1>1, <1>4, <1>6, ReturnsTrack DEF LockCounted
  <2>2. QED
    BY <1>3, <2>1
<1>7. CASE StartCheck(t) /\ status # "OPEN" /\ Throw(t, stack[t])
  <2>1. /\ stack[t] \in Seq(Frames) /\ Shaped(stack[t]) /\ Sound(t, stack[t], held[t])
        /\ status \in Statuses
    BY <1>1, RunningShape, Running DEF TypeOK
  <2>2. Kept(stack[t], stack[t])
    BY <2>1, KeptOn
  <2>3. Dead' \/ ~Waits(stack[t])
    BY <1>1, <1>7, <2>1, NoneBeforeStart DEF Dead, Statuses
  <2>4. Tracks(t) /\ ~Carries(stack'[t], "p_push")
    BY <1>1, <1>4, <1>7, <2>1, <2>2, <2>3, ThrowsTrack
  <2>5. QED
    BY <1>3, <2>4
<1>8. QED
  BY <1>5, <1>6, <1>7 DEF LockCount, LockAcquire, StartCheck

\* Flushes that nothing waits for, the update of the status by close(), and the failures
\* and waits that leave every stack alone.
LEMMA FlushIsSteady ==
  ASSUME TypeOK, LockInv, AnswerInv, NEW t \in Threads,
         \/ SendFlush(t) \/ ShutdownFlush(t) \/ CloseStop(t)
         \/ FlushFails(t) \/ AwaitBlocks(t) \/ AckFlush(t)
  PROVE  Steady(t)
<1>1. /\ stack[t] # <<>> /\ ShapeInv
      /\ Top(t).at \in FlushLabels \cup {"close_stop", "await_pop", "handle_pop"}
  BY DEF SendFlush, ShutdownFlush, CloseStop, FlushFails, AwaitBlocks, AckFlush, Awaiting, At,
    AnswerInv, FlushLabels
<1>2. UNCHANGED <<next_id, in_stream, answers>>
  BY DEF SendFlush, ShutdownFlush, CloseStop, FlushFails, AwaitBlocks, AckFlush, Written,
    hist, local, env
<1>3. Quiet(t)
  BY FlushIsQuiet
<1>4. status' = status \/ Dead'
  BY DEF SendFlush, ShutdownFlush, CloseStop, FlushFails, AwaitBlocks, AckFlush, StopThreads, Dead
<1>5. Top(t) \in Frames /\ Top(t).msg \in Msgs /\ Behaves(Top(t)) /\ Msg("shutdown", 0) \in Msgs
  BY <1>1, RunningShape, TopType, MsgType DEF Headers
<1>6. \/ UNCHANGED out_stream
      \/ \E m \in Msgs : m.header # "call" /\ out_stream' = Append(out_stream, m)
  <2>1. ASSUME NEW m \in Msgs, m.header # "call", Written(m)
        PROVE  \/ UNCHANGED out_stream
               \/ \E n \in Msgs : n.header # "call" /\ out_stream' = Append(out_stream, n)
    BY <2>1 DEF Written
  <2>2. CASE SendFlush(t) \/ ShutdownFlush(t)
    BY <1>5, <2>1, <2>2 DEF SendFlush, ShutdownFlush, At, Behaves
  <2>3. CASE AckFlush(t)
    BY <1>5, <2>1, <2>3 DEF AckFlush, Msg
  <2>4. CASE CloseStop(t) \/ FlushFails(t) \/ AwaitBlocks(t)
    BY <2>4 DEF CloseStop, FlushFails, AwaitBlocks, env
  <2>5. QED
    BY <2>2, <2>3, <2>4
<1>7. CASE SendFlush(t) \/ ShutdownFlush(t) \/ CloseStop(t) \/ AckFlush(t)
  <2>1. PICK l \in {"send_done", "shutdown_mark", "close_stream", "ack_done"} :
          SetStack(t, Moved(t, l))
    BY <1>7 DEF SendFlush, ShutdownFlush, CloseStop, AckFlush
  <2>2. /\ l \in Labels /\ l \in Above /\ l # "p_push"
        /\ l \notin UserLabels \cup {"rpc_done", "dispatch", "send_flush", "shutdown_flush"}
    BY LabelsType DEF Above, UserLabels
  <2>3. Top(t).at \notin {"await_pop", "rpc_done"}
    BY <1>7 DEF SendFlush, ShutdownFlush, CloseStop, AckFlush, At
  <2>4. Tracks(t) /\ ~Carries(stack'[t], "p_push")
    BY <1>1, <2>1, <2>2, <2>3, MovesTrack
  <2>5. QED
    BY <1>2, <1>3, <1>4, <1>6, <2>4, QuietSteady
<1>8. CASE FlushFails(t) \/ AwaitBlocks(t)
  <2>1. UNCHANGED stack
    BY <1>8 DEF FlushFails, AwaitBlocks
  <2>2. stack[t] \in Seq(Frames) /\ Shaped(stack[t]) /\ Top(t) = stack[t][Len(stack[t])]
    BY <1>1, RunningShape
  <2>3. Kept(stack[t], stack[t])
    BY <2>2, KeptOn
  <2>4. Top(t).at # "p_push"
    BY <1>1 DEF FlushLabels
  <2>5. Tracks(t) /\ ~Carries(stack'[t], "p_push")
    BY <2>1, <2>2, <2>3, <2>4 DEF Tracks, Carries
  <2>6. QED
    BY <1>2, <1>3, <1>4, <1>6, <2>5, QuietSteady
<1>9. QED
  BY <1>7, <1>8

\* The ends of calls.
LEMMA EndIsSteady ==
  ASSUME TypeOK, LockInv, AnswerInv, NEW t \in Threads,
         \/ SendDone(t) \/ RpcDone(t) \/ AwaitDone(t) \/ AckDone(t) \/ HandlerReturn(t)
         \/ SyncDone(t) \/ SetHandlers(t) \/ ShutdownMark(t) \/ CloseStream(t)
  PROVE  Steady(t)
<1>1. stack[t] # <<>> /\ SetStack(t, Under(stack[t])) /\ ShapeInv /\ Top(t).at # "await_pop"
  BY DEF SendDone, RpcDone, AwaitDone, AckDone, HandlerReturn, SyncDone, SetHandlers,
    ShutdownMark, CloseStream, At, Return, AnswerInv
<1>2. UNCHANGED <<next_id, in_stream, answers, out_stream>>
  BY DEF SendDone, RpcDone, AwaitDone, AckDone, HandlerReturn, SyncDone, SetHandlers,
    ShutdownMark, CloseStream, hist, local, env
<1>3. status' = status \/ Dead'
  BY DEF SendDone, RpcDone, AwaitDone, AckDone, HandlerReturn, SyncDone, SetHandlers,
    ShutdownMark, CloseStream, StopThreads, Dead
<1>4. Quiet(t)
  BY EndIsQuiet
<1>5. Tracks(t) /\ ~Carries(stack'[t], "p_push")
  BY <1>1, ReturnsTrack
<1>6. QED
  BY <1>2, <1>3, <1>4, <1>5, QuietSteady

\* await_any_message on a closed transport abandons the calls of its thread.
LEMMA AwaitClosedIsSteady ==
  ASSUME TypeOK, LockInv, AnswerInv, NEW t \in Threads, AwaitClosed(t)
  PROVE  Steady(t)
<1>1. /\ stack[t] # <<>> /\ Throw(t, stack[t]) /\ ShapeInv /\ Top(t).at # "p_push" /\ Dead'
      /\ UNCHANGED <<next_id, in_stream, answers, out_stream, status>>
  BY DEF AwaitClosed, Awaiting, At, hist, local, env, AnswerInv, Dead
<1>2. stack[t] \in Seq(Frames) /\ Shaped(stack[t]) /\ Sound(t, stack[t], held[t])
  BY <1>1, RunningShape, Running
<1>3. Kept(stack[t], stack[t])
  BY <1>2, KeptOn
<1>4. Tracks(t) /\ ~Carries(stack'[t], "p_push")
  BY <1>1, <1>2, <1>3, ThrowsTrack
<1>5. Quiet(t)
  BY AwaitClosedIsQuiet
<1>6. QED
  BY <1>1, <1>4, <1>5, QuietSteady

\* consumer_loop and producer_loop, but for the steps that move messages.
LEMMA LoopIsSteady ==
  ASSUME TypeOK, LockInv, AnswerInv, NEW t \in Threads,
         \/ ProducerTop(t) \/ (ProducerRead(t) /\ UNCHANGED in_stream)
         \/ ConsumerTop(t) \/ ConsumerLock(t) \/ ConsumerDefer(t) \/ ConsumerExit(t)
         \/ ConsumerWait(t) \/ ConsumerHandled(t)
  PROVE  Steady(t)
<1>1. /\ stack[t] # <<>> /\ ShapeInv
      /\ Top(t).at \in {"p_top", "p_read", "c_top", "c_lock", "c_defer", "c_queue", "c_handled"}
  BY DEF ProducerTop, ProducerRead, ConsumerTop, ConsumerLock, ConsumerDefer, ConsumerExit,
    ConsumerWait, ConsumerHandled, At, AnswerInv
<1>2. UNCHANGED <<next_id, in_stream, answers, out_stream, status>>
  BY DEF ProducerTop, ProducerRead, ConsumerTop, ConsumerLock, ConsumerDefer, ConsumerExit,
    ConsumerWait, ConsumerHandled, hist, local, env
<1>3. Quiet(t)
  BY ProducerIsQuiet, ConsumerIsQuiet
<1>4. /\ Top(t).at \in Looping /\ Top(t).at \notin Above
      /\ Top(t).at \notin {"await_pop", "rpc_done"}
  BY <1>1 DEF Looping, Above
<1>5. CASE SetStack(t, <<>>)
  <2>1. Tracks(t) /\ ~Carries(stack'[t], "p_push")
    BY <1>1, <1>4, <1>5, EndsTrack
  <2>2. QED
    BY <1>2, <1>3, <2>1, QuietSteady
<1>6. ASSUME NEW l \in {"p_read", "close_stop", "c_top", "c_lock", "c_defer", "c_queue"},
             SetStack(t, Moved(t, l))
      PROVE  Steady(t)
  <2>1. /\ l \in Labels /\ l # "p_push"
        /\ l \notin UserLabels \cup {"rpc_done", "dispatch", "send_flush", "shutdown_flush"}
    BY LabelsType DEF UserLabels
  <2>2. Tracks(t) /\ ~Carries(stack'[t], "p_push")
    BY <1>1, <1>4, <1>6, <2>1, MovesTrack
  <2>3. QED
    BY <1>2, <1>3, <2>2, QuietSteady
<1>7. \/ SetStack(t, <<>>)
      \/ \E l \in {"p_read", "close_stop", "c_top", "c_lock", "c_defer", "c_queue"} :
           SetStack(t, Moved(t, l))
  <2>1. CASE ProducerTop(t) \/ ConsumerTop(t) \/ ConsumerLock(t)
    BY <2>1 DEF ProducerTop, ConsumerTop, ConsumerLock
  <2>2. CASE ConsumerDefer(t) \/ ConsumerExit(t) \/ ConsumerWait(t) \/ ConsumerHandled(t)
    BY <2>2 DEF ConsumerDefer, ConsumerExit, ConsumerWait, ConsumerHandled
  <2>3. CASE ProducerRead(t) /\ UNCHANGED in_stream
    <3>1. ASSUME in_stream # <<>>, in_stream' = Tail(in_stream) PROVE FALSE
      <4>1. Len(Tail(in_stream)) = Len(in_stream) - 1 /\ Len(in_stream) \in Nat
        BY <3>1, HeadTailProperties, LenProperties DEF TypeOK
      <4>2. QED
        BY <2>3, <3>1, <4>1
    <3>2. QED
      BY <2>3, <3>1 DEF ProducerRead, ReadFails
  <2>4. QED
    BY <2>1, <2>2, <2>3
<1>8. QED
  BY <1>5, <1>6, <1>7

\* A message goes to its handler, and a SHUTDOWN is answered.
LEMMA HandlingIsSteady ==
  ASSUME CalmHandlers, TypeOK, LockInv, AnswerInv, NEW t \in Threads,
         DispatchToHandler(t) \/ DispatchShutdown(t)
  PROVE  Steady(t)
<1>1. /\ stack[t] # <<>> /\ Top(t).at = "dispatch" /\ ShapeInv
      /\ UNCHANGED <<next_id, in_stream, answers, out_stream, status, queue>>
  BY DEF DispatchToHandler, DispatchShutdown, At, hist, local, env, AnswerInv
<1>2. /\ stack[t] \in Seq(Frames) /\ Top(t) \in Frames /\ Top(t) = stack[t][Len(stack[t])]
      /\ Shaped(stack[t]) /\ held[t] \in Nat
  BY <1>1, RunningShape DEF TypeOK
<1>3. ~Carries(stack'[t], "dispatch")
  BY DispatchesAreDispatches DEF Dispatches, Pends, Carries
<1>4. ASSUME Tracks(t), ~Carries(stack'[t], "p_push") PROVE Steady(t)
  BY <1>1, <1>3, <1>4 DEF Steady, Passes
<1>5. CASE DispatchToHandler(t)
  <2>1. PICK script \in HandlerScripts :
          SetStack(t, WithTop(stack[t], [Top(t) EXCEPT !.at = "handler", !.todo = script]))
    BY <1>5 DEF DispatchToHandler
  <2>2. PICK f : f = [Top(t) EXCEPT !.at = "handler", !.todo = script]
    OBVIOUS
  <2>3. script \in Seq(Ops) /\ script \in Seq(Calm)
    BY ScriptsAssumption, SeqMonotonic DEF CalmHandlers
  <2>4. f \in Frames /\ f.at = "handler" /\ f.todo = script
    BY <1>2, <2>2, <2>3, LabelsType DEF Frames
  <2>5. Behaves(f) /\ f.at \in Above
    BY <2>3, <2>4 DEF Behaves, Above
  <2>6. Follows(stack[t], WithTop(stack[t], f))
    BY <1>1, <1>2, <2>4, <2>5, ShapedOn
  <2>7. Tracks(t) /\ stack'[t] = WithTop(stack[t], f)
    BY <2>1, <2>2, <2>6, FollowsTracks
  <2>8. ~Carries(WithTop(stack[t], f), "p_push")
    BY <1>1, <1>2, <2>4, TopIs DEF Carries
  <2>9. QED
    BY <1>4, <2>7, <2>8
<1>6. CASE DispatchShutdown(t)
  <2>1. ASSUME NEW l \in {"ack_done", "ack_flush"}
        PROVE  /\ l \in Labels /\ l \in Above /\ l # "p_push"
               /\ l \notin UserLabels \cup {"rpc_done", "dispatch", "send_flush", "shutdown_flush"}
    BY LabelsType DEF Above, UserLabels
  <2>2. CASE SetStack(t, Moved(t, "ack_done"))
    <3>1. Tracks(t) /\ ~Carries(stack'[t], "p_push")
      BY <1>1, <2>1, <2>2, MovesTrack
    <3>2. QED
      BY <1>4, <3>1
  <2>3. CASE SetStack(t, Starting(Moved(t, "ack_flush"), held[t] + 1))
    <3>1. PICK f : f = [Top(t) EXCEPT !.at = "ack_flush"]
      OBVIOUS
    <3>2. f \in Frames /\ f.at = "ack_flush"
      BY <1>2, <3>1, LabelsType DEF Frames
    <3>3. Behaves(f) /\ f.at \in Above
      BY <3>2 DEF Behaves, Above
    <3>4. PICK s : s = WithTop(stack[t], f)
      OBVIOUS
    <3>5. s = Moved(t, "ack_flush")
      BY <3>1, <3>4 DEF Moved
    <3>6. s \in Seq(Frames) /\ s # <<>> /\ Len(s) = Len(stack[t]) /\ s[Len(stack[t])] = f
      BY <1>1, <1>2, <3>2, <3>4, TopIs
    <3>7. Follows(stack[t], s)
      BY <1>1, <1>2, <3>2, <3>3, <3>4, ShapedOn
    <3>8. PICK g : g = Frame("start_check", NoMsg, <<>>, held[t] + 1)
      OBVIOUS
    <3>9. held[t] + 1 \in Nat
      BY <1>2
    <3>10. g \in Frames /\ Behaves(g) /\ Nested(g) /\ g.at = "start_check"
      BY <3>8, <3>9, LockFrames
    <3>11. Append(s, g)[Len(Append(s, g))] = g /\ Follows(stack[t], Append(s, g))
      BY <1>2, <3>2, <3>6, <3>7, <3>10, PushFollows
    <3>12. SetStack(t, Append(s, g))
      BY <2>3, <3>5, <3>8 DEF Starting
    <3>13. Tracks(t) /\ stack'[t] = Append(s, g)
      BY <3>11, <3>12, FollowsTracks
    <3>14. QED
      BY <1>4, <3>10, <3>11, <3>13 DEF Carries
  <2>4. QED
    BY <1>6, <2>2, <2>3 DEF DispatchShutdown
<1>7. QED
  BY <1>5, <1>6

-----------------------------------------------------------------------------
(* Steps that move a call or an answer                                     *)

\* A call that waits stands below an await, or below what an await handles.
LEMMA WaitsBelow ==
  ASSUME TypeOK, ShapeInv, NEW t \in Threads, stack[t] # <<>>, Waits(stack[t])
  PROVE  Answering(Top(t)) \/ Nested(Top(t))
<1>1. /\ Len(stack[t]) \in 1 .. Len(stack[t]) /\ Top(t) = stack[t][Len(stack[t])]
      /\ Shaped(stack[t])
  BY RunningShape
<1>2. PICK i \in 1 .. Len(stack[t]) : i < Len(stack[t]) /\ stack[t][i].at = "rpc_done"
  BY DEF Waits
<1>3. Len(stack[t]) = i + 1 \/ Len(stack[t]) > i + 1
  BY <1>1, <1>2
<1>4. QED
  BY <1>1, <1>2, <1>3 DEF Shaped

\* While a thread holds the message mutex, only its own calls wait.
LEMMA WaitsAlone ==
  ASSUME TypeOK, LockInv, ShapeInv, NEW t \in Threads, held[t] > 0,
         NEW u \in Threads, NEW i \in 1 .. Len(stack[u]), stack[u][i].at = "rpc_done"
  PROVE  u = t
<1>1. held[u] > 0
  BY CallersHold
<1>2. QED
  BY <1>1 DEF LockInv, Exclusive

\* A thread takes a message to dispatch it.
LEMMA TakingAnswers ==
  ASSUME TypeOK, TypeOK', AnswerInv, NEW t \in Threads, Tracks(t),
         queue # <<>>, queue' = Tail(queue), stack'[t] # <<>>,
         stack'[t][Len(stack'[t])].at = "dispatch",
         stack'[t][Len(stack'[t])].msg = Head(queue),
         UNCHANGED <<status, next_id, in_stream, out_stream, answers, dropped>>
  PROVE  AnswerInv'
<1>1. ShapeInv /\ PipeInv /\ CallInv /\ queue \in Seq(Msgs) /\ next_id' = next_id
  BY DEF AnswerInv, TypeOK
<1>2. ShapeInv' /\ CallInv'
  BY <1>1, TracksCalls
<1>3. /\ Queued' => Queued
      /\ One(queue', "ret") /\ All(queue', "ret", next_id - 1)
      /\ Head(queue).header = "ret" => Queued /\ ~Queued' /\ Head(queue).id = next_id - 1
  <2>1. One(queue, "ret") /\ All(queue, "ret", next_id - 1)
    BY <1>1 DEF PipeInv
  <2>2. QED
    BY <1>1, <2>1, TailCounts DEF Queued
<1>4. Out' = Out /\ In' = In /\ Dead' = Dead
  BY DEF Out, In, Dead
<1>5. ~Carries(stack'[t], "p_push") /\ Top(t)'.msg = Head(queue)
      /\ (Carries(stack'[t], "dispatch") <=> Head(queue).header = "ret")
  BY DEF Carries, Top
<1>6. ASSUME NEW u \in Threads, u # t
      PROVE  /\ Carries(stack'[u], "p_push") <=> Carries(stack[u], "p_push")
             /\ Carries(stack'[u], "dispatch") <=> Carries(stack[u], "dispatch")
             /\ Top(u)' = Top(u)
  <2>1. stack'[u] = stack[u]
    BY <1>6 DEF Tracks
  <2>2. QED
    BY <2>1 DEF Top
<1>7. (Read' => Read) /\ (Taken' => Taken \/ Head(queue).header = "ret")
  BY <1>5, <1>6 DEF Read, Taken
<1>8. \A u, v \in Threads : Carries(stack'[u], "p_push") /\ Carries(stack'[v], "p_push") => u = v
  BY <1>1, <1>5, <1>6 DEF PipeInv
<1>9. ASSUME NEW u \in Threads, Carries(stack'[u], "p_push") \/ Carries(stack'[u], "dispatch")
      PROVE  Top(u)'.msg.id = next_id' - 1
  <2>1. CASE u = t
    BY <1>1, <1>3, <1>5, <1>9, <2>1
  <2>2. CASE u # t
    BY <1>1, <1>6, <1>9, <2>2 DEF PipeInv
  <2>3. QED
    BY <2>1, <2>2
<1>10. /\ Out' => ~In' /\ ~Read' /\ ~Queued' /\ ~Taken'
       /\ In' => ~Read' /\ ~Queued' /\ ~Taken'
       /\ Read' => ~Queued' /\ ~Taken'
       /\ Queued' => ~Taken'
  BY <1>1, <1>3, <1>4, <1>7 DEF PipeInv
<1>11. ASSUME Out' \/ In' \/ Read' \/ Queued' \/ Taken'
       PROVE  Dead' \/ \E u \in Threads : Waits(stack'[u])
  <2>1. Dead \/ \E u \in Threads : Waits(stack[u])
    BY <1>1, <1>3, <1>4, <1>7, <1>11 DEF PipeInv
  <2>2. QED
    BY <1>4, <2>1, TracksWaiting
<1>12. /\ One(out_stream', "call") /\ All(out_stream', "call", next_id' - 1)
       /\ One(in_stream', "ret") /\ All(in_stream', "ret", next_id' - 1)
       /\ One(queue', "ret") /\ All(queue', "ret", next_id' - 1)
  BY <1>1, <1>3 DEF PipeInv
<1>13. PipeInv'
  BY <1>8, <1>9, <1>10, <1>11, <1>12 DEF PipeInv
<1>14. QED
  BY <1>2, <1>13 DEF AnswerInv

\* What await_message handles itself, what handle_message handles and what consumer_loop
\* takes is no answer that a call below waits for.
LEMMA TakesKeepAnswers ==
  ASSUME TypeOK, TypeOK', LockInv, AnswerInv, NEW t \in Threads,
         AwaitOther(t) \/ HandleTake(t) \/ ConsumerTake(t)
  PROVE  AnswerInv'
<1>1. /\ stack[t] # <<>> /\ Top(t).at \in {"await_pop", "handle_pop", "c_queue"} /\ ShapeInv
      /\ queue # <<>> /\ queue' = Tail(queue)
      /\ UNCHANGED <<status, next_id, in_stream, out_stream, answers, dropped>>
  BY DEF AwaitOther, HandleTake, ConsumerTake, At, hist, local, env, AnswerInv
<1>2. /\ stack[t] \in Seq(Frames) /\ Top(t) \in Frames /\ Top(t) = stack[t][Len(stack[t])]
      /\ Shaped(stack[t]) /\ held[t] \in Nat /\ Head(queue) \in Msgs
  BY <1>1, RunningShape, HeadTailProperties DEF TypeOK
<1>3. PICK g : g = Dispatching(Head(queue), held[t])
  OBVIOUS
<1>4. /\ g \in Frames /\ g.at = "dispatch" /\ g.msg = Head(queue) /\ Behaves(g)
      /\ Head(queue).header # "ret" => Nested(g)
  BY <1>2, <1>3, DispatchingType DEF Dispatching, Frame, Behaves, Nested, Above
<1>5. ASSUME NEW s \in Seq(Frames), s # <<>>, Follows(stack[t], s),
             s[Len(s)].at \notin {"rpc_done", "p_push"},
             Answering(s[Len(s)]) \/ Nested(s[Len(s)]) => Nested(g),
             SetStack(t, Append(s, g))
      PROVE  AnswerInv'
  <2>1. /\ Append(s, g) # <<>> /\ Append(s, g)[Len(Append(s, g))] = g
        /\ Follows(stack[t], Append(s, g))
    BY <1>2, <1>4, <1>5, PushFollows
  <2>2. Tracks(t) /\ stack'[t] = Append(s, g)
    BY <1>5, <2>1, FollowsTracks
  <2>3. QED
    BY <1>1, <1>4, <2>1, <2>2, TakingAnswers
<1>6. CASE AwaitOther(t)
  <2>1. /\ Top(t).at = "await_pop" /\ SetStack(t, Append(stack[t], g))
        /\ Head(queue).header # Top(t).msg.header
    BY <1>3, <1>6 DEF AwaitOther, At
  <2>2. ~Nested(Top(t)) /\ (Answering(Top(t)) => Nested(g))
    BY <1>4, <2>1 DEF Nested, Above, Answering
  <2>3. Kept(stack[t], stack[t])
    BY <1>2, KeptOn
  <2>4. Follows(stack[t], stack[t])
    BY <1>2, <2>3 DEF Follows
  <2>5. QED
    BY <1>1, <1>2, <1>5, <2>1, <2>2, <2>4
<1>7. ASSUME NEW l \in {"handle_done", "handle_pop", "c_handled"}, Top(t).at # "await_pop",
             SetStack(t, Append(Moved(t, l), g))
      PROVE  AnswerInv'
  <2>1. PICK f : f = [Top(t) EXCEPT !.at = l]
    OBVIOUS
  <2>2. f \in Frames /\ f.at = l
    BY <1>2, <2>1, LabelsType DEF Frames
  <2>3. Behaves(f) /\ ~Answering(f) /\ ~Nested(f) /\ f.at \notin {"rpc_done", "p_push", "idle", "dispatch"}
    BY <2>2 DEF Behaves, Answering, Nested, Above
  <2>4. Top(t).at \notin Above \cup {"await_pop", "rpc_done"}
    BY <1>1, <1>7 DEF Above
  <2>5. PICK s : s = WithTop(stack[t], f)
    OBVIOUS
  <2>6. s = Moved(t, l)
    BY <2>1, <2>5 DEF Moved
  <2>7. s \in Seq(Frames) /\ s # <<>> /\ Len(s) = Len(stack[t]) /\ s[Len(stack[t])] = f
    BY <1>1, <1>2, <2>2, <2>5, TopIs
  <2>8. Follows(stack[t], s)
    BY <1>1, <1>2, <2>2, <2>3, <2>4, <2>5, ShapedOn
  <2>9. QED
    BY <1>5, <1>7, <2>3, <2>6, <2>7, <2>8
<1>8. CASE HandleTake(t)
  BY <1>3, <1>7, <1>8 DEF HandleTake, At
<1>9. CASE ConsumerTake(t)
  BY <1>3, <1>7, <1>9 DEF ConsumerTake, At
<1>10. QED
  BY <1>6, <1>8, <1>9

\* The other threads hold what they held.
LEMMA OthersCarry ==
  ASSUME NEW t \in Threads, \A u \in Threads \ {t} : stack'[u] = stack[u],
         NEW u \in Threads, u # t
  PROVE  /\ Carries(stack'[u], "p_push") <=> Carries(stack[u], "p_push")
         /\ Carries(stack'[u], "dispatch") <=> Carries(stack[u], "dispatch")
         /\ Top(u)' = Top(u)
BY DEF Top

\* await_message finds what it waits for; to the call below it, that is its own answer.
LEMMA MatchKeepsAnswers ==
  ASSUME TypeOK, TypeOK', LockInv, AnswerInv, NEW t \in Threads, AwaitMatch(t)
  PROVE  AnswerInv'
<1>1. /\ stack[t] # <<>> /\ Top(t).at = "await_pop" /\ ShapeInv /\ PipeInv /\ CallInv
      /\ queue # <<>> /\ queue' = Tail(queue) /\ queue \in Seq(Msgs)
      /\ Head(queue).header = Top(t).msg.header /\ Len(stack[t]) > 1
      /\ SetStack(t, Under(stack[t]))
      /\ UNCHANGED <<status, next_id, in_stream, out_stream, dropped>>
  BY DEF AwaitMatch, At, hist, local, env, AnswerInv, TypeOK
<1>2. /\ stack[t] \in Seq(Frames) /\ Top(t) = stack[t][Len(stack[t])] /\ Shaped(stack[t])
      /\ Len(stack[t]) \in 1 .. Len(stack[t])
  BY <1>1, RunningShape
<1>3. PICK k \in Nat : k + 1 = Len(stack[t]) /\ k = Len(stack[t]) - 1 /\ k \in 1 .. Len(stack[t])
  <2>1. Len(stack[t]) \in Nat
    BY <1>2, LenProperties
  <2>2. Len(stack[t]) - 1 \in Nat /\ Len(stack[t]) - 1 \in 1 .. Len(stack[t])
        /\ (Len(stack[t]) - 1) + 1 = Len(stack[t])
    BY <1>1, <2>1
  <2>3. QED
    BY <2>2
<1>4. PICK r : r = Under(stack[t])
  OBVIOUS
<1>5. /\ r \in Seq(Frames) /\ Len(r) = k /\ \A i \in 1 .. k : r[i] = stack[t][i]
  <2>1. r \in Seq(Frames) /\ Len(r) = Len(stack[t]) - 1
    BY <1>1, <1>2, <1>4, UnderProperties
  <2>2. \A i \in 1 .. Len(stack[t]) - 1 : r[i] = stack[t][i]
    BY <1>1, <1>2, <1>4, UnderProperties
  <2>3. QED
    BY <1>3, <2>1, <2>2
<1>6. stack'[t] = r /\ \A u \in Threads \ {t} : stack'[u] = stack[u]
  BY <1>1, <1>4, Stacks
<1>7. ASSUME NEW i \in 1 .. Len(stack[t]), i < k PROVE stack[t][i].at # "rpc_done"
  <2>1. ~Nested(Top(t)) /\ Len(stack[t]) > i + 1
    BY <1>1, <1>2, <1>3, <1>7 DEF Nested, Above
  <2>2. QED
    BY <1>2, <2>1 DEF Shaped
<1>8. Shaped(r) /\ r # <<>> /\ k \in 1 .. k
  <2>1. Shaped(r)
    <3>1. \A i \in 1 .. Len(r) : i \in 1 .. Len(stack[t]) /\ i < Len(stack[t]) /\ r[i] = stack[t][i]
      BY <1>2, <1>3, <1>5
    <3>2. QED
      BY <1>2, <3>1 DEF Shaped
  <2>2. r # <<>> /\ k \in 1 .. k
    BY <1>1, <1>3, <1>5, EmptySeq
  <2>3. QED
    BY <2>1, <2>2
<1>9. ShapeInv'
  BY <1>1, <1>6, <1>8 DEF ShapeInv
<1>10. ~Carries(stack'[t], "p_push") /\ ~Carries(stack'[t], "dispatch")
  <2>1. Takes(t)
    BY TakesAreTakes
  <2>2. r[k].at # "p_push"
    BY <1>2, <1>3, <1>5, <1>8 DEF Shaped
  <2>3. k \in 1 .. Len(stack[t]) /\ k # Len(stack[t]) /\ r[k] = stack[t][k]
    BY <1>3, <1>5, <1>8
  <2>4. stack[t][k].at # "dispatch"
    <3>1. Sound(t, stack[t], held[t])
      BY DEF LockInv
    <3>2. QED
      BY <2>3, <3>1 DEF Sound, Disciplined, Leaves
  <2>5. QED
    BY <1>5, <1>6, <2>2, <2>3, <2>4 DEF Carries
<1>11. ASSUME NEW u \in Threads, Carries(stack'[u], "p_push") \/ Carries(stack'[u], "dispatch")
       PROVE  /\ u # t /\ Top(u)' = Top(u)
              /\ Carries(stack'[u], "p_push") <=> Carries(stack[u], "p_push")
              /\ Carries(stack'[u], "dispatch") <=> Carries(stack[u], "dispatch")
  <2>1. u # t
    BY <1>10, <1>11
  <2>2. QED
    BY <1>6, <2>1, OthersCarry
<1>12. (Read' => Read) /\ (Taken' => Taken) /\ Out' = Out /\ In' = In /\ Dead' = Dead
  BY <1>1, <1>11 DEF Read, Taken, Out, In, Dead
<1>13. /\ Queued' => Queued
       /\ One(queue', "ret") /\ All(queue', "ret", next_id - 1)
       /\ Head(queue).header = "ret" => Queued /\ ~Queued' /\ Head(queue).id = next_id - 1
  <2>1. One(queue, "ret") /\ All(queue, "ret", next_id - 1)
    BY <1>1 DEF PipeInv
  <2>2. QED
    BY <1>1, <2>1, TailCounts DEF Queued
<1>14. stack[t][k].at = "rpc_done" => Head(queue).header = "ret"
  BY <1>1, <1>2, <1>3 DEF Shaped, Answering
<1>15. ASSUME Out' \/ In' \/ Read' \/ Queued' \/ Taken'
       PROVE  Dead' \/ \E u \in Threads : Waits(stack'[u])
  <2>1. stack[t][k].at # "rpc_done"
    BY <1>1, <1>12, <1>13, <1>14, <1>15 DEF PipeInv
  <2>2. ~Waits(stack[t])
    <3>1. \A i \in 1 .. Len(stack[t]) : i < Len(stack[t]) => i < k \/ i = k
      BY <1>2, <1>3
    <3>2. QED
      BY <1>7, <2>1, <3>1 DEF Waits
  <2>3. Dead \/ \E u \in Threads : Waits(stack[u])
    BY <1>1, <1>12, <1>13, <1>15 DEF PipeInv
  <2>4. QED
    BY <1>6, <1>12, <2>2, <2>3
<1>16. PipeInv'
  <2>1. /\ One(out_stream', "call") /\ All(out_stream', "call", next_id' - 1)
        /\ One(in_stream', "ret") /\ All(in_stream', "ret", next_id' - 1)
        /\ One(queue', "ret") /\ All(queue', "ret", next_id' - 1)
    BY <1>1, <1>13 DEF PipeInv
  <2>2. \A u, v \in Threads : Carries(stack'[u], "p_push") /\ Carries(stack'[v], "p_push") => u = v
    BY <1>1, <1>11 DEF PipeInv
  <2>3. \A u \in Threads : Carries(stack'[u], "p_push") \/ Carries(stack'[u], "dispatch")
          => Top(u)'.msg.id = next_id' - 1
    BY <1>1, <1>11 DEF PipeInv
  <2>4. /\ Out' => ~In' /\ ~Read' /\ ~Queued' /\ ~Taken'
        /\ In' => ~Read' /\ ~Queued' /\ ~Taken'
        /\ Read' => ~Queued' /\ ~Taken'
        /\ Queued' => ~Taken'
    BY <1>1, <1>12, <1>13 DEF PipeInv
  <2>5. QED
    BY <1>15, <2>1, <2>2, <2>3, <2>4 DEF PipeInv
<1>17. /\ answers \subseteq answers' /\ (\A a \in answers' : a[1] = a[2])
       /\ stack[t][k].at = "rpc_done" =>
            <<stack[t][k].msg.id, stack[t][k].msg.id>> \in answers'
  <2>1. k < Len(stack[t])
    BY <1>3
  <2>2. stack[t][k].at = "rpc_done" => stack[t][k].msg.id = Head(queue).id
    BY <1>1, <1>3, <1>13, <1>14, <2>1 DEF CallInv
  <2>3. answers' = IF stack[t][k].at = "rpc_done"
                     THEN answers \cup {<<stack[t][k].msg.id, Head(queue).id>>} ELSE answers
    BY <1>3 DEF AwaitMatch
  <2>4. \A a \in answers : a[1] = a[2]
    BY <1>1 DEF CallInv
  <2>5. QED
    BY <2>2, <2>3, <2>4
<1>18. ASSUME NEW u \in Threads, NEW i \in 1 .. Len(stack'[u]), stack'[u][i].at = "rpc_done"
       PROVE  /\ i < Len(stack'[u]) => /\ stack'[u][i].msg.id = next_id' - 1
                                       /\ Msg("ret", next_id' - 1) \notin dropped'
              /\ i = Len(stack'[u]) =>
                   <<stack'[u][i].msg.id, stack'[u][i].msg.id>> \in answers'
              /\ status' # "CREATED"
  <2>1. CASE u # t
    <3>1. stack'[u] = stack[u]
      BY <1>6, <2>1
    <3>2. QED
      BY <1>1, <1>17, <1>18, <3>1 DEF CallInv
  <2>2. CASE u = t
    <3>1. i \in 1 .. Len(stack[t]) /\ stack[t][i] = r[i] /\ (i < k \/ i = k) /\ i \in 1 .. k
      BY <1>2, <1>3, <1>5, <1>6, <1>18, <2>2
    <3>2. i = k /\ stack[t][k].at = "rpc_done"
      BY <1>6, <1>7, <1>18, <2>2, <3>1
    <3>3. status # "CREATED"
      BY <1>1, <3>1, <3>2 DEF CallInv
    <3>4. Len(stack'[u]) = k /\ ~(i < k) /\ stack'[u][i] = stack[t][k]
      BY <1>5, <1>6, <2>2, <3>1, <3>2
    <3>5. QED
      BY <1>1, <1>17, <3>2, <3>3, <3>4
  <2>3. QED
    BY <2>1, <2>2
<1>19. CallInv'
  BY <1>1, <1>17, <1>18 DEF CallInv
<1>20. QED
  BY <1>9, <1>16, <1>19 DEF AnswerInv

\* A message without a handler is dropped: never an answer that a call waits for.
LEMMA IgnoringKeepsAnswers ==
  ASSUME TypeOK, TypeOK', LockInv, AnswerInv, NEW t \in Threads, DispatchIgnored(t)
  PROVE  AnswerInv'
<1>1. /\ stack[t] # <<>> /\ Top(t).at = "dispatch" /\ ShapeInv /\ PipeInv /\ CallInv
      /\ SetStack(t, Under(stack[t])) /\ dropped' = dropped \cup {Top(t).msg}
      /\ UNCHANGED <<status, next_id, in_stream, out_stream, queue, answers>>
  BY DEF DispatchIgnored, Return, At, hist, local, env, AnswerInv
<1>2. /\ stack[t] \in Seq(Frames) /\ Top(t) = stack[t][Len(stack[t])] /\ Shaped(stack[t])
      /\ Top(t) \in Frames /\ Top(t).msg \in Msgs /\ Top(t).msg.id \in Nat
  BY <1>1, RunningShape, TopType DEF Msgs
<1>3. Tracks(t) /\ ~Carries(stack'[t], "p_push") /\ ~Carries(stack'[t], "dispatch")
  BY <1>1, ReturnsTrack, DispatchesAreDispatches DEF Dispatches, Pends, Carries
<1>4. Steady(t)
  BY <1>1, <1>3 DEF Steady, Passes
<1>5. PipeInv'
  BY <1>1, <1>4, SteadyPipe
<1>6. ShapeInv'
  BY <1>1, <1>3 DEF ShapeInv, Tracks
<1>7. Top(t).msg.header = "ret" => Top(t).msg.id = next_id - 1
  BY <1>1, <1>2 DEF PipeInv, Carries
<1>8. ASSUME Top(t).msg.header = "ret", NEW u \in Threads PROVE ~Waits(stack[u])
  <2>1. held[t] > 0
    BY <1>1, Running DEF Owners
  <2>2. u # t => ~Waits(stack[u])
    BY <1>1, <2>1, WaitsAlone DEF Waits
  <2>3. ~Answering(Top(t)) /\ ~Nested(Top(t))
    BY <1>1, <1>8 DEF Answering, Nested
  <2>4. ~Waits(stack[t])
    BY <1>1, <2>3, WaitsBelow
  <2>5. QED
    BY <2>2, <2>4
<1>9. ASSUME NEW u \in Threads, NEW i \in 1 .. Len(stack'[u]), stack'[u][i].at = "rpc_done"
      PROVE  /\ i < Len(stack'[u]) => /\ stack'[u][i].msg.id = next_id' - 1
                                      /\ Msg("ret", next_id' - 1) \notin dropped'
             /\ i = Len(stack'[u]) =>
                  <<stack'[u][i].msg.id, stack'[u][i].msg.id>> \in answers'
             /\ status' # "CREATED"
  <2>1. Len(stack[u]) \in Nat /\ Len(stack'[u]) \in Nat
    BY LenProperties DEF TypeOK
  <2>2. /\ i \in 1 .. Len(stack[u]) /\ stack[u][i].at = "rpc_done"
        /\ stack[u][i].msg = stack'[u][i].msg /\ (i = Len(stack'[u]) <=> i = Len(stack[u]))
    <3>1. CASE u # t
      BY <1>3, <1>9, <3>1 DEF Tracks
    <3>2. CASE u = t
      BY <1>3, <1>9, <2>1, <3>2 DEF Tracks, Kept
    <3>3. QED
      BY <3>1, <3>2
  <2>3. i < Len(stack'[u]) => i < Len(stack[u])
    BY <1>9, <2>1, <2>2
  <2>4. i < Len(stack[u]) => Waits(stack[u])
    BY <2>2 DEF Waits
  <2>5. i < Len(stack'[u]) => Msg("ret", next_id - 1) # Top(t).msg
    BY <1>8, <2>3, <2>4 DEF Msg
  <2>6. QED
    BY <1>1, <2>2, <2>3, <2>5 DEF CallInv
<1>10. ASSUME NEW m \in dropped', m.header = "ret" PROVE m.id < next_id'
  BY <1>1, <1>2, <1>7, <1>10 DEF CallInv, TypeOK
<1>11. CallInv'
  BY <1>1, <1>9, <1>10 DEF CallInv
<1>12. QED
  BY <1>5, <1>6, <1>11 DEF AnswerInv

\* The producer reads a message from the stream.
LEMMA ReadingKeepsAnswers ==
  ASSUME TypeOK, TypeOK', LockInv, AnswerInv, NEW t \in Threads, ProducerRead(t)
  PROVE  AnswerInv'
<1>1. /\ stack[t] # <<>> /\ Top(t).at = "p_read" /\ ShapeInv /\ PipeInv /\ CallInv
      /\ UNCHANGED <<status, next_id, queue, out_stream, answers, dropped>>
  BY DEF ProducerRead, At, hist, local, AnswerInv
<1>2. CASE UNCHANGED in_stream
  BY <1>1, <1>2, LoopIsSteady, SteadyAnswers
<1>3. CASE /\ in_stream # <<>> /\ in_stream' = Tail(in_stream)
           /\ SetStack(t, WithTop(stack[t], [Top(t) EXCEPT !.at = "p_push",
                                                          !.msg = Head(in_stream)]))
  <2>1. /\ stack[t] \in Seq(Frames) /\ Top(t) = stack[t][Len(stack[t])] /\ Shaped(stack[t])
        /\ Top(t) \in Frames /\ Head(in_stream) \in Msgs /\ in_stream \in Seq(Msgs)
        /\ next_id' = next_id
    BY <1>1, <1>3, RunningShape, HeadTailProperties DEF TypeOK
  <2>2. PICK f : f = [Top(t) EXCEPT !.at = "p_push", !.msg = Head(in_stream)]
    OBVIOUS
  <2>3. f \in Frames /\ f.at = "p_push" /\ f.msg = Head(in_stream)
    BY <2>1, <2>2, LabelsType DEF Frames
  <2>4. Behaves(f) /\ Top(t).at \notin Above
    BY <1>1, <2>3 DEF Behaves, Above
  <2>5. Follows(stack[t], WithTop(stack[t], f))
    BY <1>1, <2>1, <2>3, <2>4, ShapedOn
  <2>6. Tracks(t) /\ stack'[t] = WithTop(stack[t], f)
    BY <1>3, <2>2, <2>5, FollowsTracks
  <2>7. /\ stack'[t] # <<>> /\ stack'[t][Len(stack'[t])] = f
    <3>1. /\ WithTop(stack[t], f) # <<>> /\ Len(WithTop(stack[t], f)) = Len(stack[t])
          /\ WithTop(stack[t], f)[Len(stack[t])] = f
      BY <1>1, <2>1, <2>3, TopIs
    <3>2. QED
      BY <2>6, <3>1
  <2>8. ShapeInv' /\ CallInv'
    BY <1>1, <2>6, TracksCalls
  <2>9. /\ In' => In
        /\ One(in_stream', "ret") /\ All(in_stream', "ret", next_id - 1)
        /\ Head(in_stream).header = "ret" => In /\ ~In' /\ Head(in_stream).id = next_id - 1
    <3>1. One(in_stream, "ret") /\ All(in_stream, "ret", next_id - 1)
      BY <1>1 DEF PipeInv
    <3>2. QED
      BY <1>3, <2>1, <3>1, TailCounts DEF In
  <2>10. Out' = Out /\ Queued' = Queued /\ Dead' = Dead
    BY <1>1 DEF Out, Queued, Dead
  <2>11. /\ ~Carries(stack'[t], "dispatch") /\ Top(t)'.msg = Head(in_stream)
         /\ (Carries(stack'[t], "p_push") <=> Head(in_stream).header = "ret")
    BY <2>3, <2>7 DEF Carries, Top
  <2>12. \A u \in Threads \ {t} : stack'[u] = stack[u]
    BY <2>6 DEF Tracks
  <2>13. ASSUME NEW u \in Threads, u # t
         PROVE  /\ Carries(stack'[u], "p_push") <=> Carries(stack[u], "p_push")
                /\ Carries(stack'[u], "dispatch") <=> Carries(stack[u], "dispatch")
                /\ Top(u)' = Top(u)
    BY <2>12, <2>13, OthersCarry
  <2>14. (Read' => Read \/ Head(in_stream).header = "ret") /\ (Taken' => Taken)
    BY <2>11, <2>13 DEF Read, Taken
  <2>15. ASSUME NEW u \in Threads, NEW v \in Threads,
                Carries(stack'[u], "p_push"), Carries(stack'[v], "p_push")
         PROVE  u = v
    <3>1. ASSUME NEW w \in Threads, w # t, Carries(stack'[w], "p_push"),
                 Carries(stack'[t], "p_push")
          PROVE  FALSE
      <4>1. In /\ Read
        BY <2>9, <2>11, <2>13, <3>1 DEF Read
      <4>2. QED
        BY <1>1, <4>1 DEF PipeInv
    <3>2. CASE u # t /\ v # t
      BY <1>1, <2>13, <2>15, <3>2 DEF PipeInv
    <3>3. QED
      BY <2>15, <3>1, <3>2
  <2>16. ASSUME NEW u \in Threads, Carries(stack'[u], "p_push") \/ Carries(stack'[u], "dispatch")
         PROVE  Top(u)'.msg.id = next_id' - 1
    <3>1. CASE u = t
      BY <2>1, <2>9, <2>11, <2>16, <3>1
    <3>2. CASE u # t
      BY <1>1, <2>1, <2>13, <2>16, <3>2 DEF PipeInv
    <3>3. QED
      BY <3>1, <3>2
  <2>17. /\ Out' => ~In' /\ ~Read' /\ ~Queued' /\ ~Taken'
         /\ In' => ~Read' /\ ~Queued' /\ ~Taken'
         /\ Read' => ~Queued' /\ ~Taken'
         /\ Queued' => ~Taken'
    BY <1>1, <2>9, <2>10, <2>14 DEF PipeInv
  <2>18. ASSUME Out' \/ In' \/ Read' \/ Queued' \/ Taken'
         PROVE  Dead' \/ \E u \in Threads : Waits(stack'[u])
    <3>1. Dead \/ \E u \in Threads : Waits(stack[u])
      BY <1>1, <2>9, <2>10, <2>14, <2>18 DEF PipeInv
    <3>2. QED
      BY <2>6, <2>10, <3>1, TracksWaiting
  <2>19. /\ One(out_stream', "call") /\ All(out_stream', "call", next_id' - 1)
         /\ One(in_stream', "ret") /\ All(in_stream', "ret", next_id' - 1)
         /\ One(queue', "ret") /\ All(queue', "ret", next_id' - 1)
    BY <1>1, <2>1, <2>9 DEF PipeInv
  <2>20. PipeInv'
    BY <2>15, <2>16, <2>17, <2>18, <2>19 DEF PipeInv
  <2>21. QED
    BY <2>8, <2>20 DEF AnswerInv
<1>4. QED
  BY <1>2, <1>3 DEF ProducerRead

\* The producer queues what it has read.
LEMMA PushingKeepsAnswers ==
  ASSUME TypeOK, TypeOK', LockInv, AnswerInv, NEW t \in Threads, ProducerPush(t)
  PROVE  AnswerInv'
<1>1. /\ stack[t] # <<>> /\ Top(t).at = "p_push" /\ ShapeInv /\ PipeInv /\ CallInv
      /\ queue' = Append(queue, Top(t).msg) /\ queue \in Seq(Msgs)
      /\ UNCHANGED <<status, next_id, in_stream, out_stream, answers, dropped>>
  BY DEF ProducerPush, At, hist, local, env, AnswerInv, TypeOK
<1>2. /\ Top(t) = stack[t][Len(stack[t])] /\ Top(t).msg \in Msgs /\ next_id' = next_id
  BY <1>1, RunningShape, TopType
<1>3. Tracks(t) /\ ~Carries(stack'[t], "p_push") /\ ~Carries(stack'[t], "dispatch")
  <2>1. "p_push" \in Looping /\ "p_push" \notin Above
    BY DEF Looping, Above
  <2>2. CASE SetStack(t, <<>>)
    BY <1>1, <2>1, <2>2, EndsTrack, Stacks DEF Carries
  <2>3. CASE SetStack(t, Moved(t, "p_top"))
    <3>1. /\ "p_top" \in Labels
          /\ "p_top" \notin UserLabels \cup {"rpc_done", "dispatch", "send_flush", "shutdown_flush"}
      BY LabelsType DEF UserLabels
    <3>2. QED
      BY <1>1, <2>1, <2>3, <3>1, MovesTrack
  <2>4. QED
    BY <2>2, <2>3 DEF ProducerPush, AfterPush
<1>4. ShapeInv' /\ CallInv'
  BY <1>1, <1>3, TracksCalls
<1>5. Carries(stack[t], "p_push") <=> Top(t).msg.header = "ret"
  BY <1>1, <1>2 DEF Carries
<1>6. Top(t).msg.header = "ret" => Read /\ ~Queued /\ Top(t).msg.id = next_id - 1
  BY <1>1, <1>5 DEF Read, PipeInv
<1>7. /\ Queued' <=> Queued \/ Top(t).msg.header = "ret"
      /\ One(queue', "ret") /\ All(queue', "ret", next_id - 1)
  <2>1. One(queue, "ret") /\ All(queue, "ret", next_id - 1)
    BY <1>1 DEF PipeInv
  <2>2. Top(t).msg.header = "ret" => ~Has(queue, "ret") /\ Top(t).msg.id = next_id - 1
    BY <1>6 DEF Queued
  <2>3. QED
    BY <1>1, <1>2, <2>1, <2>2, AppendCounts DEF Queued
<1>8. Out' = Out /\ In' = In /\ Dead' = Dead
  BY <1>1 DEF Out, In, Dead
<1>9. \A u \in Threads \ {t} : stack'[u] = stack[u]
  BY <1>3 DEF Tracks
<1>10. ASSUME NEW u \in Threads, Carries(stack'[u], "p_push") \/ Carries(stack'[u], "dispatch")
       PROVE  /\ u # t /\ Top(u)' = Top(u)
              /\ Carries(stack'[u], "p_push") <=> Carries(stack[u], "p_push")
              /\ Carries(stack'[u], "dispatch") <=> Carries(stack[u], "dispatch")
  <2>1. u # t
    BY <1>3, <1>10
  <2>2. QED
    BY <1>9, <2>1, OthersCarry
<1>11. (Read' => Read) /\ (Taken' => Taken)
  BY <1>10 DEF Read, Taken
<1>12. Top(t).msg.header = "ret" => ~Read'
  BY <1>1, <1>5, <1>10 DEF Read, PipeInv
<1>13. /\ Out' => ~In' /\ ~Read' /\ ~Queued' /\ ~Taken'
       /\ In' => ~Read' /\ ~Queued' /\ ~Taken'
       /\ Read' => ~Queued' /\ ~Taken'
       /\ Queued' => ~Taken'
  BY <1>1, <1>6, <1>7, <1>8, <1>11, <1>12 DEF PipeInv
<1>14. ASSUME Out' \/ In' \/ Read' \/ Queued' \/ Taken'
       PROVE  Dead' \/ \E u \in Threads : Waits(stack'[u])
  <2>1. Dead \/ \E u \in Threads : Waits(stack[u])
    BY <1>1, <1>6, <1>7, <1>8, <1>11, <1>14 DEF PipeInv
  <2>2. QED
    BY <1>3, <1>8, <2>1, TracksWaiting
<1>15. /\ One(out_stream', "call") /\ All(out_stream', "call", next_id' - 1)
       /\ One(in_stream', "ret") /\ All(in_stream', "ret", next_id' - 1)
       /\ One(queue', "ret") /\ All(queue', "ret", next_id' - 1)
  BY <1>1, <1>2, <1>7 DEF PipeInv
<1>16. \A u, v \in Threads : Carries(stack'[u], "p_push") /\ Carries(stack'[v], "p_push") => u = v
  BY <1>1, <1>10 DEF PipeInv
<1>17. \A u \in Threads : Carries(stack'[u], "p_push") \/ Carries(stack'[u], "dispatch")
         => Top(u)'.msg.id = next_id' - 1
  BY <1>1, <1>2, <1>10 DEF PipeInv
<1>18. PipeInv'
  BY <1>13, <1>14, <1>15, <1>16, <1>17 DEF PipeInv
<1>19. QED
  BY <1>4, <1>18 DEF AnswerInv

\* A call is sent: the caller holds the message mutex, so no other call is under way.
LEMMA CallingKeepsAnswers ==
  ASSUME TypeOK, TypeOK', LockInv, AnswerInv, NEW t \in Threads, RpcFlush(t)
  PROVE  AnswerInv'
<1>1. /\ stack[t] # <<>> /\ Top(t).at = "rpc_flush" /\ ShapeInv /\ PipeInv /\ CallInv
      /\ status = "OPEN" /\ next_id' = next_id + 1 /\ next_id \in Nat
      /\ UNCHANGED <<status, in_stream, queue, answers, dropped>>
      /\ out_stream \in Seq(Msgs)
      /\ out_stream' = Append(out_stream, Msg("call", next_id)) \/ out_stream' = out_stream
  BY DEF RpcFlush, At, Written, hist, AnswerInv, TypeOK
<1>2. /\ stack[t] \in Seq(Frames) /\ Top(t) = stack[t][Len(stack[t])] /\ Shaped(stack[t])
      /\ Top(t) \in Frames /\ Len(stack[t]) \in 1 .. Len(stack[t]) /\ held[t] \in Nat
  BY <1>1, RunningShape DEF TypeOK
<1>3. held[t] > 0
  BY <1>1, Running DEF Owners
<1>4. ~Answering(Top(t)) /\ ~Nested(Top(t))
  BY <1>1 DEF Answering, Nested, Above
<1>5. ~Waits(stack[t])
  BY <1>1, <1>4, WaitsBelow
<1>6. ASSUME NEW u \in Threads, NEW i \in 1 .. Len(stack[u]), u # t PROVE stack[u][i].at # "rpc_done"
  BY <1>1, <1>3, <1>6, WaitsAlone
<1>7. \A u \in Threads : ~Waits(stack[u])
  BY <1>5, <1>6 DEF Waits
<1>8. ~Out /\ ~In /\ ~Read /\ ~Queued /\ ~Taken
  BY <1>1, <1>7 DEF PipeInv, Dead
<1> DEFINE call == Msg("call", next_id)
           f == [Top(t) EXCEPT !.at = "rpc_done", !.msg = call]
           g == Frame("await_pop", Msg("ret", 0), <<>>, held[t])
           k == Frame("lock_count", NoMsg, <<>>, held[t])
<1>9. <<>> \in Seq(Ops) /\ call \in Msgs /\ call.id = next_id /\ call.header = "call"
      /\ Msg("ret", 0) \in Msgs /\ NoMsg \in Msgs
  BY <1>1, MsgType, NoMsgType DEF Headers, Msg
<1>10. f \in Frames /\ f.at = "rpc_done" /\ f.msg = call
  BY <1>2, <1>9, LabelsType DEF Frames
<1>11. g \in Frames /\ k \in Frames
  BY <1>2, <1>9, FrameType, LabelsType
<1>12. /\ Answering(g) /\ g.at = "await_pop" /\ Nested(k) /\ k.at = "lock_count"
       /\ Behaves(f) /\ Behaves(g) /\ Behaves(k)
  BY <1>3, <1>10 DEF Frame, Msg, Answering, Nested, Above, Behaves
<1>13. SetStack(t, Append(Append(WithTop(stack[t], f), g), k))
  BY DEF RpcFlush, Locking
<1> HIDE DEF call, f, g, k
<1>14. PICK r : r = WithTop(stack[t], f)
  OBVIOUS
<1>15. Shaped(r)
  BY <1>1, <1>2, <1>10, <1>12, <1>14, ShapedOn DEF Above
<1>16. r \in Seq(Frames) /\ r # <<>> /\ Len(r) = Len(stack[t]) /\ r[Len(stack[t])] = f
  BY <1>1, <1>2, <1>10, <1>14, TopIs
<1>17. \A i \in 1 .. Len(stack[t]) - 1 : r[i] = stack[t][i]
  BY <1>1, <1>2, <1>10, <1>14, WithTopProperties
<1>18. ~Answering(r[Len(r)]) /\ ~Nested(r[Len(r)]) /\ r[Len(r)].at # "p_push"
  BY <1>10, <1>16 DEF Answering, Nested, Above
<1>19. PICK q : q = Append(r, g)
  OBVIOUS
<1>20. Shaped(q)
  BY <1>11, <1>12, <1>15, <1>16, <1>18, <1>19, ShapedInto
<1>21. /\ q \in Seq(Frames) /\ q # <<>> /\ Len(r) \in Nat /\ Len(q) = Len(r) + 1
       /\ q[Len(r) + 1] = g /\ \A i \in 1 .. Len(r) : q[i] = r[i]
  BY <1>11, <1>16, <1>19, PushProperties
<1>22. PICK s : s = Append(q, k)
  OBVIOUS
<1>23. Shaped(s)
  <2>1. q[Len(q)] = g
    BY <1>21
  <2>2. q[Len(q)].at # "rpc_done" /\ q[Len(q)].at # "p_push" /\ k.at # "idle"
    BY <1>12, <2>1
  <2>3. QED
    BY <1>11, <1>12, <1>20, <1>21, <1>22, <2>2, ShapedInto
<1>24. /\ Len(s) = Len(q) + 1 /\ s[Len(q) + 1] = k /\ \A i \in 1 .. Len(q) : s[i] = q[i]
       /\ s # <<>>
  BY <1>11, <1>21, <1>22, PushProperties
<1>25. stack'[t] = s /\ \A u \in Threads \ {t} : stack'[u] = stack[u]
  BY <1>13, <1>14, <1>19, <1>22, Stacks
<1>26. ShapeInv'
  BY <1>1, <1>23, <1>25 DEF ShapeInv
<1>27. /\ Len(stack[t]) \in 1 .. Len(s) /\ Len(stack[t]) < Len(s)
       /\ s[Len(stack[t])] = f
  <2>1. Len(stack[t]) \in Nat /\ Len(q) = Len(stack[t]) + 1 /\ Len(s) = Len(stack[t]) + 2
    BY <1>16, <1>21, <1>24
  <2>2. Len(stack[t]) \in 1 .. Len(r) /\ Len(stack[t]) \in 1 .. Len(q)
    BY <1>2, <1>16, <2>1
  <2>3. s[Len(stack[t])] = f
    BY <1>16, <1>21, <1>24, <2>2
  <2>4. QED
    BY <1>2, <2>1, <2>3
<1>28. ASSUME NEW i \in 1 .. Len(s), i # Len(stack[t]) PROVE s[i].at # "rpc_done"
  <2>1. CASE i < Len(stack[t])
    <3>1. i \in 1 .. Len(stack[t]) - 1 /\ i \in 1 .. Len(r) /\ i \in 1 .. Len(q)
          /\ i \in 1 .. Len(stack[t])
      BY <1>2, <1>16, <1>21, <2>1
    <3>2. s[i] = stack[t][i]
      BY <1>17, <1>21, <1>24, <3>1
    <3>3. QED
      BY <1>5, <2>1, <3>1, <3>2 DEF Waits
  <2>2. CASE i = Len(stack[t]) + 1
    BY <1>12, <1>16, <1>21, <1>24, <2>2
  <2>3. CASE i = Len(stack[t]) + 2
    BY <1>12, <1>16, <1>21, <1>24, <2>3
  <2>4. QED
    BY <1>2, <1>16, <1>21, <1>24, <1>28, <2>1, <2>2, <2>3
<1>29. Waits(s) /\ ~Carries(s, "p_push") /\ ~Carries(s, "dispatch")
  <2>1. Waits(s)
    BY <1>10, <1>27 DEF Waits
  <2>2. s[Len(s)] = k
    BY <1>24
  <2>3. QED
    BY <1>12, <2>1, <2>2 DEF Carries
<1>30. ASSUME NEW u \in Threads
       PROVE  ~Carries(stack'[u], "p_push") /\ ~Carries(stack'[u], "dispatch")
  <2>1. CASE u = t
    BY <1>25, <1>29, <2>1
  <2>2. CASE u # t
    BY <1>8, <1>25, <2>2 DEF Read, Taken
  <2>3. QED
    BY <2>1, <2>2
<1>31. ~Read' /\ ~Taken' /\ ~In' /\ ~Queued'
  BY <1>1, <1>8, <1>30 DEF Read, Taken, In, Queued
<1>32. /\ One(in_stream', "ret") /\ All(in_stream', "ret", next_id' - 1)
       /\ One(queue', "ret") /\ All(queue', "ret", next_id' - 1)
  BY <1>1, <1>8 DEF In, Queued, Has, One, All
<1>33. One(out_stream', "call") /\ All(out_stream', "call", next_id' - 1)
  <2>1. next_id' - 1 = next_id /\ ~Has(out_stream, "call")
    BY <1>1, <1>8 DEF Out
  <2>2. One(out_stream, "call") /\ All(out_stream, "call", next_id)
    BY <2>1 DEF Has, One, All
  <2>3. out_stream' = out_stream \/ out_stream' = Append(out_stream, call)
    BY <1>1 DEF call
  <2>4. /\ One(Append(out_stream, call), "call")
        /\ All(Append(out_stream, call), "call", next_id)
    BY <1>1, <1>9, <2>1, <2>2, AppendCounts
  <2>5. QED
    BY <2>1, <2>2, <2>3, <2>4
<1>34. \E u \in Threads : Waits(stack'[u])
  BY <1>25, <1>29
<1>35. PipeInv'
  BY <1>30, <1>31, <1>32, <1>33, <1>34 DEF PipeInv
<1>36. ASSUME NEW u \in Threads, NEW i \in 1 .. Len(stack'[u]), stack'[u][i].at = "rpc_done"
       PROVE  /\ i < Len(stack'[u]) => /\ stack'[u][i].msg.id = next_id' - 1
                                       /\ Msg("ret", next_id' - 1) \notin dropped'
              /\ i = Len(stack'[u]) =>
                   <<stack'[u][i].msg.id, stack'[u][i].msg.id>> \in answers'
              /\ status' # "CREATED"
  <2>1. u = t
    BY <1>6, <1>25, <1>36
  <2>2. i = Len(stack[t])
    BY <1>25, <1>28, <1>36, <2>1
  <2>3. stack'[u][i] = f /\ i < Len(stack'[u]) /\ ~(i = Len(stack'[u]))
    BY <1>2, <1>25, <1>27, <2>1, <2>2
  <2>4. f.msg.id = next_id /\ next_id' - 1 = next_id
    BY <1>1, <1>9, <1>10
  <2>5. Msg("ret", next_id) \notin dropped
    <3>1. Msg("ret", next_id).header = "ret" /\ Msg("ret", next_id).id = next_id
      BY DEF Msg
    <3>2. QED
      BY <1>1, <3>1 DEF CallInv
  <2>6. QED
    BY <1>1, <2>3, <2>4, <2>5
<1>37. ASSUME NEW m \in dropped', m.header = "ret" PROVE m.id < next_id'
  <2>1. m \in dropped /\ m \in Msgs /\ m.id \in Nat
    BY <1>1 DEF TypeOK, Msgs
  <2>2. m.id < next_id
    BY <1>1, <1>37, <2>1 DEF CallInv
  <2>3. QED
    BY <1>1, <2>1, <2>2
<1>38. CallInv'
  BY <1>1, <1>36, <1>37 DEF CallInv
<1>39. QED
  BY <1>26, <1>35, <1>38 DEF AnswerInv

\* start() finds no call under way.
LEMMA StartingKeepsAnswers ==
  ASSUME TypeOK, TypeOK', LockInv, AnswerInv, NEW t \in Threads, Start(t)
  PROVE  AnswerInv'
<1>1. /\ stack[t] # <<>> /\ Top(t).at \in UserLabels /\ Top(t).todo # <<>>
      /\ ShapeInv /\ PipeInv /\ CallInv
      /\ UNCHANGED <<next_id, in_stream, out_stream, queue, answers, dropped>>
  BY DEF Start, Calls, hist, local, env, AnswerInv
<1>2. CASE status # "CREATED" /\ Throw(t, Begun(t)) /\ UNCHANGED status
  <2>1. ~Waits(stack[t]) /\ Top(t).at = "idle"
    BY <1>1, Caller DEF Start, Calm
  <2>2. Tracks(t) /\ ~Carries(stack'[t], "p_push")
    BY <1>1, <1>2, <2>1, RefusalsTrack
  <2>3. /\ Begun(t) \in Seq(Frames) /\ Begun(t) # <<>> /\ Sound(t, Begun(t), held[t])
        /\ ~Pends(stack[t])
    BY <1>1, Begins
  <2>4. ~Carries(stack'[t], "dispatch")
    BY <1>1, <1>2, <2>3, Throws DEF Pends, Carries
  <2>5. Steady(t)
    BY <1>1, <1>2, <2>2, <2>4 DEF Steady, Passes
  <2>6. QED
    BY <1>1, <2>5, SteadyAnswers
<1>3. CASE /\ status = "CREATED" /\ status' = "OPEN"
           /\ stack' = [stack EXCEPT ![t] = Begun(t),
                                     ![Producer] = <<Frame("p_top", NoMsg, <<>>, 0)>>,
                                     ![Consumer] = <<Frame("c_top", NoMsg, <<>>, 0)>>]
  <2>1. ASSUME NEW u \in Threads, NEW i \in 1 .. Len(stack[u]) PROVE stack[u][i].at # "rpc_done"
    BY <1>1, <1>3 DEF CallInv
  <2>2. \A u \in Threads : ~Waits(stack[u])
    BY <2>1 DEF Waits
  <2>3. ~Out /\ ~In /\ ~Read /\ ~Queued /\ ~Taken
    BY <1>1, <1>3, <2>2 DEF PipeInv, Dead
  <2>4. /\ Begun(t) \in Seq(Frames) /\ Begun(t) # <<>>
        /\ Begun(t)[Len(Begun(t))].at = Top(t).at
        /\ Shaped(Begun(t)) /\ Kept(stack[t], Begun(t)) /\ ~Carries(Begun(t), "p_push")
    BY <1>1, BegunFollows DEF Follows
  <2>5. ~Carries(Begun(t), "dispatch")
    BY <1>1, <2>4 DEF UserLabels, Carries
  <2>6. \A i \in 1 .. Len(Begun(t)) : Begun(t)[i].at # "rpc_done"
    <3>1. Len(stack[t]) \in Nat /\ Len(Begun(t)) \in Nat
      BY <2>4, LenProperties DEF TypeOK
    <3>2. QED
      BY <2>1, <2>4, <3>1 DEF Kept
  <2>7. ASSUME NEW l \in {"p_top", "c_top"}, NEW s, s = <<Frame(l, NoMsg, <<>>, 0)>>
        PROVE  /\ Shaped(s) /\ ~Carries(s, "p_push") /\ ~Carries(s, "dispatch")
               /\ \A i \in 1 .. Len(s) : s[i].at # "rpc_done"
    <3>1. PICK f : f = Frame(l, NoMsg, <<>>, 0)
      OBVIOUS
    <3>2. f.at = l /\ Behaves(f)
      BY <3>1 DEF Frame, Behaves
    <3>3. Len(s) = 1 /\ s[1] = f
      BY <2>7, <3>1
    <3>4. QED
      BY <3>2, <3>3 DEF Shaped, Carries
  <2>8. ASSUME NEW u \in Threads
        PROVE  /\ Shaped(stack'[u])
               /\ ~Carries(stack'[u], "p_push") /\ ~Carries(stack'[u], "dispatch")
               /\ \A i \in 1 .. Len(stack'[u]) : stack'[u][i].at # "rpc_done"
    <3>1. Producer \in Threads /\ Consumer \in Threads /\ Producer # Consumer
      BY DEF Threads, Workers, Producer, Consumer
    <3>2. stack \in [Threads -> Seq(Frames)]
      BY DEF TypeOK
    <3>3. CASE u = Producer
      <4>1. stack'[u] = <<Frame("p_top", NoMsg, <<>>, 0)>>
        BY <1>3, <3>1, <3>2, <3>3
      <4>2. QED
        BY <2>7, <4>1
    <3>4. CASE u = Consumer
      <4>1. stack'[u] = <<Frame("c_top", NoMsg, <<>>, 0)>>
        BY <1>3, <3>1, <3>2, <3>4
      <4>2. QED
        BY <2>7, <4>1
    <3>5. CASE u = t /\ u \notin {Producer, Consumer}
      <4>1. stack'[u] = Begun(t)
        BY <1>3, <3>1, <3>2, <3>5
      <4>2. QED
        BY <2>4, <2>5, <2>6, <4>1
    <3>6. CASE u # t /\ u \notin {Producer, Consumer}
      <4>1. stack'[u] = stack[u]
        BY <1>3, <3>1, <3>2, <3>6
      <4>2. QED
        BY <1>1, <2>1, <2>3, <4>1 DEF ShapeInv, Read, Taken
    <3>7. QED
      BY <3>3, <3>4, <3>5, <3>6
  <2>9. ~Out' /\ ~In' /\ ~Read' /\ ~Queued' /\ ~Taken'
    BY <1>1, <2>3, <2>8 DEF Out, In, Read, Queued, Taken
  <2>10. /\ One(out_stream', "call") /\ All(out_stream', "call", next_id' - 1)
         /\ One(in_stream', "ret") /\ All(in_stream', "ret", next_id' - 1)
         /\ One(queue', "ret") /\ All(queue', "ret", next_id' - 1)
    BY <1>1 DEF PipeInv
  <2>11. PipeInv'
    BY <2>8, <2>9, <2>10 DEF PipeInv
  <2>12. ShapeInv'
    BY <2>8 DEF ShapeInv
  <2>13. CallInv'
    BY <1>1, <2>8 DEF CallInv
  <2>14. QED
    BY <2>11, <2>12, <2>13 DEF AnswerInv
<1>4. QED
  BY <1>2, <1>3 DEF Start

\* The peer takes a message and answers a call, sends a call or a SHUTDOWN of its own, or
\* the connection breaks.
LEMMA EnvironmentKeepsAnswers ==
  ASSUME TypeOK, TypeOK', AnswerInv, Environment
  PROVE  AnswerInv'
<1>1. /\ ShapeInv /\ PipeInv /\ CallInv /\ in_stream \in Seq(Msgs) /\ out_stream \in Seq(Msgs)
      /\ UNCHANGED <<status, stack, next_id, queue, answers, dropped>>
  BY DEF Environment, PeerTake, PeerCall, PeerShutdown, ConnectionBreaks, local, hist, AnswerInv,
    TypeOK
<1>2. ShapeInv' /\ CallInv'
  BY <1>1 DEF ShapeInv, CallInv
<1>3. Read' = Read /\ Taken' = Taken /\ Queued' = Queued /\ Dead' = Dead
      /\ \A u \in Threads : Top(u)' = Top(u)
  BY <1>1 DEF Read, Taken, Queued, Dead, Top
<1>4. ASSUME (Out' => Out) /\ (In' => In \/ (Out /\ ~Out')),
             One(out_stream', "call"), All(out_stream', "call", next_id - 1),
             One(in_stream', "ret"), All(in_stream', "ret", next_id - 1)
      PROVE  AnswerInv'
  <2>1. /\ One(out_stream', "call") /\ All(out_stream', "call", next_id' - 1)
        /\ One(in_stream', "ret") /\ All(in_stream', "ret", next_id' - 1)
        /\ One(queue', "ret") /\ All(queue', "ret", next_id' - 1)
    BY <1>1, <1>4 DEF PipeInv
  <2>2. /\ \A u, v \in Threads :
             Carries(stack'[u], "p_push") /\ Carries(stack'[v], "p_push") => u = v
        /\ \A u \in Threads : Carries(stack'[u], "p_push") \/ Carries(stack'[u], "dispatch")
             => Top(u)'.msg.id = next_id' - 1
    BY <1>1, <1>3 DEF PipeInv
  <2>3. /\ Out' => ~In' /\ ~Read' /\ ~Queued' /\ ~Taken'
        /\ In' => ~Read' /\ ~Queued' /\ ~Taken'
        /\ Read' => ~Queued' /\ ~Taken'
        /\ Queued' => ~Taken'
    BY <1>1, <1>3, <1>4 DEF PipeInv
  <2>4. ASSUME Out' \/ In' \/ Read' \/ Queued' \/ Taken'
        PROVE  Dead' \/ \E u \in Threads : Waits(stack'[u])
    BY <1>1, <1>3, <1>4, <2>4 DEF PipeInv
  <2>5. PipeInv'
    BY <2>1, <2>2, <2>3, <2>4 DEF PipeInv
  <2>6. QED
    BY <1>2, <2>5 DEF AnswerInv
<1>5. /\ One(out_stream, "call") /\ All(out_stream, "call", next_id - 1)
      /\ One(in_stream, "ret") /\ All(in_stream, "ret", next_id - 1)
  BY <1>1 DEF PipeInv
<1>6. ASSUME NEW m \in Msgs, m.header # "ret", UNCHANGED out_stream,
             in_stream' = Append(in_stream, m)
      PROVE  AnswerInv'
  <2>1. (In' => In) /\ One(in_stream', "ret") /\ All(in_stream', "ret", next_id - 1)
    BY <1>1, <1>5, <1>6, AppendCounts DEF In
  <2>2. Out' = Out
    BY <1>6 DEF Out
  <2>3. QED
    BY <1>4, <1>5, <1>6, <2>1, <2>2
<1>7. CASE PeerCall \/ PeerShutdown
  <2>1. /\ Msg("shutdown", 0) \in Msgs /\ Msg("shutdown", 0).header # "ret"
        /\ Msg("call", peer_calls + 1) \in Msgs /\ Msg("call", peer_calls + 1).header # "ret"
    BY MsgType DEF Headers, Msg, TypeOK
  <2>2. QED
    BY <1>6, <1>7, <2>1 DEF PeerCall, PeerShutdown
<1>8. CASE ConnectionBreaks
  <2>1. out_stream' = <<>> /\ UNCHANGED in_stream
    BY <1>8 DEF ConnectionBreaks
  <2>2. ~Out' /\ One(out_stream', "call") /\ All(out_stream', "call", next_id - 1) /\ In' = In
    BY <2>1 DEF Out, In, Has, One, All
  <2>3. QED
    BY <1>4, <1>5, <2>1, <2>2
<1>9. CASE PeerTake
  <2>1. PICK m : m = Head(out_stream)
    OBVIOUS
  <2>2. /\ out_stream # <<>> /\ out_stream' = Tail(out_stream)
        /\ \/ UNCHANGED in_stream
           \/ m.header = "call" /\ in_stream' = Append(in_stream, Msg("ret", m.id))
           \/ in_stream' = Append(in_stream, Msg("shutdown", 0))
    BY <1>9, <2>1 DEF PeerTake
  <2>3. /\ m \in Msgs /\ (Out' => Out) /\ (m.header = "call" => Out /\ ~Out' /\ m.id = next_id - 1)
        /\ One(out_stream', "call") /\ All(out_stream', "call", next_id - 1)
    BY <1>1, <1>5, <2>1, <2>2, TailCounts DEF Out
  <2>4. CASE UNCHANGED in_stream
    BY <1>4, <1>5, <2>3, <2>4 DEF In
  <2>5. CASE m.header = "call" /\ in_stream' = Append(in_stream, Msg("ret", m.id))
    <3>1. PICK n : n = Msg("ret", m.id)
      OBVIOUS
    <3>2. m.id \in Nat
      BY <2>3 DEF Msgs
    <3>3. n \in Msgs /\ n.header = "ret" /\ n.id = next_id - 1
      BY <2>3, <2>5, <3>1, <3>2, MsgType DEF Msg, Headers
    <3>4. ~Has(in_stream, "ret")
      BY <1>1, <2>3, <2>5 DEF PipeInv, In
    <3>5. One(in_stream', "ret") /\ All(in_stream', "ret", next_id - 1)
      BY <1>1, <1>5, <2>5, <3>1, <3>3, <3>4, AppendCounts
    <3>6. QED
      BY <1>4, <2>3, <2>5, <3>5
  <2>6. CASE in_stream' = Append(in_stream, Msg("shutdown", 0))
    <3>1. PICK n : n = Msg("shutdown", 0)
      OBVIOUS
    <3>2. n \in Msgs /\ n.header = "shutdown"
      BY <3>1, MsgType DEF Msg, Headers
    <3>3. (In' => In) /\ One(in_stream', "ret") /\ All(in_stream', "ret", next_id - 1)
      BY <1>1, <1>5, <2>6, <3>1, <3>2, AppendCounts DEF In
    <3>4. QED
      BY <1>4, <2>3, <3>3
  <2>7. QED
    BY <2>2, <2>4, <2>5, <2>6
<1>10. QED
  BY <1>7, <1>8, <1>9 DEF Environment

-----------------------------------------------------------------------------
(* Every call gets its answer                                              *)

\* Every step of a thread keeps the calls and their answers together.
LEMMA StepKeepsAnswers ==
  ASSUME CalmHandlers, TypeOK, TypeOK', LockInv, AnswerInv, NEW t \in Threads, Step(t)
  PROVE  AnswerInv'
<1>1. ASSUME Steady(t), UNCHANGED dropped PROVE AnswerInv'
  BY <1>1, SteadyAnswers
<1>2. CASE LockCount(t) \/ LockAcquire(t) \/ LockCounted(t) \/ StartCheck(t)
  <2>1. UNCHANGED dropped
    BY <1>2 DEF LockCount, LockAcquire, LockCounted, StartCheck, hist
  <2>2. QED
    BY <1>1, <1>2, <2>1, LockIsSteady
<1>3. CASE \/ SendFlush(t) \/ ShutdownFlush(t) \/ CloseStop(t)
           \/ FlushFails(t) \/ AwaitBlocks(t) \/ AckFlush(t)
  <2>1. UNCHANGED dropped
    BY <1>3 DEF SendFlush, ShutdownFlush, CloseStop, FlushFails, AwaitBlocks, AckFlush, hist
  <2>2. QED
    BY <1>1, <1>3, <2>1, FlushIsSteady
<1>4. CASE \/ SendDone(t) \/ RpcDone(t) \/ AwaitDone(t) \/ AckDone(t) \/ HandlerReturn(t)
           \/ SyncDone(t) \/ SetHandlers(t) \/ ShutdownMark(t) \/ CloseStream(t)
  <2>1. UNCHANGED dropped
    BY <1>4 DEF SendDone, RpcDone, AwaitDone, AckDone, HandlerReturn, SyncDone, SetHandlers,
      ShutdownMark, CloseStream, hist
  <2>2. QED
    BY <1>1, <1>4, <2>1, EndIsSteady
<1>5. CASE CallSend(t) \/ CallSync(t) \/ CallHandlers(t)
  <2>1. UNCHANGED dropped
    BY <1>5 DEF CallSend, CallSync, CallHandlers, hist
  <2>2. QED
    BY <1>1, <1>5, <2>1, CallsAreSteady
<1>6. CASE AwaitClosed(t) \/ CallAwait(t) \/ CallShutdown(t)
  <2>1. UNCHANGED dropped
    BY <1>6 DEF AwaitClosed, CallAwait, CallShutdown, hist
  <2>2. QED
    BY <1>1, <1>6, <2>1, AwaitClosedIsSteady, CallAwaitIsSteady, CallShutdownIsSteady
<1>7. CASE CallClose(t) \/ Join(t) \/ Destroy(t)
  <2>1. UNCHANGED dropped
    BY <1>7 DEF CallClose, Join, Destroy, hist
  <2>2. QED
    BY <1>1, <1>7, <2>1, CloseIsSteady
<1>8. CASE \/ ProducerTop(t)
           \/ ConsumerTop(t) \/ ConsumerLock(t) \/ ConsumerDefer(t) \/ ConsumerExit(t)
           \/ ConsumerWait(t) \/ ConsumerHandled(t)
  <2>1. UNCHANGED dropped
    BY <1>8 DEF ProducerTop, ConsumerTop, ConsumerLock, ConsumerDefer, ConsumerExit, ConsumerWait,
      ConsumerHandled, hist
  <2>2. QED
    BY <1>1, <1>8, <2>1, LoopIsSteady
<1>9. CASE DispatchToHandler(t) \/ DispatchShutdown(t)
  <2>1. UNCHANGED dropped
    BY <1>9 DEF DispatchToHandler, DispatchShutdown
  <2>2. QED
    BY <1>1, <1>9, <2>1, HandlingIsSteady
<1>10. CASE AwaitMatch(t) \/ AwaitOther(t) \/ HandleTake(t) \/ ConsumerTake(t) \/ DispatchIgnored(t)
  BY <1>10, MatchKeepsAnswers, TakesKeepAnswers, IgnoringKeepsAnswers
<1>11. CASE ProducerRead(t) \/ ProducerPush(t) \/ RpcFlush(t) \/ Start(t)
  BY <1>11, ReadingKeepsAnswers, PushingKeepsAnswers, CallingKeepsAnswers, StartingKeepsAnswers
<1>12. QED
  BY <1>2, <1>3, <1>4, <1>5, <1>6, <1>7, <1>8, <1>9, <1>10, <1>11, Zenon DEF Step

\* Nothing is under way when the program starts.
LEMMA InitiallyAnswered ==
  ASSUME Init
  PROVE  AnswerInv
<1>1. PICK scripts :
        stack = [t \in Threads |->
                   IF t \in Users THEN <<Frame("idle", NoMsg, scripts[t], 0)>> ELSE <<>>]
  BY DEF Init
<1>2. ASSUME NEW t \in Threads
      PROVE  /\ Shaped(stack[t]) /\ ~Carries(stack[t], "p_push") /\ ~Carries(stack[t], "dispatch")
             /\ \A i \in 1 .. Len(stack[t]) : stack[t][i].at # "rpc_done"
  <2>1. CASE t \in Users
    <3>1. PICK f : f = Frame("idle", NoMsg, scripts[t], 0)
      OBVIOUS
    <3>2. f.at = "idle" /\ Behaves(f)
      BY <3>1 DEF Frame, Behaves
    <3>3. stack[t] = <<f>>
      BY <1>1, <2>1, <3>1
    <3>4. Len(stack[t]) = 1 /\ stack[t][1] = f
      BY <3>3
    <3>5. QED
      BY <3>2, <3>4 DEF Shaped, Carries
  <2>2. CASE t \notin Users
    <3>1. stack[t] = <<>> /\ Len(<<>>) = 0 /\ 1 .. 0 = {}
      BY <1>1, <2>2
    <3>2. QED
      BY <3>1 DEF Shaped, Carries
  <2>3. QED
    BY <2>1, <2>2
<1>3. ShapeInv
  BY <1>2 DEF ShapeInv
<1>4. /\ in_stream = <<>> /\ out_stream = <<>> /\ queue = <<>>
      /\ dropped = {} /\ answers = {}
  BY DEF Init
<1>5. PipeInv
  BY <1>2, <1>4 DEF PipeInv, Out, In, Read, Queued, Taken, Has, One, All
<1>6. CallInv
  BY <1>2, <1>4 DEF CallInv
<1>7. QED
  BY <1>3, <1>5, <1>6 DEF AnswerInv

\* Calls and answers stay together in every step.
LEMMA AnswersAreInductive ==
  ASSUME CalmHandlers, TypeOK, TypeOK', LockInv, AnswerInv, [Next]_vars
  PROVE  AnswerInv'
<1>1. ASSUME NEW t \in Threads, Step(t) PROVE AnswerInv'
  BY <1>1, StepKeepsAnswers
<1>2. ASSUME UNCHANGED <<status, stack, queue, next_id, in_stream, out_stream, dropped, answers>>
      PROVE  AnswerInv'
  BY <1>2 DEF AnswerInv, ShapeInv, PipeInv, CallInv, Out, In, Read, Queued, Taken, Dead, Top
<1>3. ASSUME NEW t \in Threads, SpuriousWakeup(t) PROVE AnswerInv'
  BY <1>2, <1>3 DEF SpuriousWakeup, local, hist
<1>4. CASE Environment
  BY <1>4, EnvironmentKeepsAnswers
<1>5. CASE Finished \/ UNCHANGED vars
  BY <1>2, <1>5 DEF Finished, vars, local, env, hist
<1>6. QED
  BY <1>1, <1>3, <1>4, <1>5 DEF Next

\* A remote procedure call gets the answer to itself, and while it waits that answer is not
\* dropped as a message without a handler, for any number of user threads, calls of the
\* peer, failures and closings; when no handler makes a call or awaits a message.
THEOREM AnswersArriveHome ==
  ASSUME CalmHandlers
  PROVE  Spec => []AnswersReachTheirCallers
<1>1. Init => AnswerInv
  BY InitiallyAnswered
<1>2. TypeOK /\ TypeOK' /\ LockInv /\ AnswerInv /\ [Next]_vars => AnswerInv'
  BY AnswersAreInductive
<1>3. TypeOK /\ AnswerInv => AnswersReachTheirCallers
  <2> SUFFICES ASSUME TypeOK, AnswerInv PROVE AnswersReachTheirCallers
    OBVIOUS
  <2>1. CallInv
    BY DEF AnswerInv
  <2>2. ASSUME NEW t \in Threads, NEW i \in DOMAIN stack[t], stack[t][i].at = "rpc_done"
        PROVE  \/ Msg("ret", stack[t][i].msg.id) \notin dropped
               \/ <<stack[t][i].msg.id, stack[t][i].msg.id>> \in answers
    <3>1. Len(stack[t]) \in Nat /\ DOMAIN stack[t] = 1 .. Len(stack[t])
      BY LenProperties DEF TypeOK
    <3>2. i \in 1 .. Len(stack[t]) /\ (i < Len(stack[t]) \/ i = Len(stack[t]))
      BY <2>2, <3>1
    <3>3. QED
      BY <2>1, <2>2, <3>2 DEF CallInv
  <2>3. QED
    BY <2>1, <2>2 DEF AnswersReachTheirCallers, CallInv
<1>4. QED
  BY <1>1, <1>2, <1>3, TypeCorrect, MutexIsExclusive, PTL DEF Spec


-----------------------------------------------------------------------------
(* Graceful use                                                            *)

\* What a thread may do that leaves sending and ending to others, and what a handler may
\* do that leaves the ending to the users.
Listening == {"await", "handle", "register", "unregister", "clear", "join"}
Handling == {"send", "rpc", "sync", "await", "handle", "register", "unregister", "clear", "reply"}
Ending == {"close", "destroy"}

\* The operations td shut the transport down before they close or destroy it;
\* likewise after they have started it.
ShutsFirst(td) ==
  \A j \in 1 .. Len(td) : td[j] \in Ending => \E k \in 1 .. j - 1 : td[k] = "shutdown"
InTurn(td) ==
  \A i, j \in 1 .. Len(td) : i < j /\ td[i] = "start" /\ td[j] \in Ending =>
    \E k \in i + 1 .. j - 1 : td[k] = "shutdown"

\* One user o starts, uses and ends the transport, in turn; the others listen, and what
\* handlers send is sent under the message lock.  The connection lasts, and the peer
\* leaves the shutdown to o.
GracefulUse(o) ==
  /\ ~PeerMayShutdown /\ ~MayBreak
  /\ HandlerScripts \subseteq Seq(Handling)
  /\ \A u \in Users \ {o} : UserScripts[u] \subseteq Seq(Listening)
  /\ \A td \in UserScripts[o] : InTurn(td)

\* Calls between start_message and the end of a flush, or of shutdown().
Leaving == {"shutdown_flush", "shutdown_mark"}
Closing == {"close_stop", "close_stream"}
Speaking == FlushLabels \cup {"shutdown_mark"}
\* Calls of thread t that may throw or send, which it makes from handlers only.
Loud(o, t) == IF t = o THEN {}
              ELSE {"send_flush", "rpc_flush", "start_check", "sync_run"} \cup
                   IF t \in Users THEN {} ELSE {"await_pop", "handle_pop"}
Ends(st) == st \in {"WRITE_CLOSED", "CLOSED"}

\* Call f of thread t, at position i of its stack, while the status is st.
Decent(o, t, st, i, f) ==
  /\ f.at = "handler" => f.todo \in Seq(Handling)
  /\ f.at = "sync_run" => f.todo \in Seq({"rpc"})
  /\ f.at = "idle" => i = 1 /\ t \in Users /\ (t # o => f.todo \in Seq(Listening))
  /\ f.at \in Leaving => t = o
  /\ f.at \in Closing => t = o \/ t \notin Users
  /\ f.at = "send_flush" => f.msg.header # "shutdown"
  /\ f.at # "ack_flush"
  /\ f.at \in {"dispatch", "handler", "ack_done"} => f.base > 0
  /\ f.at = "close_stop" => st # "OPEN"
  /\ f.at = "close_stream" => st = "CLOSED"
  /\ f.at = "ack_done" => Ends(st)

\* A stack of such calls: only a call that takes the lock is made from one that sends.
Shape(o, t, st, s) ==
  \A i \in 1 .. Len(s) :
    /\ Decent(o, t, st, i, s[i])
    /\ s[i].at \in Loud(o, t) => \E j \in 1 .. i - 1 : s[j].at = "handler"
    /\ s[i].at \in Speaking => \/ i = Len(s)
                               \/ /\ i = Len(s) - 1 /\ s[Len(s)].at \in Lockers
                                  /\ s[i].at # "shutdown_mark"
\* Who has passed the test of start_message finds the transport open when it flushes.
Live(st, s, n) ==
  /\ (\E i \in 1 .. Len(s) : s[i].at \in Speaking) /\ s[Len(s)].at # "start_check" => st = "OPEN"
  /\ s # <<>> /\ s[Len(s)].at \in Leaving => n > 0
\* What the user who ends the transport still has to do.
Plan(st, s) ==
  /\ st = "CREATED" => InTurn(s[1].todo)
  /\ st = "OPEN" => ShutsFirst(s[1].todo) \/ \E i \in 1 .. Len(s) : s[i].at \in Leaving
Fit(o, t, st, s, n) == Shape(o, t, st, s) /\ Live(st, s, n) /\ (t = o => Plan(st, s))

\* A SHUTDOWN is about to be queued or dispatched, or is under way, or the peer has sent its own;
\* all of which only the shutdown() of o can bring about.
Heard(s) == \E i \in 1 .. Len(s) : s[i].at \in {"p_push", "dispatch"} /\ s[i].msg.header = "shutdown"
Rumour == \/ Has(out_stream, "shutdown") \/ Has(in_stream, "shutdown") \/ Has(queue, "shutdown")
          \/ peer_shut
Marked(s) == \E i \in 1 .. Len(s) : s[i].at = "shutdown_mark"
Told(o) == Ends(status) \/ Marked(stack[o])

GracefulInv(o) ==
  /\ \A t \in Threads : Fit(o, t, status, stack[t], held[t]) /\ (Heard(stack[t]) => Told(o))
  /\ Rumour => Told(o)
  /\ conn = "up" /\ (~stream_open => status = "CLOSED") /\ ~aborted

\* Some call of the stack is a handler's.
Within(s) == \E j \in 1 .. Len(s) : s[j].at = "handler"

\* A stack with another innermost call f.
LEMMA Replaced ==
  ASSUME NEW s \in Seq(Frames), s # <<>>, NEW f \in Frames
  PROVE  /\ WithTop(s, f) \in Seq(Frames) /\ WithTop(s, f) # <<>> /\ Len(s) \in Nat \ {0}
         /\ Len(WithTop(s, f)) = Len(s) /\ WithTop(s, f)[Len(s)] = f
         /\ \A i \in 1 .. Len(s) - 1 : WithTop(s, f)[i] = s[i]
<1>1. \A i \in 1 .. Len(s) - 1 : WithTop(s, f)[i] = s[i]
  BY WithTopProperties
<1>2. Len(s) \in Nat \ {0}
  BY UnderProperties
<1>3. QED
  BY <1>1, <1>2, TopIs, Zenon

\* The innermost call goes on.
LEMMA ShapeOn ==
  ASSUME NEW o, NEW t, NEW st, NEW s \in Seq(Frames), s # <<>>, Shape(o, t, st, s),
         NEW f \in Frames, Decent(o, t, st, Len(s), f),
         f.at \in Loud(o, t) => s[Len(s)].at \in Loud(o, t),
         s[Len(s)].at \in Lockers => f.at \in Lockers
  PROVE  Shape(o, t, st, WithTop(s, f))
<1>1. PICK r : r = WithTop(s, f)
  OBVIOUS
<1>2. /\ Len(r) = Len(s) /\ r[Len(s)] = f /\ Len(s) \in Nat \ {0}
      /\ \A i \in 1 .. Len(s) - 1 : r[i] = s[i]
  BY <1>1, Replaced
<1>3. ASSUME NEW i \in 1 .. Len(r)
      PROVE  /\ Decent(o, t, st, i, r[i])
             /\ r[i].at \in Loud(o, t) => \E j \in 1 .. i - 1 : r[j].at = "handler"
             /\ r[i].at \in Speaking => \/ i = Len(r)
                                        \/ /\ i = Len(r) - 1 /\ r[Len(r)].at \in Lockers
                                           /\ r[i].at # "shutdown_mark"
  <2>1. CASE i < Len(s)
    <3>1. r[i] = s[i] /\ i \in 1 .. Len(s) /\ \A j \in 1 .. i - 1 : r[j] = s[j]
      BY <1>2, <2>1
    <3>2. QED
      BY <1>2, <2>1, <3>1 DEF Shape
  <2>2. CASE i = Len(s)
    <3>1. r[i] = f /\ i \in 1 .. Len(s) /\ \A j \in 1 .. i - 1 : r[j] = s[j]
      BY <1>2, <2>2
    <3>2. QED
      BY <1>2, <2>2, <3>1 DEF Shape
  <2>3. QED
    BY <1>2, <2>1, <2>2
<1>4. QED
  BY <1>1, <1>3 DEF Shape

\* A call is made.
LEMMA ShapeInto ==
  ASSUME NEW o, NEW t, NEW st, NEW s \in Seq(Frames), s # <<>>, Shape(o, t, st, s),
         NEW f \in Frames, Decent(o, t, st, Len(s) + 1, f), f.at \in Loud(o, t) => Within(s),
         s[Len(s)].at \in Speaking => f.at \in Lockers /\ s[Len(s)].at # "shutdown_mark",
         s[Len(s)].at \notin Lockers
  PROVE  Shape(o, t, st, Append(s, f))
<1>1. PICK r : r = Append(s, f)
  OBVIOUS
<1>2. Len(s) \in Nat \ {0}
  BY UnderProperties
<1>3. /\ Len(r) = Len(s) + 1 /\ r[Len(s) + 1] = f
      /\ \A i \in 1 .. Len(s) : r[i] = s[i]
  BY <1>1, AppendProperties
<1>4. ASSUME NEW i \in 1 .. Len(r)
      PROVE  /\ Decent(o, t, st, i, r[i])
             /\ r[i].at \in Loud(o, t) => \E j \in 1 .. i - 1 : r[j].at = "handler"
             /\ r[i].at \in Speaking => \/ i = Len(r)
                                        \/ /\ i = Len(r) - 1 /\ r[Len(r)].at \in Lockers
                                           /\ r[i].at # "shutdown_mark"
  <2>1. CASE i <= Len(s)
    <3>1. r[i] = s[i] /\ i \in 1 .. Len(s) /\ \A j \in 1 .. i - 1 : r[j] = s[j]
      BY <1>2, <1>3, <2>1
    <3>2. Decent(o, t, st, i, r[i]) /\ (r[i].at \in Loud(o, t) => \E j \in 1 .. i - 1 : r[j].at = "handler")
      BY <3>1 DEF Shape
    <3>3. r[i].at \in Speaking => i = Len(s)
      BY <3>1 DEF Shape
    <3>4. QED
      BY <1>2, <1>3, <3>1, <3>2, <3>3
  <2>2. CASE i = Len(s) + 1
    <3>1. r[i] = f /\ \A j \in 1 .. Len(s) : j \in 1 .. i - 1 /\ r[j] = s[j]
      BY <1>2, <1>3, <2>2
    <3>2. QED
      BY <1>3, <2>2, <3>1 DEF Within
  <2>3. QED
    BY <1>2, <1>3, <2>1, <2>2
<1>5. QED
  BY <1>1, <1>4 DEF Shape

\* Calls end.
LEMMA ShapeOut ==
  ASSUME NEW o, NEW t, NEW st, NEW s \in Seq(Frames), Shape(o, t, st, s), NEW k \in Nat, k <= Len(s)
  PROVE  Shape(o, t, st, SubSeq(s, 1, k))
<1>1. PICK r : r = SubSeq(s, 1, k)
  OBVIOUS
<1>2. Len(r) = k /\ Len(s) \in Nat /\ \A i \in 1 .. k : r[i] = s[i]
  BY <1>1, PrefixProperties, LenProperties
<1>3. ASSUME NEW i \in 1 .. Len(r)
      PROVE  /\ Decent(o, t, st, i, r[i])
             /\ r[i].at \in Loud(o, t) => \E j \in 1 .. i - 1 : r[j].at = "handler"
             /\ r[i].at \in Speaking => \/ i = Len(r)
                                        \/ /\ i = Len(r) - 1 /\ r[Len(r)].at \in Lockers
                                           /\ r[i].at # "shutdown_mark"
  <2>1. r[i] = s[i] /\ i \in 1 .. Len(s) /\ \A j \in 1 .. i - 1 : r[j] = s[j]
    BY <1>2
  <2>2. Decent(o, t, st, i, r[i]) /\ (r[i].at \in Loud(o, t) => \E j \in 1 .. i - 1 : r[j].at = "handler")
    BY <2>1 DEF Shape
  <2>3. r[i].at \in Speaking => \/ i = Len(s)
                                \/ /\ i = Len(s) - 1 /\ s[Len(s)].at \in Lockers
                                   /\ r[i].at # "shutdown_mark"
    BY <2>1 DEF Shape
  <2>4. CASE k = Len(s)
    BY <1>2, <2>2, <2>3, <2>4
  <2>5. CASE k < Len(s)
    BY <1>2, <2>2, <2>3, <2>5
  <2>6. QED
    BY <1>2, <2>4, <2>5
<1>4. QED
  BY <1>1, <1>3 DEF Shape

\* The status changes, to one of the end.
LEMMA ShapeEnds ==
  ASSUME NEW o, NEW t, NEW st, NEW s, Shape(o, t, st, s), NEW st2, Ends(st2),
         st2 = "CLOSED" \/ st = "OPEN"
  PROVE  Shape(o, t, st2, s)
<1>1. ASSUME NEW i, NEW f, Decent(o, t, st, i, f) PROVE Decent(o, t, st2, i, f)
  BY <1>1 DEF Decent, Ends
<1>2. QED
  BY <1>1 DEF Shape

\* Nobody sends in a stack whose innermost call neither sends nor takes the lock.
LEMMA NobodySpeaks ==
  ASSUME NEW o, NEW t, NEW st, NEW s \in Seq(Frames), s # <<>>, Shape(o, t, st, s),
         s[Len(s)].at \notin Speaking \cup Lockers
  PROVE  \A i \in 1 .. Len(s) : s[i].at \notin Speaking
BY DEF Shape

\* Labels of the calls of which Decent asks something.
Delicate ==
  {"handler", "sync_run", "idle", "send_flush", "ack_flush", "dispatch", "ack_done"}
    \cup Leaving \cup Closing
\* Nothing is asked of the others.
LEMMA OthersAreDecent ==
  ASSUME NEW o, NEW t, NEW st, NEW i, NEW f, f.at \notin Delicate
  PROVE  Decent(o, t, st, i, f)
BY DEF Decent, Delicate, Leaving, Closing

\* Who shuts down or flushes sends.
LEMMA SpeakingNames == Leaving \subseteq Speaking /\ FlushLabels \subseteq Speaking
BY DEF Leaving, Speaking, FlushLabels

\* The innermost call goes on.
LEMMA FitOn ==
  ASSUME NEW o, NEW t, NEW st, NEW s \in Seq(Frames), s # <<>>, NEW n, Fit(o, t, st, s, n),
         NEW f \in Frames, NEW m, Decent(o, t, st, Len(s), f),
         f.at \in Loud(o, t) => s[Len(s)].at \in Loud(o, t),
         s[Len(s)].at \in Lockers => f.at \in Lockers,
         f.at \in Speaking \/ s[Len(s)].at = "start_check" => st = "OPEN",
         f.at \in Leaving => m > 0, s[Len(s)].at \in Leaving => f.at \in Leaving,
         t = o => Len(s) > 1
  PROVE  Fit(o, t, st, WithTop(s, f), m)
<1>1. PICK r : r = WithTop(s, f)
  OBVIOUS
<1>2. /\ r # <<>> /\ Len(r) = Len(s) /\ r[Len(s)] = f /\ Len(s) \in Nat \ {0}
      /\ \A i \in 1 .. Len(s) - 1 : r[i] = s[i]
  BY <1>1, Replaced
<1>3. Shape(o, t, st, r)
  BY <1>1, ShapeOn DEF Fit
<1>4. ASSUME NEW i \in 1 .. Len(r), r[i].at \in Speaking PROVE st = "OPEN"
  <2>1. CASE i = Len(s)
    BY <1>2, <1>4, <2>1
  <2>2. CASE i # Len(s)
    <3>1. i \in 1 .. Len(s) /\ s[i].at \in Speaking
      BY <1>2, <1>4, <2>2
    <3>2. s[Len(s)].at \in Lockers
      BY <2>2, <3>1 DEF Fit, Shape
    <3>3. QED
      BY <3>1, <3>2 DEF Fit, Live
  <2>3. QED
    BY <2>1, <2>2
<1>5. Live(st, r, m)
  BY <1>2, <1>4 DEF Live
<1>6. ASSUME t = o PROVE Plan(st, r)
  <2>1. r[1] = s[1]
    BY <1>2, <1>6
  <2>2. ASSUME NEW i \in 1 .. Len(s), s[i].at \in Leaving PROVE r[i].at \in Leaving
    BY <1>2, <2>2
  <2>3. Plan(st, s)
    BY <1>6 DEF Fit
  <2>4. QED
    BY <1>2, <2>1, <2>2, <2>3 DEF Plan
<1>7. QED
  BY <1>1, <1>3, <1>5, <1>6 DEF Fit

\* A call is made that does not send.
LEMMA FitInto ==
  ASSUME NEW o, NEW t, NEW st, NEW s \in Seq(Frames), s # <<>>, NEW n, Fit(o, t, st, s, n),
         s[Len(s)].at \notin Speaking \cup Lockers,
         NEW f \in Frames, NEW m, Decent(o, t, st, Len(s) + 1, f), f.at \notin Speaking,
         f.at \in Loud(o, t) => Within(s)
  PROVE  /\ Fit(o, t, st, Append(s, f), m) /\ (Within(s) => Within(Append(s, f)))
         /\ Heard(Append(s, f)) => Heard(s) \/ (f.at \in {"p_push", "dispatch"} /\ f.msg.header = "shutdown")
         /\ Marked(s) => Marked(Append(s, f))
<1>1. PICK r : r = Append(s, f)
  OBVIOUS
<1>2. /\ r # <<>> /\ Len(s) \in Nat \ {0} /\ Len(r) = Len(s) + 1 /\ r[Len(s) + 1] = f
      /\ \A i \in 1 .. Len(s) : r[i] = s[i]
  BY <1>1, PushProperties, UnderProperties
<1>3. Shape(o, t, st, r)
  BY <1>1, ShapeInto DEF Fit
<1>4. \A i \in 1 .. Len(s) : s[i].at \notin Speaking
  BY NobodySpeaks DEF Fit
<1>5. \A i \in 1 .. Len(r) : r[i].at \notin Speaking
  BY <1>2, <1>4
<1>6. Live(st, r, m)
  BY <1>2, <1>5, SpeakingNames DEF Live
<1>7. ASSUME t = o PROVE Plan(st, r)
  <2>1. r[1] = s[1] /\ Plan(st, s) /\ \A i \in 1 .. Len(s) : s[i].at \notin Leaving
    BY <1>2, <1>4, <1>7, SpeakingNames DEF Fit
  <2>2. QED
    BY <2>1 DEF Plan
<1>8. Within(s) => Within(r)
  BY <1>2 DEF Within
<1>9. Heard(r) => Heard(s) \/ (f.at \in {"p_push", "dispatch"} /\ f.msg.header = "shutdown")
  BY <1>2 DEF Heard
<1>10. Marked(s) => Marked(r)
  BY <1>2 DEF Marked
<1>11. QED
  BY <1>1, <1>3, <1>6, <1>7, <1>8, <1>9, <1>10 DEF Fit

\* start_message is called for a call f that sends.
LEMMA FitStarts ==
  ASSUME NEW o, NEW t, NEW st, NEW s \in Seq(Frames), s # <<>>, Shape(o, t, st, s),
         s[Len(s)].at \notin Speaking \cup Lockers,
         NEW f \in Frames, NEW m, Decent(o, t, st, Len(s) + 1, f), f.at \in FlushLabels,
         NEW g \in Frames, g.at = "start_check",
         Loud(o, t) = {} \/ Within(s),
         t = o => Plan(st, s) \/ (st = "OPEN" /\ f.at \in Leaving)
  PROVE  /\ Fit(o, t, st, Append(Append(s, f), g), m)
         /\ Heard(Append(Append(s, f), g)) => Heard(s)
         /\ Marked(s) => Marked(Append(Append(s, f), g))
<1>1. PICK q : q = Append(s, f)
  OBVIOUS
<1>2. PICK r : r = Append(q, g)
  OBVIOUS
<1>3. /\ q \in Seq(Frames) /\ q # <<>> /\ Len(s) \in Nat \ {0} /\ Len(q) = Len(s) + 1
      /\ q[Len(s) + 1] = f
      /\ \A i \in 1 .. Len(s) : q[i] = s[i]
  BY <1>1, PushProperties, UnderProperties
<1>4. /\ r # <<>> /\ Len(r) = Len(q) + 1 /\ r[Len(q) + 1] = g
      /\ \A i \in 1 .. Len(q) : r[i] = q[i]
  BY <1>2, <1>3, PushProperties
<1>5. Shape(o, t, st, q)
  <2>1. f.at \in Loud(o, t) => Within(s)
    OBVIOUS
  <2>2. QED
    BY <1>1, <2>1, ShapeInto
<1>6. /\ f.at \notin Lockers /\ f.at # "shutdown_mark"
      /\ g.at \in Lockers /\ g.at \notin Delicate /\ g.at \notin Leaving
  BY DEF FlushLabels, Lockers, Delicate, Leaving, Closing
<1>7. Shape(o, t, st, r)
  <2>1. Within(s) => Within(q)
    BY <1>3 DEF Within
  <2>2. Decent(o, t, st, Len(q) + 1, g)
    BY <1>6, OthersAreDecent
  <2>3. q[Len(q)] = f
    BY <1>3
  <2>4. QED
    BY <1>2, <1>3, <1>5, <1>6, <2>1, <2>2, <2>3, ShapeInto
<1>8. Live(st, r, m)
  BY <1>3, <1>4, <1>6 DEF Live
<1>9. ASSUME t = o PROVE Plan(st, r)
  <2>1. r[1] = s[1] /\ Len(s) + 1 \in 1 .. Len(r) /\ r[Len(s) + 1] = f
        /\ \A i \in 1 .. Len(s) : i \in 1 .. Len(r) /\ r[i] = s[i]
    BY <1>3, <1>4
  <2>2. QED
    BY <1>9, <2>1 DEF Plan
<1>10. /\ Heard(r) => Heard(s)
       /\ Marked(s) => Marked(r)
  BY <1>3, <1>4 DEF Heard, Marked, FlushLabels
<1>11. QED
  BY <1>1, <1>2, <1>7, <1>8, <1>9, <1>10 DEF Fit

\* Calls end, all that send among them.
LEMMA FitOut ==
  ASSUME NEW o, NEW t, NEW st, NEW s \in Seq(Frames), NEW n, Fit(o, t, st, s, n),
         NEW k \in Nat, k <= Len(s), NEW m,
         \A i \in 1 .. k : s[i].at \notin Speaking,
         st = "OPEN" => \A i \in 1 .. Len(s) : s[i].at \notin Leaving, t = o => k > 0
  PROVE  /\ Fit(o, t, st, SubSeq(s, 1, k), m)
         /\ Heard(SubSeq(s, 1, k)) => Heard(s)
<1>1. PICK r : r = SubSeq(s, 1, k)
  OBVIOUS
<1>2. r \in Seq(Frames) /\ Len(r) = k /\ Len(s) \in Nat /\ \A i \in 1 .. k : r[i] = s[i]
  BY <1>1, PrefixProperties, LenProperties
<1>3. Shape(o, t, st, r)
  BY <1>1, ShapeOut DEF Fit
<1>4. \A i \in 1 .. Len(r) : r[i].at \notin Speaking
  BY <1>2
<1>5. r # <<>> => Len(r) \in 1 .. Len(r)
  BY <1>2, EmptySeq
<1>6. Live(st, r, m)
  BY <1>4, <1>5, SpeakingNames DEF Live
<1>7. ASSUME t = o PROVE Plan(st, r)
  <2>1. r[1] = s[1] /\ Plan(st, s)
    BY <1>2, <1>7 DEF Fit
  <2>2. QED
    BY <2>1 DEF Plan
<1>8. Heard(r) => Heard(s)
  BY <1>2 DEF Heard
<1>9. QED
  BY <1>1, <1>3, <1>6, <1>7, <1>8 DEF Fit

\* The innermost call ends.
LEMMA FitBack ==
  ASSUME NEW o, NEW t, NEW st, NEW s \in Seq(Frames), s # <<>>, NEW n, Fit(o, t, st, s, n), NEW m,
         s[Len(s)].at \notin Leaving, s[Len(s)].at \in Lockers => s[Len(s)].at = "lock_counted" /\ m > 0,
         t = o => Len(s) > 1
  PROVE  /\ Fit(o, t, st, Under(s), m)
         /\ Heard(Under(s)) => Heard(s)
         /\ Marked(s) => Marked(Under(s))
<1>1. PICK r : r = Under(s)
  OBVIOUS
<1>2. /\ r \in Seq(Frames) /\ Len(s) \in Nat \ {0} /\ Len(r) = Len(s) - 1
      /\ \A i \in 1 .. Len(s) - 1 : r[i] = s[i]
  BY <1>1, UnderProperties
<1>3. Shape(o, t, st, r)
  <2>1. Shape(o, t, st, s) /\ Len(s) - 1 \in Nat /\ Len(s) - 1 <= Len(s)
    BY <1>2 DEF Fit
  <2>2. QED
    BY <1>1, <2>1, ShapeOut DEF Under
<1>4. ASSUME NEW i \in 1 .. Len(r), r[i].at \in Speaking
      PROVE  s[Len(s)].at = "lock_counted" /\ m > 0 /\ st = "OPEN"
  <2>1. i \in 1 .. Len(s) /\ i # Len(s) /\ s[i].at \in Speaking
    BY <1>2, <1>4
  <2>2. s[Len(s)].at \in Lockers
    BY <2>1 DEF Fit, Shape
  <2>3. QED
    BY <2>1, <2>2 DEF Fit, Live
<1>5. r # <<>> => Len(r) \in 1 .. Len(r)
  BY <1>2, EmptySeq
<1>6. Live(st, r, m)
  BY <1>4, <1>5, SpeakingNames DEF Live
<1>7. ASSUME t = o PROVE Plan(st, r)
  <2>1. r[1] = s[1] /\ Plan(st, s)
    BY <1>2, <1>7 DEF Fit
  <2>2. ASSUME NEW i \in 1 .. Len(s), s[i].at \in Leaving
        PROVE  i \in 1 .. Len(r) /\ r[i].at \in Leaving
    BY <1>2, <2>2
  <2>3. QED
    BY <2>1, <2>2 DEF Plan
<1>8. Heard(r) => Heard(s)
  BY <1>2 DEF Heard
<1>9. ASSUME Marked(s) PROVE Marked(r)
  <2>1. PICK i \in 1 .. Len(s) : s[i].at = "shutdown_mark"
    BY <1>9 DEF Marked
  <2>2. i # Len(s)
    BY <2>1 DEF Leaving
  <2>3. QED
    BY <1>2, <2>1, <2>2 DEF Marked
<1>10. QED
  BY <1>1, <1>3, <1>6, <1>7, <1>8, <1>9 DEF Fit

\* Nothing is asked of those who do not send, once the transport ends.
LEMMA FitEnds ==
  ASSUME NEW o, NEW t, NEW st, NEW s \in Seq(Frames), Shape(o, t, st, s), Ends(st), NEW n,
         \A i \in 1 .. Len(s) : s[i].at \in Speaking => s[Len(s)].at = "start_check"
  PROVE  Fit(o, t, st, s, n)
<1>1. Plan(st, s)
  BY DEF Plan, Ends
<1>2. s # <<>> => Len(s) \in 1 .. Len(s)
  BY UnderProperties
<1>3. s # <<>> => s[Len(s)].at \notin Leaving
  BY <1>2, SpeakingNames DEF Leaving
<1>4. Live(st, s, n)
  BY <1>3 DEF Live
<1>5. QED
  BY <1>1, <1>4 DEF Fit

\* A thread that does not send when the status changes.
LEMMA FitThrough ==
  ASSUME NEW o, NEW t, NEW st, NEW s \in Seq(Frames), NEW n, Fit(o, t, st, s, n), NEW st2, Ends(st2),
         st2 = "CLOSED" \/ st = "OPEN",
         \A i \in 1 .. Len(s) : s[i].at \in Speaking => s[Len(s)].at = "start_check"
  PROVE  Fit(o, t, st2, s, n)
<1>1. Shape(o, t, st2, s)
  BY ShapeEnds DEF Fit
<1>2. QED
  BY <1>1, FitEnds

-----------------------------------------------------------------------------
(* Steps of a thread in graceful use                                       *)

\* A step of thread t that neither ends the transport nor spreads a rumour.
Civil(o, t) ==
  /\ \A u \in Threads \ {t} : stack'[u] = stack[u] /\ held'[u] = held[u]
  /\ Fit(o, t, status, stack'[t], held'[t])
  /\ Heard(stack'[t]) => Told(o)
  /\ Marked(stack[t]) => Marked(stack'[t])
  /\ UNCHANGED aborted

\* Such a step is graceful when it adds nothing to a rumour.
LEMMA CivilIsGraceful ==
  ASSUME NEW o \in Users, GracefulInv(o), NEW t \in Threads, Civil(o, t),
         UNCHANGED <<status, conn>>, stream_open' = stream_open \/ status = "CLOSED",
         Rumour' => Rumour \/ Told(o)'
  PROVE  GracefulInv(o)'
<1>1. o \in Threads
  BY DEF Threads
<1>2. Told(o) => Told(o)'
  <2>1. Marked(stack[o]) => Marked(stack'[o])
    BY <1>1 DEF Civil
  <2>2. QED
    BY <2>1 DEF Told
<1>3. ASSUME NEW u \in Threads
      PROVE  Fit(o, u, status', stack'[u], held'[u]) /\ (Heard(stack'[u]) => Told(o)')
  <2>1. CASE u = t
    BY <1>2, <2>1 DEF Civil
  <2>2. CASE u # t
    BY <1>2, <2>2 DEF Civil, GracefulInv
  <2>3. QED
    BY <2>1, <2>2
<1>4. Rumour' => Told(o)'
  BY <1>2 DEF GracefulInv
<1>5. conn' = "up" /\ (~stream_open' => status' = "CLOSED") /\ ~aborted'
  BY DEF GracefulInv, Civil
<1>6. QED
  BY <1>3, <1>4, <1>5 DEF GracefulInv

\* The stack of a running thread.
LEMMA RunningFit ==
  ASSUME TypeOK, LockInv, NEW o \in Users, GracefulInv(o), NEW t \in Threads, stack[t] # <<>>
  PROVE  /\ stack[t] \in Seq(Frames) /\ Len(stack[t]) \in 1 .. Len(stack[t])
         /\ Top(t) \in Frames /\ Top(t) = stack[t][Len(stack[t])]
         /\ Fit(o, t, status, stack[t], held[t]) /\ Shape(o, t, status, stack[t])
         /\ Decent(o, t, status, Len(stack[t]), Top(t)) /\ (Heard(stack[t]) => Told(o))
         /\ Top(t).at \in Loud(o, t) => Within(stack[t])
         /\ t \in Users /\ Top(t).at # "idle" => Len(stack[t]) > 1
         /\ Top(t).at = "idle" => Len(stack[t]) = 1
<1>1. /\ stack[t] \in Seq(Frames) /\ Top(t) \in Frames /\ Top(t) = stack[t][Len(stack[t])]
      /\ Len(stack[t]) \in Nat \ {0} /\ Sound(t, stack[t], held[t])
  BY Running
<1>2. Len(stack[t]) \in 1 .. Len(stack[t])
  BY <1>1
<1>3. /\ Fit(o, t, status, stack[t], held[t]) /\ Shape(o, t, status, stack[t])
      /\ Heard(stack[t]) => Told(o)
  BY DEF GracefulInv, Fit
<1>4. /\ Decent(o, t, status, Len(stack[t]), Top(t))
      /\ Top(t).at \in Loud(o, t) => Within(stack[t])
  BY <1>1, <1>2, <1>3 DEF Shape, Within
<1>5. t \in Users /\ Top(t).at # "idle" => Len(stack[t]) > 1
  BY <1>1 DEF Sound
<1>6. Top(t).at = "idle" => Len(stack[t]) = 1
  BY <1>4 DEF Decent
<1>7. QED
  BY <1>1, <1>2, <1>3, <1>4, <1>5, <1>6

\* What a step stores.
LEMMA CivilTo ==
  ASSUME TypeOK, NEW o \in Users, NEW t \in Threads, NEW r, SetStack(t, r), NEW n, SetHeld(t, n),
         Fit(o, t, status, r, n), Heard(r) => Told(o), Marked(stack[t]) => Marked(r),
         UNCHANGED aborted
  PROVE  Civil(o, t) /\ stack'[t] = r
<1>1. /\ stack'[t] = r /\ held'[t] = n
      /\ \A u \in Threads \ {t} : stack'[u] = stack[u] /\ held'[u] = held[u]
  BY Stores
<1>2. QED
  BY <1>1 DEF Civil

\* The end of shutdown() is the innermost call.
LEMMA MarkOnTop ==
  ASSUME NEW o, NEW t, NEW st, NEW s \in Seq(Frames), s # <<>>, Shape(o, t, st, s),
         s[Len(s)].at # "shutdown_mark"
  PROVE  ~Marked(s)
BY DEF Shape, Marked, Speaking

\* The innermost call of t goes on as f.
LEMMA CivilOn ==
  ASSUME TypeOK, LockInv, NEW o \in Users, GracefulInv(o), NEW t \in Threads, stack[t] # <<>>,
         Top(t).at # "idle", NEW f \in Frames, NEW n, SetStack(t, WithTop(stack[t], f)), SetHeld(t, n),
         UNCHANGED aborted, Decent(o, t, status, Len(stack[t]), f),
         f.at \in Loud(o, t) => Top(t).at \in Loud(o, t), Top(t).at \in Lockers => f.at \in Lockers,
         f.at \in Speaking \/ Top(t).at = "start_check" => status = "OPEN",
         f.at \in Leaving => n > 0, Top(t).at \in Leaving => f.at \in Leaving,
         Top(t).at # "shutdown_mark",
         f.at \in {"p_push", "dispatch"} /\ f.msg.header = "shutdown" => Told(o)
  PROVE  Civil(o, t) /\ stack'[t] = WithTop(stack[t], f)
<1>1. /\ stack[t] \in Seq(Frames) /\ Top(t) = stack[t][Len(stack[t])]
      /\ Fit(o, t, status, stack[t], held[t]) /\ Shape(o, t, status, stack[t])
      /\ Heard(stack[t]) => Told(o)
      /\ t = o => Len(stack[t]) > 1
  BY RunningFit
<1>2. PICK r : r = WithTop(stack[t], f)
  OBVIOUS
<1>3. /\ Len(r) = Len(stack[t]) /\ r[Len(stack[t])] = f
      /\ \A i \in 1 .. Len(stack[t]) - 1 : r[i] = stack[t][i]
      /\ Len(stack[t]) \in Nat \ {0}
  BY <1>1, <1>2, Replaced
<1>4. Fit(o, t, status, r, n)
  BY <1>1, <1>2, FitOn
<1>5. ~Marked(stack[t])
  BY <1>1, MarkOnTop
<1>6. ASSUME Heard(r) PROVE Told(o)
  <2>1. PICK i \in 1 .. Len(r) : r[i].at \in {"p_push", "dispatch"} /\ r[i].msg.header = "shutdown"
    BY <1>6 DEF Heard
  <2>2. CASE i = Len(stack[t])
    BY <1>3, <2>1, <2>2
  <2>3. CASE i # Len(stack[t])
    BY <1>1, <1>3, <2>1, <2>3 DEF Heard
  <2>4. QED
    BY <2>2, <2>3
<1>7. QED
  BY <1>2, <1>4, <1>5, <1>6, CivilTo

\* The innermost call of t goes on to a label of which nothing is asked.
LEMMA CivilMove ==
  ASSUME TypeOK, LockInv, NEW o \in Users, GracefulInv(o), NEW t \in Threads, stack[t] # <<>>,
         Top(t).at # "idle", NEW l \in Labels, NEW n, SetStack(t, Moved(t, l)), SetHeld(t, n),
         UNCHANGED aborted,
         l \notin Delicate \cup Speaking \cup {"start_check", "await_pop", "handle_pop", "p_push"},
         Top(t).at \in Lockers => l \in Lockers, Top(t).at = "start_check" => status = "OPEN",
         Top(t).at \notin Leaving
  PROVE  Civil(o, t)
<1>1. Top(t) \in Frames
  BY RunningFit
<1>2. PICK f : f = [Top(t) EXCEPT !.at = l]
  OBVIOUS
<1>3. f \in Frames /\ f.at = l
  BY <1>1, <1>2 DEF Frames
<1>4. Moved(t, l) = WithTop(stack[t], f)
  BY <1>2 DEF Moved
<1>5. Decent(o, t, status, Len(stack[t]), f)
  BY <1>3, OthersAreDecent
<1>6. /\ f.at \notin Loud(o, t) /\ f.at \notin Speaking /\ f.at \notin Leaving
      /\ f.at \notin {"p_push", "dispatch"}
  BY <1>3 DEF Loud, Speaking, FlushLabels, Leaving, Delicate
<1>7. Top(t).at # "shutdown_mark"
  BY DEF Leaving
<1>8. QED
  BY <1>3, <1>4, <1>5, <1>6, <1>7, CivilOn

\* The innermost call of t returns.
LEMMA CivilReturn ==
  ASSUME TypeOK, LockInv, NEW o \in Users, GracefulInv(o), NEW t \in Threads, stack[t] # <<>>,
         SetStack(t, Under(stack[t])), NEW n, SetHeld(t, n), UNCHANGED aborted,
         Top(t).at # "idle", Top(t).at \notin Leaving,
         Top(t).at \in Lockers => Top(t).at = "lock_counted" /\ n > 0
  PROVE  Civil(o, t)
<1>1. /\ stack[t] \in Seq(Frames) /\ Top(t) = stack[t][Len(stack[t])]
      /\ Fit(o, t, status, stack[t], held[t]) /\ (Heard(stack[t]) => Told(o))
      /\ t = o => Len(stack[t]) > 1
  BY RunningFit
<1>2. /\ Fit(o, t, status, Under(stack[t]), n)
      /\ Heard(Under(stack[t])) => Heard(stack[t])
      /\ Marked(stack[t]) => Marked(Under(stack[t]))
  BY <1>1, FitBack
<1>3. QED
  BY <1>1, <1>2, CivilTo

\* An exception leaves the calls on stack s, that has come from the stack of t.
LEMMA CivilThrow ==
  ASSUME TypeOK, LockInv, NEW o \in Users, GracefulInv(o), NEW t \in Threads, stack[t] # <<>>,
         Top(t).at # "shutdown_mark",
         NEW s \in Seq(Frames), s # <<>>, Sound(t, s, held[t]), NEW n, Fit(o, t, status, s, n),
         Heard(s) => Told(o), Throw(t, s), s[Len(s)].at \notin Speaking,
         s[Len(s)].at \in Lockers => status # "OPEN", t \notin Users => Within(s)
  PROVE  Civil(o, t)
<1>1. /\ Len(s) \in Nat \ {0} /\ DOMAIN s = 1 .. Len(s) /\ Shape(o, t, status, s)
  BY LenProperties, EmptySeq DEF Fit
<1>2. /\ stack[t] \in Seq(Frames) /\ Top(t) = stack[t][Len(stack[t])]
      /\ Shape(o, t, status, stack[t])
  BY RunningFit
<1>3. ~Marked(stack[t])
  BY <1>2, MarkOnTop
<1>4. status = "OPEN" => \A i \in 1 .. Len(s) : s[i].at \notin Leaving
  BY <1>1, NobodySpeaks, SpeakingNames
<1>5. ASSUME NEW k \in Nat, k <= Len(s), \A j \in 1 .. k : s[j].at \notin Speaking, t = o => k > 0,
             SetStack(t, SubSeq(s, 1, k)), NEW m, SetHeld(t, m), UNCHANGED aborted
      PROVE  Civil(o, t)
  <2>1. Fit(o, t, status, SubSeq(s, 1, k), m) /\ (Heard(SubSeq(s, 1, k)) => Told(o))
    BY <1>4, <1>5, FitOut
  <2>2. QED
    BY <1>3, <1>5, <2>1, CivilTo
<1>6. ASSUME NEW i \in DOMAIN s, s[i].at = "handler", SetStack(t, SubSeq(s, 1, i - 1)),
             SetHeld(t, s[i].base), UNCHANGED aborted
      PROVE  Civil(o, t)
  <2>1. PICK k \in Nat : k = i - 1 /\ k < Len(s) /\ k <= Len(s)
    BY <1>1, <1>6
  <2>2. ASSUME NEW j \in 1 .. k PROVE s[j].at \notin Speaking
    <3>1. j \in 1 .. Len(s) /\ j < i /\ i <= Len(s)
      BY <1>1, <1>6, <2>1, <2>2
    <3>2. s[j].at \in Speaking => i = Len(s) /\ s[Len(s)].at \in Lockers
      BY <1>1, <3>1 DEF Shape
    <3>3. QED
      BY <1>6, <3>2 DEF Lockers
  <2>3. t = o => k > 0
    BY <1>1, <1>6, <2>1 DEF Sound
  <2>4. QED
    BY <1>5, <1>6, <2>1, <2>2, <2>3
<1>7. ASSUME t \in Users, SetStack(t, SubSeq(s, 1, 1)), SetHeld(t, 0), UNCHANGED aborted
      PROVE  Civil(o, t)
  <2>1. \A j \in 1 .. 1 : s[j].at \notin Speaking
    BY <1>7 DEF Sound, Speaking, FlushLabels
  <2>2. QED
    BY <1>1, <1>5, <1>7, <2>1
<1>8. t \notin Users => ~(\A i \in DOMAIN s : s[i].at # "handler")
  BY <1>1 DEF Within
<1>9. QED
  BY <1>6, <1>7, <1>8 DEF Throw

\* What is left to do after the first operation.
LEMMA PlanTail ==
  ASSUME NEW td \in Seq(Ops), td # <<>>
  PROVE  /\ InTurn(td) => InTurn(Tail(td))
         /\ InTurn(td) /\ Head(td) = "start" => ShutsFirst(Tail(td))
         /\ ShutsFirst(td) /\ Head(td) # "shutdown" => ShutsFirst(Tail(td))
         /\ ShutsFirst(td) => Head(td) \notin Ending
<1>1. PICK r : r = Tail(td)
  OBVIOUS
<1>2. /\ Len(td) \in Nat \ {0} /\ Len(r) = Len(td) - 1 /\ Head(td) = td[1]
      /\ \A i \in 1 .. Len(r) : r[i] = td[i + 1]
  BY <1>1, EmptySeq, LenProperties, HeadTailProperties
<1>3. ASSUME InTurn(td) PROVE InTurn(r)
  <2>1. ASSUME NEW i \in 1 .. Len(r), NEW j \in 1 .. Len(r), i < j, r[i] = "start", r[j] \in Ending
        PROVE  \E k \in i + 1 .. j - 1 : r[k] = "shutdown"
    <3>1. PICK a \in 1 .. Len(td) : a = i + 1
      BY <1>2
    <3>2. PICK b \in 1 .. Len(td) : b = j + 1
      BY <1>2
    <3>3. td[a] = "start" /\ td[b] \in Ending /\ a < b
      BY <1>2, <2>1, <3>1, <3>2
    <3>4. PICK k \in a + 1 .. b - 1 : td[k] = "shutdown"
      BY <1>3, <3>3 DEF InTurn
    <3>5. k - 1 \in i + 1 .. j - 1 /\ r[k - 1] = "shutdown"
      BY <1>2, <3>1, <3>2, <3>4
    <3>6. QED
      BY <3>5
  <2>2. QED
    BY <2>1 DEF InTurn
<1>4. ASSUME (InTurn(td) /\ Head(td) = "start") \/ (ShutsFirst(td) /\ Head(td) # "shutdown")
      PROVE  ShutsFirst(r)
  <2>1. ASSUME NEW j \in 1 .. Len(r), r[j] \in Ending
        PROVE  \E k \in 1 .. j - 1 : r[k] = "shutdown"
    <3>1. PICK b \in 1 .. Len(td) : b = j + 1
      BY <1>2
    <3>2. td[b] \in Ending /\ 1 < b /\ 1 \in 1 .. Len(td)
      BY <1>2, <2>1, <3>1
    <3>3. PICK k \in 1 + 1 .. b - 1 : td[k] = "shutdown"
      <4>1. CASE InTurn(td) /\ Head(td) = "start"
        BY <1>2, <3>2, <4>1 DEF InTurn
      <4>2. CASE ShutsFirst(td) /\ Head(td) # "shutdown"
        <5>1. PICK k \in 1 .. b - 1 : td[k] = "shutdown"
          BY <3>2, <4>2 DEF ShutsFirst
        <5>2. k # 1
          BY <1>2, <4>2, <5>1
        <5>3. QED
          BY <5>1, <5>2
      <4>3. QED
        BY <1>4, <4>1, <4>2
    <3>4. k - 1 \in 1 .. j - 1 /\ r[k - 1] = "shutdown"
      BY <1>2, <3>1, <3>3
    <3>5. QED
      BY <3>4
  <2>2. QED
    BY <2>1 DEF ShutsFirst
<1>5. ShutsFirst(td) => Head(td) \notin Ending
  <2>1. 1 \in 1 .. Len(td) /\ 1 .. 1 - 1 = {}
    BY <1>2
  <2>2. QED
    BY <1>2, <2>1 DEF ShutsFirst
<1>6. QED
  BY <1>1, <1>3, <1>4, <1>5

\* Who calls what.
LEMMA WhoCalls ==
  ASSUME TypeOK, LockInv, NEW o \in Users, GracefulInv(o), NEW t \in Threads, NEW op, Calls(t, op)
  PROVE  /\ stack[t] # <<>> /\ Top(t).at \in UserLabels /\ Top(t).todo # <<>> /\ Head(Top(t).todo) = op
         /\ Top(t).at \notin Speaking \cup Lockers
         /\ Top(t).at = "handler" => op \in Handling
         /\ Top(t).at = "sync_run" => op = "rpc"
         /\ Top(t).at = "idle" => t \in Users /\ (t # o => op \in Listening)
         /\ (t # o /\ op \notin Listening) \/ t \notin Users => Within(stack[t])
         /\ op \in Ending \cup {"start", "shutdown"} => t = o /\ Top(t).at = "idle"
         /\ op \in Ending => status # "OPEN"
<1>1. stack[t] # <<>> /\ Top(t).at \in UserLabels /\ Top(t).todo # <<>> /\ Head(Top(t).todo) = op
  BY DEF Calls
<1>2. Top(t).at \notin Speaking \cup Lockers
  BY <1>1 DEF UserLabels, Speaking, FlushLabels, Lockers
<1>3. /\ stack[t] \in Seq(Frames) /\ Top(t) \in Frames /\ Top(t) = stack[t][Len(stack[t])]
      /\ Len(stack[t]) \in 1 .. Len(stack[t])
      /\ Decent(o, t, status, Len(stack[t]), Top(t)) /\ Fit(o, t, status, stack[t], held[t])
      /\ Top(t).at \in Loud(o, t) => Within(stack[t])
      /\ Top(t).at = "idle" => Len(stack[t]) = 1
  BY <1>1, RunningFit
<1>4. \A S : Top(t).todo \in Seq(S) => op \in S
  BY <1>1, HeadTailProperties
<1>5. /\ Top(t).at = "handler" => op \in Handling
      /\ Top(t).at = "sync_run" => op = "rpc"
      /\ Top(t).at = "idle" => t \in Users /\ (t # o => op \in Listening)
  BY <1>3, <1>4 DEF Decent
<1>6. ASSUME (t # o /\ op \notin Listening) \/ t \notin Users PROVE Within(stack[t])
  <2>1. t # o /\ Top(t).at # "idle"
    BY <1>5, <1>6
  <2>2. CASE Top(t).at = "sync_run"
    BY <1>3, <2>1, <2>2 DEF Loud
  <2>3. CASE Top(t).at = "handler"
    BY <1>3, <2>3 DEF Within
  <2>4. QED
    BY <1>1, <2>1, <2>2, <2>3 DEF UserLabels
<1>7. ASSUME op \in Ending \cup {"start", "shutdown"} PROVE t = o /\ Top(t).at = "idle"
  <2>1. op \notin Handling /\ op # "rpc" /\ op \notin Listening
    BY <1>7 DEF Ending, Handling, Listening
  <2>2. QED
    BY <1>1, <1>5, <2>1 DEF UserLabels
<1>8. ASSUME op \in Ending, status = "OPEN" PROVE FALSE
  <2>1. t = o /\ Top(t) = stack[t][1]
    BY <1>3, <1>7, <1>8
  <2>2. \A i \in 1 .. Len(stack[t]) : stack[t][i].at \notin Leaving
    BY <1>1, <1>2, <1>3, NobodySpeaks, SpeakingNames DEF Fit
  <2>3. ShutsFirst(Top(t).todo)
    BY <1>3, <1>8, <2>1, <2>2 DEF Fit, Plan
  <2>4. Top(t).todo \in Seq(Ops)
    BY <1>3 DEF Frames
  <2>5. QED
    BY <1>1, <1>8, <2>3, <2>4, PlanTail
<1>9. QED
  BY <1>1, <1>2, <1>5, <1>6, <1>7, <1>8

\* The stack of a caller whose next operation has begun.
LEMMA BegunFit ==
  ASSUME TypeOK, LockInv, NEW o \in Users, GracefulInv(o), NEW t \in Threads, NEW op, Calls(t, op)
  PROVE  /\ Begun(t) \in Seq(Frames) /\ Begun(t) # <<>> /\ Len(Begun(t)) = Len(stack[t])
         /\ Begun(t)[Len(Begun(t))].at = Top(t).at
         /\ Begun(t)[Len(Begun(t))].at \notin Speaking \cup Lockers
         /\ Shape(o, t, status, Begun(t)) /\ (Heard(Begun(t)) => Told(o)) /\ ~Marked(stack[t])
         /\ Within(stack[t]) => Within(Begun(t))
         /\ op # "shutdown" \/ status # "OPEN" => Fit(o, t, status, Begun(t), held[t])
<1>1. /\ stack[t] # <<>> /\ Top(t).at \in UserLabels /\ Top(t).todo # <<>> /\ Head(Top(t).todo) = op
      /\ Top(t).at \notin Speaking \cup Lockers
  BY WhoCalls
<1>2. /\ stack[t] \in Seq(Frames) /\ Top(t) \in Frames /\ Top(t) = stack[t][Len(stack[t])]
      /\ Decent(o, t, status, Len(stack[t]), Top(t)) /\ Fit(o, t, status, stack[t], held[t])
      /\ Shape(o, t, status, stack[t]) /\ (Heard(stack[t]) => Told(o))
      /\ t \in Users /\ Top(t).at # "idle" => Len(stack[t]) > 1
      /\ Top(t).at = "idle" => Len(stack[t]) = 1
  BY <1>1, RunningFit
<1>3. PICK f : f = [Top(t) EXCEPT !.todo = Tail(Top(t).todo)]
  OBVIOUS
<1>4. \A S : Top(t).todo \in Seq(S) => Tail(Top(t).todo) \in Seq(S)
  BY <1>1, HeadTailProperties
<1>5. /\ f \in Frames /\ f.at = Top(t).at /\ f.msg = Top(t).msg /\ f.todo = Tail(Top(t).todo)
      /\ f.base = Top(t).base
  BY <1>2, <1>3, <1>4 DEF Frames
<1>6. Decent(o, t, status, Len(stack[t]), f)
  BY <1>2, <1>4, <1>5 DEF Decent
<1>7. PICK r : r = WithTop(stack[t], f)
  OBVIOUS
<1>8. Begun(t) = r
  BY <1>3, <1>7 DEF Begun
<1>9. /\ r \in Seq(Frames) /\ r # <<>> /\ Len(r) = Len(stack[t]) /\ r[Len(stack[t])] = f
      /\ \A i \in 1 .. Len(stack[t]) - 1 : r[i] = stack[t][i]
      /\ Len(stack[t]) \in Nat \ {0}
  BY <1>2, <1>5, <1>7, Replaced, <1>1
<1>10. \A i \in 1 .. Len(r) : r[i].at = stack[t][i].at /\ r[i].msg = stack[t][i].msg
  BY <1>2, <1>5, <1>9
<1>11. Shape(o, t, status, r)
  BY <1>1, <1>2, <1>5, <1>6, <1>7, ShapeOn
<1>12. Heard(r) => Heard(stack[t])
  BY <1>9, <1>10 DEF Heard
<1>13. ~Marked(stack[t])
  <2>1. stack[t][Len(stack[t])].at # "shutdown_mark"
    BY <1>1, <1>2 DEF Speaking
  <2>2. QED
    BY <1>1, <1>2, <2>1, MarkOnTop
<1>14. Within(stack[t]) => Within(r)
  BY <1>9, <1>10 DEF Within
<1>15. \A i \in 1 .. Len(r) : r[i].at \notin Speaking
  BY <1>1, <1>5, <1>9, <1>11, NobodySpeaks
<1>16. Live(status, r, held[t])
  BY <1>1, <1>5, <1>9, <1>15, SpeakingNames DEF Live
<1>17. ASSUME op # "shutdown" \/ status # "OPEN", t = o PROVE Plan(status, r)
  <2>1. Plan(status, stack[t]) /\ \A i \in 1 .. Len(stack[t]) : stack[t][i].at \notin Leaving
    BY <1>1, <1>2, <1>17, NobodySpeaks, SpeakingNames DEF Fit
  <2>2. CASE Top(t).at = "idle"
    <3>1. r[1] = f /\ stack[t][1] = Top(t) /\ Top(t).todo \in Seq(Ops)
      BY <1>2, <1>9, <2>2 DEF Frames
    <3>2. /\ InTurn(Top(t).todo) => InTurn(f.todo)
          /\ ShutsFirst(Top(t).todo) /\ op # "shutdown" => ShutsFirst(f.todo)
      BY <1>1, <1>5, <3>1, PlanTail
    <3>3. QED
      BY <1>17, <2>1, <3>1, <3>2 DEF Plan
  <2>3. CASE Top(t).at # "idle"
    <3>1. r[1] = stack[t][1]
      BY <1>2, <1>9, <1>17, <2>3
    <3>2. QED
      BY <2>1, <3>1 DEF Plan
  <2>4. QED
    BY <2>2, <2>3
<1>18. QED
  BY <1>1, <1>2, <1>5, <1>8, <1>9, <1>11, <1>12, <1>13, <1>14, <1>16, <1>17 DEF Fit

-----------------------------------------------------------------------------
(* The steps                                                               *)

\* Locking, and the test of the status in start_message.
LEMMA LockIsCivil ==
  ASSUME TypeOK, LockInv, NEW o \in Users, GracefulInv(o), NEW t \in Threads,
         LockCount(t) \/ LockAcquire(t) \/ LockCounted(t) \/ StartCheck(t)
  PROVE  Civil(o, t)
<1>1. stack[t] # <<>> /\ Top(t).at \in Lockers /\ Top(t).at # "idle" /\ Top(t).at \notin Leaving
  BY DEF LockCount, LockAcquire, LockCounted, StartCheck, At, Lockers, Leaving
<1>2. \A l \in {"lock_count", "lock_acquire", "lock_counted"} :
        /\ l \in Labels /\ l \in Lockers
        /\ l \notin Delicate \cup Speaking \cup {"start_check", "await_pop", "handle_pop", "p_push"}
  BY DEF Labels, Lockers, Delicate, Leaving, Closing, Speaking, FlushLabels
<1>3. CASE LockCount(t)
  <2>1. SetStack(t, Moved(t, "lock_acquire")) /\ UNCHANGED <<held, aborted>>
        /\ Top(t).at # "start_check"
    BY <1>3 DEF LockCount, At
  <2>2. SetHeld(t, held[t])
    BY <2>1, HoldsOn
  <2>3. QED
    BY <1>1, <1>2, <2>1, <2>2, CivilMove
<1>4. CASE LockAcquire(t)
  <2>1. /\ SetStack(t, Moved(t, "lock_counted")) /\ UNCHANGED aborted
        /\ SetHeld(t, held[t] + 1) /\ Top(t).at # "start_check"
    BY <1>4 DEF LockAcquire, At
  <2>2. QED
    BY <1>1, <1>2, <2>1, CivilMove
<1>5. CASE LockCounted(t)
  <2>1. /\ SetStack(t, Under(stack[t])) /\ UNCHANGED <<held, aborted>>
        /\ Top(t).at = "lock_counted"
    BY <1>5 DEF LockCounted, At
  <2>2. held[t] > 0 /\ SetHeld(t, held[t])
    BY <1>1, <2>1, Running, HoldsOn DEF Owners
  <2>3. QED
    BY <1>1, <2>1, <2>2, CivilReturn
<1>6. CASE StartCheck(t)
  <2>1. Top(t).at = "start_check"
    BY <1>6 DEF StartCheck, At
  <2>2. CASE status = "OPEN"
    <3>1. SetStack(t, Moved(t, "lock_count")) /\ UNCHANGED <<held, aborted>>
      BY <1>6, <2>2 DEF StartCheck
    <3>2. SetHeld(t, held[t])
      BY <3>1, HoldsOn
    <3>3. QED
      BY <1>1, <1>2, <2>2, <3>1, <3>2, CivilMove
  <2>3. CASE status # "OPEN"
    <3>1. Throw(t, stack[t])
      BY <1>6, <2>3 DEF StartCheck
    <3>2. /\ stack[t] \in Seq(Frames) /\ Top(t) = stack[t][Len(stack[t])]
          /\ Fit(o, t, status, stack[t], held[t]) /\ (Heard(stack[t]) => Told(o))
          /\ Top(t).at \in Loud(o, t) => Within(stack[t])
      BY <1>1, RunningFit
    <3>3. t \notin Users => Within(stack[t])
      BY <2>1, <3>2 DEF Loud
    <3>4. Sound(t, stack[t], held[t])
      BY DEF LockInv
    <3>5. Top(t).at \notin Speaking /\ Top(t).at # "shutdown_mark"
      BY <2>1 DEF Speaking, FlushLabels
    <3>6. QED
      BY <1>1, <2>3, <3>1, <3>2, <3>3, <3>4, <3>5, CivilThrow
  <2>4. QED
    BY <2>2, <2>3
<1>7. QED
  BY <1>3, <1>4, <1>5, <1>6

\* Calls that return.
LEMMA EndIsCivil ==
  ASSUME TypeOK, LockInv, NEW o \in Users, GracefulInv(o), NEW t \in Threads,
         \/ SendDone(t) \/ RpcDone(t) \/ AwaitDone(t) \/ HandlerReturn(t) \/ SyncDone(t)
         \/ SetHandlers(t) \/ CloseStream(t) \/ DispatchIgnored(t)
  PROVE  Civil(o, t)
<1>1. /\ stack[t] # <<>>
      /\ Top(t).at \in {"send_done", "rpc_done", "await_done", "handle_done", "handler", "sync_run",
                        "set_handler", "erase_handler", "clear_handlers", "close_stream", "dispatch"}
  BY DEF SendDone, RpcDone, AwaitDone, HandlerReturn, SyncDone, SetHandlers, CloseStream,
     DispatchIgnored, At
<1>2. Top(t).at # "idle" /\ Top(t).at \notin Leaving /\ Top(t).at \notin Lockers
  BY <1>1 DEF Leaving, Lockers
<1>3. Return(t) /\ UNCHANGED aborted
  BY DEF SendDone, RpcDone, AwaitDone, HandlerReturn, SyncDone, SetHandlers, CloseStream,
     DispatchIgnored
<1>4. QED
  BY <1>1, <1>2, <1>3, CivilReturn DEF Return

\* await_message returns.
LEMMA MatchIsCivil ==
  ASSUME TypeOK, LockInv, NEW o \in Users, GracefulInv(o), NEW t \in Threads, AwaitMatch(t)
  PROVE  Civil(o, t)
<1>1. /\ stack[t] # <<>> /\ Top(t).at = "await_pop" /\ SetStack(t, Under(stack[t]))
      /\ UNCHANGED <<held, aborted>>
  BY DEF AwaitMatch, At
<1>2. Top(t).at # "idle" /\ Top(t).at \notin Leaving /\ Top(t).at \notin Lockers
  BY <1>1 DEF Leaving, Lockers
<1>3. SetHeld(t, held[t])
  BY <1>1, HoldsOn
<1>4. QED
  BY <1>1, <1>2, <1>3, CivilReturn

\* await_any_message when the transport is closed, or when it waits.
LEMMA AwaitIsCivil ==
  ASSUME TypeOK, LockInv, NEW o \in Users, GracefulInv(o), NEW t \in Threads,
         AwaitClosed(t) \/ AwaitBlocks(t)
  PROVE  Civil(o, t)
<1>1. stack[t] # <<>> /\ Top(t).at \in {"await_pop", "handle_pop"}
  BY DEF AwaitClosed, AwaitBlocks, Awaiting, At
<1>2. /\ stack[t] \in Seq(Frames) /\ Top(t) = stack[t][Len(stack[t])]
      /\ Fit(o, t, status, stack[t], held[t]) /\ (Heard(stack[t]) => Told(o))
      /\ Top(t).at \in Loud(o, t) => Within(stack[t])
  BY <1>1, RunningFit
<1>3. CASE AwaitClosed(t)
  <2>1. Throw(t, stack[t])
    BY <1>3 DEF AwaitClosed
  <2>2. t \notin Users => Within(stack[t])
    BY <1>1, <1>2 DEF Loud
  <2>3. Sound(t, stack[t], held[t])
    BY DEF LockInv
  <2>4. Top(t).at \notin Speaking /\ Top(t).at # "shutdown_mark" /\ Top(t).at \notin Lockers
    BY <1>1 DEF Speaking, FlushLabels, Lockers
  <2>5. QED
    BY <1>1, <1>2, <2>1, <2>2, <2>3, <2>4, CivilThrow
<1>4. CASE AwaitBlocks(t)
  <2>1. UNCHANGED <<stack, held, aborted>>
    BY <1>4 DEF AwaitBlocks
  <2>2. QED
    BY <1>2, <2>1 DEF Civil
<1>5. QED
  BY <1>3, <1>4

\* Nobody is told before the mutex is free again.
LEMMA ToldWhileHeld ==
  ASSUME TypeOK, LockInv, NEW o \in Users, GracefulInv(o), NEW t \in Threads, stack[t] # <<>>,
         held[t] > 0, Top(t).at # "shutdown_mark", Told(o)
  PROVE  Ends(status)
<1>1. CASE Marked(stack[o])
  <2>1. o \in Threads
    BY DEF Threads
  <2>2. PICK i \in 1 .. Len(stack[o]) : stack[o][i].at = "shutdown_mark"
    BY <1>1 DEF Marked
  <2>3. stack[o] # <<>>
    <3>1. stack[o] = <<>> => Len(stack[o]) = 0
      OBVIOUS
    <3>2. QED
      BY <2>2, <3>1
  <2>4. /\ Top(o) = stack[o][Len(stack[o])] /\ Shape(o, o, status, stack[o])
        /\ Fit(o, o, status, stack[o], held[o])
    BY <2>1, <2>3, RunningFit
  <2>5. Top(o).at = "shutdown_mark"
    BY <2>2, <2>4 DEF Shape, Speaking
  <2>6. held[o] > 0
    BY <2>3, <2>4, <2>5 DEF Fit, Live, Leaving
  <2>7. o = t
    BY <2>1, <2>6 DEF LockInv, Exclusive
  <2>8. QED
    BY <2>5, <2>7
<1>2. QED
  BY <1>1 DEF Told

\* dispatch_to_handler runs a handler, or answers a SHUTDOWN.
LEMMA DispatchIsCivil ==
  ASSUME TypeOK, LockInv, NEW o \in Users, GracefulUse(o), GracefulInv(o), NEW t \in Threads,
         DispatchToHandler(t) \/ DispatchShutdown(t)
  PROVE  Civil(o, t)
<1>1. /\ stack[t] # <<>> /\ Top(t).at = "dispatch" /\ SetHeld(t, held[t] + 1) /\ UNCHANGED aborted
  BY DEF DispatchToHandler, DispatchShutdown, At
<1>2. /\ Top(t) \in Frames /\ Top(t) = stack[t][Len(stack[t])]
      /\ Len(stack[t]) \in 1 .. Len(stack[t])
      /\ Decent(o, t, status, Len(stack[t]), Top(t)) /\ (Heard(stack[t]) => Told(o))
  BY <1>1, RunningFit
<1>3. /\ Top(t).at \notin Lockers /\ Top(t).at \notin Leaving
      /\ \A l \in {"handler", "ack_done"} : /\ l \in Labels /\ l \notin Loud(o, t)
                                            /\ l \notin Speaking /\ l \notin Leaving
  BY <1>1 DEF Lockers, Leaving, Loud, Speaking, FlushLabels, Labels, UserLabels
<1>4. Top(t).base > 0 /\ Top(t).base \in Nat
  BY <1>1, <1>2 DEF Decent, Frames
<1>5. CASE DispatchToHandler(t)
  <2>1. PICK script \in HandlerScripts :
          SetStack(t, WithTop(stack[t], [Top(t) EXCEPT !.at = "handler", !.todo = script]))
    BY <1>5 DEF DispatchToHandler
  <2>2. script \in Seq(Handling) /\ script \in Seq(Ops)
    BY <2>1, ScriptsAssumption DEF GracefulUse
  <2>3. PICK f : f = [Top(t) EXCEPT !.at = "handler", !.todo = script]
    OBVIOUS
  <2>4. f \in Frames /\ f.at = "handler" /\ f.todo = script /\ f.base = Top(t).base
    BY <1>2, <1>3, <2>2, <2>3 DEF Frames
  <2>5. Decent(o, t, status, Len(stack[t]), f)
    BY <1>4, <2>2, <2>4 DEF Decent, Leaving, Closing
  <2>6. QED
    BY <1>1, <1>3, <2>1, <2>3, <2>4, <2>5, CivilOn
<1>6. CASE DispatchShutdown(t)
  <2>1. Top(t).msg.header = "shutdown"
    BY <1>6 DEF DispatchShutdown
  <2>2. Told(o)
    BY <1>1, <1>2, <2>1 DEF Heard
  <2>3. held[t] > 0
    BY <1>1, Running DEF Owners
  <2>4. Ends(status)
    BY <1>1, <2>2, <2>3, ToldWhileHeld
  <2>5. SetStack(t, Moved(t, "ack_done"))
    BY <1>6, <2>4 DEF DispatchShutdown, Acknowledges, Ends
  <2>6. PICK f : f = [Top(t) EXCEPT !.at = "ack_done"]
    OBVIOUS
  <2>7. f \in Frames /\ f.at = "ack_done" /\ f.base = Top(t).base
    BY <1>2, <1>3, <2>6 DEF Frames
  <2>8. Decent(o, t, status, Len(stack[t]), f)
    BY <1>4, <2>4, <2>7 DEF Decent, Leaving, Closing
  <2>9. QED
    BY <1>1, <1>3, <2>5, <2>6, <2>7, <2>8, CivilOn DEF Moved
<1>7. QED
  BY <1>5, <1>6

\* A message is written.
LEMMA FlushIsCivil ==
  ASSUME TypeOK, LockInv, NEW o \in Users, GracefulInv(o), NEW t \in Threads,
         SendFlush(t) \/ ShutdownFlush(t)
  PROVE  Civil(o, t) /\ (Rumour' => Rumour \/ Told(o)')
<1>1. /\ stack[t] # <<>> /\ Top(t).at \in {"send_flush", "shutdown_flush"} /\ status = "OPEN"
      /\ out_stream' = Append(out_stream, Top(t).msg)
      /\ UNCHANGED <<status, held, aborted, queue, in_stream, peer_shut>>
  BY DEF SendFlush, ShutdownFlush, At, Written, GracefulInv
<1>2. /\ stack[t] \in Seq(Frames) /\ Top(t) \in Frames /\ Top(t) = stack[t][Len(stack[t])]
      /\ Decent(o, t, status, Len(stack[t]), Top(t)) /\ Fit(o, t, status, stack[t], held[t])
  BY <1>1, RunningFit
<1>3. SetHeld(t, held[t])
  BY <1>1, HoldsOn
<1>4. CASE SendFlush(t)
  <2>1. Top(t).at = "send_flush" /\ SetStack(t, Moved(t, "send_done"))
    BY <1>4 DEF SendFlush, At
  <2>2. /\ "send_done" \in Labels /\ Top(t).at \notin Lockers /\ Top(t).at \notin Leaving
        /\ "send_done" \notin Delicate \cup Speaking
                               \cup {"start_check", "await_pop", "handle_pop", "p_push"}
    BY <2>1 DEF Labels, Lockers, Delicate, Leaving, Closing, Speaking, FlushLabels
  <2>3. Civil(o, t)
    BY <1>1, <1>3, <2>1, <2>2, CivilMove
  <2>4. Top(t).msg \in Msgs /\ Top(t).msg.header # "shutdown" /\ out_stream \in Seq(Msgs)
    BY <1>2, <2>1 DEF Decent, Frames, TypeOK
  <2>5. Has(out_stream', "shutdown") => Has(out_stream, "shutdown")
    BY <1>1, <2>4, AppendCounts
  <2>6. QED
    BY <1>1, <2>3, <2>5 DEF Rumour
<1>5. CASE ShutdownFlush(t)
  <2>1. Top(t).at = "shutdown_flush" /\ SetStack(t, Moved(t, "shutdown_mark"))
    BY <1>5 DEF ShutdownFlush, At
  <2>2. /\ "shutdown_mark" \in Labels /\ Top(t).at \notin Lockers
        /\ "shutdown_mark" \notin Loud(o, t) /\ "shutdown_mark" \in Leaving /\ Top(t).at \in Leaving
    BY <2>1 DEF Labels, Lockers, Leaving, Loud
  <2>3. PICK f : f = [Top(t) EXCEPT !.at = "shutdown_mark"]
    OBVIOUS
  <2>4. f \in Frames /\ f.at = "shutdown_mark"
    BY <1>2, <2>2, <2>3 DEF Frames
  <2>5. t = o /\ held[t] > 0
    BY <1>1, <1>2, <2>2 DEF Decent, Fit, Live
  <2>6. Decent(o, t, status, Len(stack[t]), f)
    BY <2>4, <2>5 DEF Decent, Leaving, Closing
  <2>7. Civil(o, t) /\ stack'[t] = WithTop(stack[t], f)
    BY <1>1, <1>3, <2>1, <2>2, <2>3, <2>4, <2>5, <2>6, CivilOn DEF Moved
  <2>8. Marked(stack'[t])
    <3>1. /\ Len(WithTop(stack[t], f)) = Len(stack[t]) /\ WithTop(stack[t], f)[Len(stack[t])] = f
          /\ Len(stack[t]) \in Nat \ {0}
      BY <1>1, <1>2, <2>4, Replaced
    <3>2. QED
      BY <2>4, <2>7, <3>1 DEF Marked
  <2>9. QED
    BY <2>5, <2>7, <2>8 DEF Told
<1>6. QED
  BY <1>4, <1>5

\* A remote procedure call is sent and awaits its answer.
LEMMA RpcIsCivil ==
  ASSUME TypeOK, LockInv, NEW o \in Users, GracefulInv(o), NEW t \in Threads, RpcFlush(t)
  PROVE  Civil(o, t) /\ (Rumour' => Rumour)
<1>1. PICK call : call = Msg("call", next_id)
  OBVIOUS
<1>2. PICK f : f = [Top(t) EXCEPT !.at = "rpc_done", !.msg = call]
  OBVIOUS
<1>3. PICK g : g = Frame("await_pop", Msg("ret", 0), <<>>, held[t])
  OBVIOUS
<1>4. PICK h : h = Frame("lock_count", NoMsg, <<>>, held[t])
  OBVIOUS
<1>5. /\ stack[t] # <<>> /\ Top(t).at = "rpc_flush"
      /\ out_stream' = Append(out_stream, call)
      /\ UNCHANGED <<held, aborted, queue, in_stream, peer_shut>>
      /\ SetStack(t, Append(Append(WithTop(stack[t], f), g), h))
  BY <1>1, <1>2, <1>3, <1>4 DEF RpcFlush, At, Written, GracefulInv, Locking
<1>6. /\ stack[t] \in Seq(Frames) /\ Top(t) \in Frames /\ Top(t) = stack[t][Len(stack[t])]
      /\ Fit(o, t, status, stack[t], held[t]) /\ Shape(o, t, status, stack[t])
      /\ Len(stack[t]) \in 1 .. Len(stack[t])
      /\ Top(t).at \in Loud(o, t) => Within(stack[t])
      /\ t = o => Len(stack[t]) > 1
      /\ Heard(stack[t]) => Told(o)
  BY <1>5, RunningFit
<1>7. call \in Msgs /\ Msg("ret", 0) \in Msgs /\ held[t] \in Nat /\ <<>> \in Seq(Ops)
      /\ call.header = "call" /\ out_stream \in Seq(Msgs)
  BY <1>1, MsgType DEF Headers, TypeOK, Msg
<1>8. /\ f \in Frames /\ f.at = "rpc_done" /\ g \in Frames /\ g.at = "await_pop"
      /\ h \in Frames /\ h.at = "lock_count"
  <2>1. f \in Frames /\ f.at = "rpc_done"
    BY <1>2, <1>6, <1>7, LabelsType DEF Frames
  <2>2. g \in Frames /\ h \in Frames
    BY <1>3, <1>4, <1>7, LabelsType, FrameType, NoMsgType
  <2>3. QED
    BY <1>3, <1>4, <2>1, <2>2 DEF Frame
<1>9. /\ f.at \notin Delicate /\ g.at \notin Delicate /\ h.at \notin Delicate
      /\ f.at \notin Speaking /\ g.at \notin Speaking /\ h.at \notin Speaking
      /\ f.at \notin Lockers /\ g.at \notin Lockers
      /\ f.at \notin Loud(o, t) /\ h.at \notin Loud(o, t)
      /\ Top(t).at \notin Lockers /\ Top(t).at \notin Leaving /\ f.at \notin Leaving
      /\ g.at \in Loud(o, t) => Top(t).at \in Loud(o, t)
  BY <1>5, <1>8 DEF Delicate, Leaving, Closing, Speaking, FlushLabels, Lockers, Loud
<1>10. /\ Decent(o, t, status, Len(stack[t]), f)
       /\ \A i : Decent(o, t, status, i, g) /\ Decent(o, t, status, i, h)
  BY <1>9, OthersAreDecent
<1>11. PICK q : q = WithTop(stack[t], f)
  OBVIOUS
<1>12. /\ q \in Seq(Frames) /\ q # <<>> /\ Len(q) = Len(stack[t]) /\ q[Len(q)] = f
       /\ \A i \in 1 .. Len(stack[t]) - 1 : q[i] = stack[t][i]
  BY <1>5, <1>6, <1>8, <1>11, Replaced
<1>13. Fit(o, t, status, q, held[t])
  BY <1>5, <1>6, <1>8, <1>9, <1>10, <1>11, FitOn
<1>14. /\ Heard(q) => Heard(stack[t])
       /\ Within(stack[t]) => Within(q)
  <2>1. \A i \in 1 .. Len(stack[t]) : i = Len(stack[t]) \/ q[i] = stack[t][i]
    BY <1>6, <1>12
  <2>2. Heard(q) => Heard(stack[t])
    BY <1>8, <1>12, <2>1 DEF Heard
  <2>3. Within(stack[t]) => Within(q)
    BY <1>5, <1>6, <1>12, <2>1 DEF Within
  <2>4. QED
    BY <2>2, <2>3
<1>15. PICK p : p = Append(q, g)
  OBVIOUS
<1>16. /\ Fit(o, t, status, p, held[t]) /\ (Heard(p) => Heard(q))
  BY <1>6, <1>8, <1>9, <1>10, <1>12, <1>13, <1>14, <1>15, FitInto
<1>17. p \in Seq(Frames) /\ p # <<>> /\ p[Len(p)] = g
  BY <1>8, <1>12, <1>15, PushProperties
<1>18. /\ Fit(o, t, status, Append(p, h), held[t]) /\ (Heard(Append(p, h)) => Heard(p))
  BY <1>8, <1>9, <1>10, <1>16, <1>17, FitInto
<1>19. ~Marked(stack[t])
  BY <1>5, <1>6, MarkOnTop
<1>20. SetHeld(t, held[t])
  BY <1>5, HoldsOn
<1>21. Civil(o, t)
  BY <1>5, <1>6, <1>11, <1>14, <1>15, <1>16, <1>18, <1>19, <1>20, CivilTo
<1>22. Has(out_stream', "shutdown") => Has(out_stream, "shutdown")
  BY <1>5, <1>7, AppendCounts
<1>23. QED
  BY <1>5, <1>21, <1>22 DEF Rumour

\* A message is taken from the queue to be dispatched.
LEMMA TakeIsCivil ==
  ASSUME TypeOK, LockInv, NEW o \in Users, GracefulInv(o), NEW t \in Threads,
         AwaitOther(t) \/ HandleTake(t) \/ ConsumerTake(t)
  PROVE  Civil(o, t)
<1>1. PICK m : m = Head(queue)
  OBVIOUS
<1>2. PICK d : d = Dispatching(m, held[t])
  OBVIOUS
<1>3. /\ stack[t] # <<>> /\ Top(t).at \in {"await_pop", "handle_pop", "c_queue"}
      /\ UNCHANGED <<held, aborted>> /\ queue # <<>>
  BY DEF AwaitOther, HandleTake, ConsumerTake, At
<1>4. /\ stack[t] \in Seq(Frames) /\ Top(t) \in Frames /\ Top(t) = stack[t][Len(stack[t])]
      /\ Fit(o, t, status, stack[t], held[t]) /\ Shape(o, t, status, stack[t])
      /\ t = o => Len(stack[t]) > 1
      /\ Heard(stack[t]) => Told(o)
  BY <1>3, RunningFit
<1>5. /\ held[t] \in Nat /\ held[t] > 0
  BY <1>3, Running DEF Owners
<1>6. m \in Msgs /\ (m.header = "shutdown" => Told(o))
  <2>1. queue \in Seq(Msgs)
    BY DEF TypeOK
  <2>2. m \in Msgs /\ (m.header = "shutdown" => Has(queue, "shutdown"))
    BY <1>1, <1>3, <2>1, TailCounts
  <2>3. QED
    BY <2>2 DEF GracefulInv, Rumour
<1>7. d \in Frames /\ d.at = "dispatch" /\ d.base = held[t] /\ d.msg = m
  <2>1. <<>> \in Seq(Ops)
    OBVIOUS
  <2>2. d \in Frames
    BY <1>2, <1>5, <1>6, <2>1, LabelsType, FrameType DEF Dispatching
  <2>3. QED
    BY <1>2, <2>2 DEF Dispatching, Frame
<1>8. /\ \A i : Decent(o, t, status, i, d)
      /\ d.at \notin Speaking /\ d.at \notin Loud(o, t)
  BY <1>5, <1>7 DEF Decent, Leaving, Closing, Speaking, FlushLabels, Loud
<1>9. ~Marked(stack[t]) /\ Top(t).at \notin Lockers \cup Speaking /\ Top(t).at \notin Leaving
  <2>1. Top(t).at \notin Lockers \cup Speaking /\ Top(t).at # "shutdown_mark" /\ Top(t).at \notin Leaving
    BY <1>3 DEF Lockers, Speaking, FlushLabels, Leaving
  <2>2. QED
    BY <1>3, <1>4, <2>1, MarkOnTop
<1>10. SetHeld(t, held[t])
  BY <1>3, HoldsOn
<1>11. ASSUME NEW q \in Seq(Frames), q # <<>>, Fit(o, t, status, q, held[t]), Heard(q) => Told(o),
              q[Len(q)].at \notin Speaking \cup Lockers, SetStack(t, Append(q, d))
       PROVE  Civil(o, t)
  <2>1. /\ Fit(o, t, status, Append(q, d), held[t])
        /\ Heard(Append(q, d)) => Heard(q) \/ d.msg.header = "shutdown"
    BY <1>7, <1>8, <1>11, FitInto
  <2>2. Heard(Append(q, d)) => Told(o)
    BY <1>6, <1>7, <1>11, <2>1
  <2>3. QED
    BY <1>3, <1>9, <1>10, <1>11, <2>1, <2>2, CivilTo
<1>12. CASE AwaitOther(t)
  <2>1. SetStack(t, Append(stack[t], d))
    BY <1>1, <1>2, <1>12 DEF AwaitOther
  <2>2. QED
    BY <1>3, <1>4, <1>9, <1>11, <2>1
<1>13. ASSUME NEW l \in {"handle_pop", "handle_done", "c_handled"},
              l = "handle_pop" => Top(t).at = "handle_pop", SetStack(t, Append(Moved(t, l), d))
       PROVE  Civil(o, t)
  <2>1. PICK f : f = [Top(t) EXCEPT !.at = l]
    OBVIOUS
  <2>2. f \in Frames /\ f.at = l
    BY <1>4, <2>1, LabelsType DEF Frames
  <2>3. /\ f.at \notin Delicate /\ f.at \notin Speaking /\ f.at \notin Lockers
        /\ f.at \in Loud(o, t) => Top(t).at \in Loud(o, t)
        /\ Top(t).at # "start_check" /\ f.at \notin {"p_push", "dispatch"} /\ f.at \notin Leaving
    BY <1>3, <1>13, <2>2 DEF Delicate, Leaving, Closing, Speaking, FlushLabels, Lockers, Loud
  <2>4. Decent(o, t, status, Len(stack[t]), f)
    BY <2>3, OthersAreDecent
  <2>5. PICK q : q = WithTop(stack[t], f)
    OBVIOUS
  <2>6. /\ q \in Seq(Frames) /\ q # <<>> /\ Len(q) = Len(stack[t]) /\ q[Len(q)] = f
        /\ \A i \in 1 .. Len(stack[t]) - 1 : q[i] = stack[t][i]
        /\ Len(stack[t]) \in Nat \ {0}
    BY <1>3, <1>4, <2>2, <2>5, Replaced
  <2>7. Fit(o, t, status, q, held[t])
    BY <1>3, <1>4, <1>9, <2>2, <2>3, <2>4, <2>5, FitOn
  <2>8. Heard(q) => Heard(stack[t])
    <3>1. \A i \in 1 .. Len(q) : i = Len(q) \/ (i \in 1 .. Len(stack[t]) /\ q[i] = stack[t][i])
      BY <2>6
    <3>2. QED
      BY <2>3, <2>6, <3>1 DEF Heard
  <2>9. SetStack(t, Append(q, d))
    BY <1>13, <2>1, <2>5 DEF Moved
  <2>10. QED
    BY <1>4, <1>11, <2>3, <2>6, <2>7, <2>8, <2>9
<1>14. CASE HandleTake(t)
  <2>1. /\ Top(t).at = "handle_pop"
        /\ \/ SetStack(t, Append(Moved(t, "handle_done"), d))
           \/ SetStack(t, Append(Moved(t, "handle_pop"), d))
    BY <1>1, <1>2, <1>14 DEF HandleTake, At
  <2>2. QED
    BY <1>13, <2>1
<1>15. CASE ConsumerTake(t)
  <2>1. SetStack(t, Append(Moved(t, "c_handled"), d))
    BY <1>1, <1>2, <1>15 DEF ConsumerTake
  <2>2. QED
    BY <1>13, <2>1
<1>16. QED
  BY <1>12, <1>14, <1>15

\* A worker goes on in its loop, or ends.
LEMMA LoopIsCivil ==
  ASSUME TypeOK, LockInv, NEW o \in Users, GracefulInv(o), NEW t \in Threads,
         \/ ProducerTop(t) \/ ConsumerTop(t) \/ ConsumerLock(t) \/ ConsumerDefer(t)
         \/ ConsumerExit(t) \/ ConsumerWait(t) \/ ConsumerHandled(t)
  PROVE  Civil(o, t)
<1>1. /\ stack[t] # <<>> /\ UNCHANGED aborted
      /\ Top(t).at \in {"p_top", "c_top", "c_lock", "c_defer", "c_queue", "c_handled"}
  BY DEF ProducerTop, ConsumerTop, ConsumerLock, ConsumerDefer, ConsumerExit, ConsumerWait,
     ConsumerHandled, At
<1>2. /\ Top(t).at \in Looping /\ Top(t).at \notin Leaving /\ Top(t).at # "start_check"
      /\ Top(t).at # "shutdown_mark"
  BY <1>1 DEF Looping, Leaving
<1>3. t \notin Users /\ Top(t).at \notin Lockers /\ Top(t).at # "idle"
  BY <1>1, <1>2, Loops
<1>4. UNCHANGED held => SetHeld(t, held[t])
  BY HoldsOn
<1>5. PICK n : SetHeld(t, n)
  BY <1>4 DEF ProducerTop, ConsumerTop, ConsumerLock, ConsumerDefer, ConsumerExit, ConsumerWait,
     ConsumerHandled
<1>6. \/ SetStack(t, <<>>)
      \/ \E l \in {"p_read", "c_top", "c_lock", "c_defer", "c_queue"} : SetStack(t, Moved(t, l))
  BY DEF ProducerTop, ConsumerTop, ConsumerLock, ConsumerDefer, ConsumerExit, ConsumerWait,
     ConsumerHandled
<1>7. CASE SetStack(t, <<>>)
  <2>1. Len(<<>>) = 0 /\ 1 .. 0 = {}
    OBVIOUS
  <2>2. Fit(o, t, status, <<>>, n) /\ ~Heard(<<>>)
    BY <1>3, <2>1 DEF Fit, Shape, Live, Heard
  <2>3. ~Marked(stack[t])
    BY <1>1, <1>2, RunningFit, MarkOnTop
  <2>4. QED
    BY <1>1, <1>5, <1>7, <2>2, <2>3, CivilTo
<1>8. ASSUME NEW l \in {"p_read", "c_top", "c_lock", "c_defer", "c_queue"}, SetStack(t, Moved(t, l))
      PROVE  Civil(o, t)
  <2>1. /\ l \in Labels
        /\ l \notin Delicate \cup Speaking \cup {"start_check", "await_pop", "handle_pop", "p_push"}
    BY DEF Labels, Delicate, Leaving, Closing, Speaking, FlushLabels
  <2>2. QED
    BY <1>1, <1>2, <1>3, <1>5, <1>8, <2>1, CivilMove
<1>9. QED
  BY <1>6, <1>7, <1>8

\* A caller whose calls q are under way, and who asks for the lock or not.
LEMMA CivilLocking ==
  ASSUME TypeOK, LockInv, NEW o \in Users, GracefulInv(o), NEW t \in Threads, ~Marked(stack[t]),
         NEW q \in Seq(Frames), q # <<>>, Fit(o, t, status, q, held[t]), Heard(q) => Told(o),
         q[Len(q)].at \notin Speaking \cup Lockers, UNCHANGED <<held, aborted>>,
         SetStack(t, q) \/ SetStack(t, Locking(q, held[t]))
  PROVE  Civil(o, t)
<1>1. SetHeld(t, held[t]) /\ held[t] \in Nat
  BY HoldsOn
<1>2. CASE SetStack(t, q)
  BY <1>1, <1>2, CivilTo
<1>3. CASE SetStack(t, Locking(q, held[t]))
  <2>1. PICK h : h = Frame("lock_count", NoMsg, <<>>, held[t])
    OBVIOUS
  <2>2. h \in Frames /\ h.at = "lock_count"
    <3>1. <<>> \in Seq(Ops)
      OBVIOUS
    <3>2. h \in Frames
      BY <1>1, <2>1, <3>1, LabelsType, FrameType, NoMsgType
    <3>3. QED
      BY <2>1, <3>2 DEF Frame
  <2>3. h.at \notin Delicate /\ h.at \notin Speaking /\ h.at \notin Loud(o, t)
    BY <2>2 DEF Delicate, Leaving, Closing, Speaking, FlushLabels, Loud
  <2>4. Decent(o, t, status, Len(q) + 1, h)
    BY <2>3, OthersAreDecent
  <2>5. Fit(o, t, status, Append(q, h), held[t]) /\ (Heard(Append(q, h)) => Heard(q))
    BY <2>2, <2>3, <2>4, FitInto
  <2>6. SetStack(t, Append(q, h))
    BY <1>3, <2>1 DEF Locking
  <2>7. QED
    BY <1>1, <2>5, <2>6, CivilTo
<1>4. QED
  BY <1>2, <1>3

\* A call f that does not send is made from the calls s.
LEMMA FitCall ==
  ASSUME TypeOK, NEW o \in Users, NEW t \in Threads, NEW s \in Seq(Frames), s # <<>>,
         Fit(o, t, status, s, held[t]), Heard(s) => Told(o),
         s[Len(s)].at \notin Speaking \cup Lockers,
         NEW l \in Labels, NEW m \in Msgs, NEW td \in Seq(Ops),
         \A i : Decent(o, t, status, i, Frame(l, m, td, held[t])),
         l \notin Speaking \cup Lockers, l \notin {"p_push", "dispatch"},
         l \in Loud(o, t) => Within(s),
         NEW q, q = Append(s, Frame(l, m, td, held[t]))
  PROVE  /\ q \in Seq(Frames) /\ q # <<>> /\ Fit(o, t, status, q, held[t]) /\ (Heard(q) => Told(o))
         /\ q[Len(q)].at \notin Speaking \cup Lockers
         /\ Within(s) => Within(q)
<1>1. held[t] \in Nat
  BY DEF TypeOK
<1>2. PICK f : f = Frame(l, m, td, held[t])
  OBVIOUS
<1>3. f \in Frames /\ f.at = l
  <2>1. f \in Frames
    BY <1>1, <1>2, FrameType
  <2>2. QED
    BY <1>2, <2>1 DEF Frame
<1>4. /\ Fit(o, t, status, q, held[t]) /\ (Within(s) => Within(q))
      /\ Heard(q) => Heard(s)
  BY <1>2, <1>3, FitInto
<1>5. q \in Seq(Frames) /\ q # <<>> /\ q[Len(q)] = f
  BY <1>2, <1>3, PushProperties
<1>6. QED
  BY <1>3, <1>4, <1>5

\* What a caller asks for that neither sends nor ends the transport.
LEMMA CallIsCivil ==
  ASSUME TypeOK, LockInv, NEW o \in Users, GracefulInv(o), NEW t \in Threads,
         CallSync(t) \/ CallHandlers(t) \/ CallClose(t) \/ Join(t)
  PROVE  Civil(o, t)
<1>1. UNCHANGED <<held, aborted>>
  BY DEF CallSync, CallHandlers, CallClose, Join
<1>2. ASSUME NEW op, Calls(t, op), op # "shutdown", NEW l \in Labels, NEW m \in Msgs, NEW td \in Seq(Ops),
             \A i : Decent(o, t, status, i, Frame(l, m, td, held[t])),
             l \notin Speaking \cup Lockers, l \notin {"p_push", "dispatch"},
             l \in Loud(o, t) => t # o /\ op \notin Listening,
             NEW q, q = Append(Begun(t), Frame(l, m, td, held[t])),
             SetStack(t, q) \/ SetStack(t, Locking(q, held[t]))
      PROVE  Civil(o, t)
  <2>1. /\ Begun(t) \in Seq(Frames) /\ Begun(t) # <<>> /\ Fit(o, t, status, Begun(t), held[t])
        /\ Begun(t)[Len(Begun(t))].at \notin Speaking \cup Lockers /\ (Heard(Begun(t)) => Told(o))
        /\ ~Marked(stack[t]) /\ (Within(stack[t]) => Within(Begun(t)))
    BY <1>2, BegunFit
  <2>2. l \in Loud(o, t) => Within(Begun(t))
    BY <1>2, <2>1, WhoCalls
  <2>3. /\ q \in Seq(Frames) /\ q # <<>> /\ Fit(o, t, status, q, held[t]) /\ (Heard(q) => Told(o))
        /\ q[Len(q)].at \notin Speaking \cup Lockers
    BY <1>2, <2>1, <2>2, FitCall
  <2>4. QED
    BY <1>1, <1>2, <2>1, <2>3, CivilLocking
<1>3. CASE CallSync(t)
  <2>1. PICK td : td = <<"rpc", "rpc">>
    OBVIOUS
  <2>2. td \in Seq({"rpc"}) /\ td \in Seq(Ops)
    BY <2>1 DEF Ops
  <2>3. Frame("sync_run", NoMsg, td, held[t]).at = "sync_run" /\ Frame("sync_run", NoMsg, td, held[t]).todo = td
    BY DEF Frame
  <2>4. \A i : Decent(o, t, status, i, Frame("sync_run", NoMsg, td, held[t]))
    BY <2>2, <2>3 DEF Decent, Leaving, Closing
  <2>5. /\ "sync_run" \in Labels /\ "sync_run" \notin Speaking \cup Lockers
        /\ "sync_run" \in Loud(o, t) => t # o /\ "sync" \notin Listening
    BY LabelsType DEF Speaking, FlushLabels, Lockers, Loud, Listening
  <2>6. PICK q : q = Append(Begun(t), Frame("sync_run", NoMsg, td, held[t]))
    OBVIOUS
  <2>7. Calls(t, "sync") /\ SetStack(t, Locking(q, held[t]))
    BY <1>3, <2>1, <2>6 DEF CallSync
  <2>8. QED
    BY <1>2, <2>2, <2>4, <2>5, <2>6, <2>7, NoMsgType
<1>4. CASE CallHandlers(t)
  <2>1. PICK c \in {<<"register", "set_handler">>, <<"unregister", "erase_handler">>,
                    <<"clear", "clear_handlers">>} :
          Calls(t, c[1]) /\ SetStack(t, Locking(Call(t, c[2], Msg("call", 0)), held[t]))
    BY <1>4 DEF CallHandlers
  <2>2. c[1] # "shutdown" /\ c[2] \in {"set_handler", "erase_handler", "clear_handlers"}
    BY <2>1
  <2>3. PICK f : f = Frame(c[2], Msg("call", 0), <<>>, held[t])
    OBVIOUS
  <2>4. f.at = c[2]
    BY <2>3 DEF Frame
  <2>5. /\ c[2] \in Labels /\ c[2] \notin Speaking \cup Lockers /\ c[2] \notin Delicate
        /\ c[2] \notin Loud(o, t) /\ c[2] \notin {"p_push", "dispatch"}
    BY <2>2, LabelsType DEF Speaking, FlushLabels, Lockers, Loud, Delicate, Leaving, Closing
  <2>6. \A i : Decent(o, t, status, i, f)
    BY <2>4, <2>5, OthersAreDecent
  <2>7. PICK q : q = Append(Begun(t), f)
    OBVIOUS
  <2>8. SetStack(t, Locking(q, held[t])) /\ Msg("call", 0) \in Msgs /\ <<>> \in Seq(Ops)
    BY <2>1, <2>3, <2>7, MsgType DEF Call, Headers
  <2>9. QED
    BY <1>2, <2>1, <2>2, <2>3, <2>5, <2>6, <2>7, <2>8
<1>5. CASE CallClose(t)
  <2>1. Calls(t, "close") /\ SetStack(t, Call(t, "close_stop", NoMsg))
    BY <1>5 DEF CallClose
  <2>2. t = o /\ status # "OPEN"
    BY <2>1, WhoCalls DEF Ending
  <2>3. PICK f : f = Frame("close_stop", NoMsg, <<>>, held[t])
    OBVIOUS
  <2>4. f.at = "close_stop"
    BY <2>3 DEF Frame
  <2>5. \A i : Decent(o, t, status, i, f)
    BY <2>2, <2>4 DEF Decent, Leaving, Closing
  <2>6. /\ "close_stop" \in Labels /\ "close_stop" \notin Speaking \cup Lockers
        /\ "close_stop" \notin Loud(o, t)
    BY LabelsType DEF Speaking, FlushLabels, Lockers, Loud
  <2>7. PICK q : q = Append(Begun(t), f)
    OBVIOUS
  <2>8. SetStack(t, q) /\ <<>> \in Seq(Ops)
    BY <2>1, <2>3, <2>7 DEF Call
  <2>9. QED
    BY <1>2, <2>1, <2>3, <2>5, <2>6, <2>7, <2>8, NoMsgType
<1>6. CASE Join(t)
  <2>1. Calls(t, "join") /\ SetStack(t, Begun(t))
    BY <1>6 DEF Join
  <2>2. /\ Begun(t) \in Seq(Frames) /\ Begun(t) # <<>> /\ Fit(o, t, status, Begun(t), held[t])
        /\ Begun(t)[Len(Begun(t))].at \notin Speaking \cup Lockers /\ (Heard(Begun(t)) => Told(o))
        /\ ~Marked(stack[t])
    BY <2>1, BegunFit
  <2>3. QED
    BY <1>1, <2>1, <2>2, CivilLocking
<1>7. QED
  BY <1>3, <1>4, <1>5, <1>6

\* The test of the status for a call that sends.
LEMMA CallSendIsCivil ==
  ASSUME TypeOK, LockInv, NEW o \in Users, GracefulInv(o), NEW t \in Threads,
         \/ CallSend(t)
         \/ CallShutdown(t) /\ status = "OPEN"
  PROVE  Civil(o, t)
<1>1. UNCHANGED <<held, aborted>>
  BY DEF CallSend, CallShutdown
<1>2. SetHeld(t, held[t]) /\ held[t] \in Nat
  BY <1>1, HoldsOn
<1>3. ASSUME NEW op, Calls(t, op), op \notin Listening, NEW l \in FlushLabels, NEW m \in Msgs,
             \A i : Decent(o, t, status, i, Frame(l, m, <<>>, held[t])),
             op = "shutdown" => status = "OPEN" /\ l \in Leaving,
             SetStack(t, Starting(Call(t, l, m), held[t]))
      PROVE  Civil(o, t)
  <2>1. /\ Begun(t) \in Seq(Frames) /\ Begun(t) # <<>> /\ Shape(o, t, status, Begun(t))
        /\ op # "shutdown" => Fit(o, t, status, Begun(t), held[t])
        /\ Begun(t)[Len(Begun(t))].at \notin Speaking \cup Lockers /\ (Heard(Begun(t)) => Told(o))
        /\ ~Marked(stack[t]) /\ (Within(stack[t]) => Within(Begun(t)))
    BY <1>3, BegunFit
  <2>2. Loud(o, t) = {} \/ Within(Begun(t))
    BY <1>3, <2>1, WhoCalls DEF Loud
  <2>3. PICK f : f = Frame(l, m, <<>>, held[t])
    OBVIOUS
  <2>4. PICK g : g = Frame("start_check", NoMsg, <<>>, held[t])
    OBVIOUS
  <2>5. f \in Frames /\ f.at = l /\ g \in Frames /\ g.at = "start_check"
    <3>1. <<>> \in Seq(Ops)
      OBVIOUS
    <3>2. f \in Frames /\ g \in Frames
      BY <1>2, <1>3, <2>3, <2>4, <3>1, LabelsType, FrameType, NoMsgType
    <3>3. QED
      BY <2>3, <2>4, <3>2 DEF Frame
  <2>6. SetStack(t, Append(Append(Begun(t), f), g))
    BY <1>3, <2>3, <2>4 DEF Starting, Call
  <2>7. t = o => Plan(status, Begun(t)) \/ (status = "OPEN" /\ f.at \in Leaving)
    BY <1>3, <2>1, <2>5 DEF Fit
  <2>8. /\ Fit(o, t, status, Append(Append(Begun(t), f), g), held[t])
        /\ Heard(Append(Append(Begun(t), f), g)) => Heard(Begun(t))
    BY <1>3, <2>1, <2>2, <2>3, <2>5, <2>7, FitStarts
  <2>9. QED
    BY <1>1, <1>2, <2>1, <2>6, <2>8, CivilTo
<1>4. ASSUME NEW l, NEW m, l = "send_flush" => m.header # "shutdown", l = "shutdown_flush" => t = o,
             l \in {"send_flush", "rpc_flush", "shutdown_flush"}
      PROVE  \A i : Decent(o, t, status, i, Frame(l, m, <<>>, held[t]))
  <2>1. PICK f : f = Frame(l, m, <<>>, held[t])
    OBVIOUS
  <2>2. f.at = l /\ f.msg = m
    BY <2>1 DEF Frame
  <2>3. \A i : Decent(o, t, status, i, f)
    BY <1>4, <2>2 DEF Decent, Leaving, Closing
  <2>4. QED
    BY <2>1, <2>3
<1>5. /\ {"send", "reply", "rpc", "shutdown"} \cap Listening = {} /\ "shutdown_flush" \in Leaving
      /\ {"send_flush", "rpc_flush", "shutdown_flush"} \subseteq FlushLabels
  BY DEF Listening, Leaving, FlushLabels
<1>6. \A h \in Headers : \A n \in Nat : Msg(h, n) \in Msgs /\ Msg(h, n).header = h
  BY MsgType DEF Msg
<1>7. CASE CallSend(t)
  <2>1. CASE Calls(t, "send") /\ SetStack(t, Starting(Call(t, "send_flush", Msg("event", 0)), held[t]))
    BY <1>3, <1>4, <1>5, <1>6, <2>1 DEF Headers
  <2>2. CASE Calls(t, "reply")
             /\ SetStack(t, Starting(Call(t, "send_flush", Msg("ret", Top(t).msg.id)), held[t]))
    <3>1. Top(t).msg.id \in Nat
      <4>1. stack[t] # <<>>
        BY <2>2 DEF Calls
      <4>2. Top(t) \in Frames
        BY <4>1, Running
      <4>3. QED
        BY <4>2 DEF Frames, Msgs
    <3>2. QED
      BY <1>3, <1>4, <1>5, <1>6, <2>2, <3>1 DEF Headers
  <2>3. CASE Calls(t, "rpc") /\ SetStack(t, Starting(Call(t, "rpc_flush", NoMsg), held[t]))
    BY <1>3, <1>4, <1>5, <2>3, NoMsgType
  <2>4. QED
    BY <1>7, <2>1, <2>2, <2>3 DEF CallSend
<1>8. CASE CallShutdown(t) /\ status = "OPEN"
  <2>1. /\ Calls(t, "shutdown")
        /\ SetStack(t, Starting(Call(t, "shutdown_flush", Msg("shutdown", 0)), held[t]))
    BY <1>8 DEF CallShutdown
  <2>2. t = o
    BY <2>1, WhoCalls
  <2>3. QED
    BY <1>3, <1>4, <1>5, <1>6, <1>8, <2>1, <2>2 DEF Headers
<1>9. QED
  BY <1>7, <1>8

\* A call that is refused.
LEMMA RefusalIsCivil ==
  ASSUME TypeOK, LockInv, NEW o \in Users, GracefulInv(o), NEW t \in Threads, NEW op, Calls(t, op),
         op # "shutdown" \/ status # "OPEN", Throw(t, Begun(t))
  PROVE  Civil(o, t)
<1>1. /\ Begun(t) \in Seq(Frames) /\ Begun(t) # <<>> /\ Fit(o, t, status, Begun(t), held[t])
      /\ Begun(t)[Len(Begun(t))].at \notin Speaking \cup Lockers /\ (Heard(Begun(t)) => Told(o))
      /\ Within(stack[t]) => Within(Begun(t))
  BY BegunFit
<1>2. /\ stack[t] # <<>> /\ Top(t).at \in UserLabels /\ Top(t).todo # <<>>
      /\ t \notin Users => Within(stack[t])
  BY WhoCalls
<1>3. Sound(t, Begun(t), held[t])
  BY <1>2, Begins
<1>4. Top(t).at # "shutdown_mark"
  BY <1>2 DEF UserLabels
<1>5. t \notin Users => Within(Begun(t))
  BY <1>1, <1>2
<1>6. QED
  BY <1>1, <1>2, <1>3, <1>4, <1>5, CivilThrow

\* await_message and handle_message are called.
LEMMA CallAwaitIsCivil ==
  ASSUME TypeOK, LockInv, NEW o \in Users, GracefulInv(o), NEW t \in Threads, CallAwait(t)
  PROVE  Civil(o, t)
<1>1. CASE status = "CREATED"
  <2>1. Throw(t, Begun(t)) /\ (Calls(t, "await") \/ Calls(t, "handle"))
    BY <1>1 DEF CallAwait
  <2>2. QED
    BY <2>1, RefusalIsCivil
<1>2. ASSUME NEW op \in {"await", "handle"}, Calls(t, op)
      PROVE  /\ Begun(t) \in Seq(Frames) /\ Begun(t) # <<>> /\ Fit(o, t, status, Begun(t), held[t])
             /\ Begun(t)[Len(Begun(t))].at \notin Speaking \cup Lockers /\ (Heard(Begun(t)) => Told(o))
             /\ ~Marked(stack[t]) /\ (t \notin Users => Within(Begun(t)))
  BY <1>2, BegunFit, WhoCalls
<1>3. Msg("call", 0) \in Msgs
  BY MsgType DEF Headers
<1>4. ASSUME NEW l \in {"await_done", "await_pop", "handle_pop"}, NEW m \in Msgs,
             NEW s \in Seq(Frames), s # <<>>, Fit(o, t, status, s, held[t]), Heard(s) => Told(o),
             s[Len(s)].at \notin Speaking \cup Lockers, t \notin Users => Within(s),
             NEW q, q = Append(s, Frame(l, m, <<>>, held[t]))
      PROVE  /\ q \in Seq(Frames) /\ q # <<>> /\ Fit(o, t, status, q, held[t]) /\ (Heard(q) => Told(o))
             /\ q[Len(q)].at \notin Speaking \cup Lockers
             /\ t \notin Users => Within(q)
  <2>1. PICK td : td = <<>>
    OBVIOUS
  <2>2. td \in Seq(Ops) /\ q = Append(s, Frame(l, m, td, held[t]))
    BY <1>4, <2>1
  <2>3. PICK f : f = Frame(l, m, td, held[t])
    OBVIOUS
  <2>4. f.at = l
    BY <2>3 DEF Frame
  <2>5. f.at \notin Delicate
    BY <2>4 DEF Delicate, Leaving, Closing
  <2>6. \A i : Decent(o, t, status, i, f)
    BY <2>5, OthersAreDecent
  <2>7. /\ l \in Labels /\ l \notin Speaking \cup Lockers /\ l \notin {"p_push", "dispatch"}
        /\ l \in Loud(o, t) => t \notin Users
    BY LabelsType DEF Speaking, FlushLabels, Lockers, Loud
  <2>8. l \in Loud(o, t) => Within(s)
    BY <1>4, <2>7
  <2>9. QED
    BY <1>4, <2>2, <2>3, <2>6, <2>7, <2>8, FitCall
<1>5. CASE status # "CREATED" /\ Calls(t, "await")
  <2>1. PICK p : p = Append(Begun(t), Frame("await_done", NoMsg, <<>>, held[t]))
    OBVIOUS
  <2>2. PICK q : q = Append(p, Frame("await_pop", Msg("call", 0), <<>>, held[t]))
    OBVIOUS
  <2>3. SetStack(t, Locking(q, held[t])) /\ UNCHANGED <<held, aborted>>
    <3>1. ~Calls(t, "handle")
      BY <1>5 DEF Calls
    <3>2. QED
      BY <1>5, <2>1, <2>2, <3>1 DEF CallAwait, Call
  <2>4. /\ p \in Seq(Frames) /\ p # <<>> /\ Fit(o, t, status, p, held[t]) /\ (Heard(p) => Told(o))
        /\ p[Len(p)].at \notin Speaking \cup Lockers
        /\ t \notin Users => Within(p)
    <3>1. /\ Begun(t) \in Seq(Frames) /\ Begun(t) # <<>> /\ Fit(o, t, status, Begun(t), held[t])
          /\ Begun(t)[Len(Begun(t))].at \notin Speaking \cup Lockers /\ (Heard(Begun(t)) => Told(o))
          /\ t \notin Users => Within(Begun(t))
      BY <1>2, <1>5
    <3>2. PICK m \in Msgs : p = Append(Begun(t), Frame("await_done", m, <<>>, held[t]))
      BY <2>1, NoMsgType
    <3>3. QED
      BY <1>4, <3>1, <3>2
  <2>5. /\ q \in Seq(Frames) /\ q # <<>> /\ Fit(o, t, status, q, held[t]) /\ (Heard(q) => Told(o))
        /\ q[Len(q)].at \notin Speaking \cup Lockers
    BY <1>3, <1>4, <2>2, <2>4
  <2>6. QED
    BY <1>2, <1>5, <2>3, <2>5, CivilLocking
<1>6. CASE status # "CREATED" /\ Calls(t, "handle")
  <2>1. PICK q : q = Append(Begun(t), Frame("handle_pop", Msg("call", 0), <<>>, held[t]))
    OBVIOUS
  <2>2. SetStack(t, Locking(q, held[t])) /\ UNCHANGED <<held, aborted>>
    <3>1. ~Calls(t, "await")
      BY <1>6 DEF Calls
    <3>2. QED
      BY <1>6, <2>1, <3>1 DEF CallAwait, Call
  <2>3. /\ q \in Seq(Frames) /\ q # <<>> /\ Fit(o, t, status, q, held[t]) /\ (Heard(q) => Told(o))
        /\ q[Len(q)].at \notin Speaking \cup Lockers
    BY <1>2, <1>3, <1>4, <1>6, <2>1
  <2>4. QED
    BY <1>2, <1>6, <2>2, <2>3, CivilLocking
<1>7. QED
  BY <1>1, <1>5, <1>6 DEF CallAwait

\* The destructor goes on to what it has to do.
LEMMA DestroyIsCivil ==
  ASSUME TypeOK, LockInv, NEW o \in Users, GracefulInv(o), NEW t \in Threads, Destroy(t)
  PROVE  Civil(o, t)
<1>1. Calls(t, "destroy") /\ UNCHANGED <<held, aborted>>
  BY DEF Destroy
<1>2. /\ t = o /\ Top(t).at = "idle" /\ status # "OPEN" /\ stack[t] # <<>>
      /\ Top(t).at \notin Speaking \cup Lockers
  BY <1>1, WhoCalls DEF Ending
<1>3. /\ stack[t] \in Seq(Frames) /\ Top(t) \in Frames /\ Top(t) = stack[t][Len(stack[t])]
      /\ Len(stack[t]) = 1 /\ Shape(o, t, status, stack[t]) /\ (Heard(stack[t]) => Told(o))
      /\ Decent(o, t, status, Len(stack[t]), Top(t)) /\ Fit(o, t, status, stack[t], held[t])
  BY <1>2, RunningFit
<1>4. PICK td : /\ td = IF status \in {"OPEN", "WRITE_CLOSED"} THEN <<"close", "join">> ELSE <<"join">>
                /\ SetStack(t, WithTop(stack[t], [Top(t) EXCEPT !.todo = td]))
  BY DEF Destroy
<1>5. td \in Seq(Ops) /\ (status = "CREATED" => td = <<"join">>)
  <2>1. <<"close", "join">> \in Seq(Ops) /\ <<"join">> \in Seq(Ops)
    BY DEF Ops
  <2>2. td = <<"close", "join">> \/ td = <<"join">>
    BY <1>4
  <2>3. status = "CREATED" => td = <<"join">>
    BY <1>4
  <2>4. QED
    BY <2>1, <2>2, <2>3
<1>6. PICK f : f = [Top(t) EXCEPT !.todo = td]
  OBVIOUS
<1>7. f \in Frames /\ f.at = "idle" /\ f.todo = td /\ f.msg = Top(t).msg
  BY <1>2, <1>3, <1>5, <1>6 DEF Frames
<1>8. Decent(o, t, status, Len(stack[t]), f)
  BY <1>2, <1>3, <1>7 DEF Decent, Leaving, Closing
<1>9. PICK r : r = WithTop(stack[t], f)
  OBVIOUS
<1>10. r \in Seq(Frames) /\ r # <<>> /\ Len(r) = 1 /\ r[1] = f
  <2>1. /\ r \in Seq(Frames) /\ r # <<>> /\ Len(r) = Len(stack[t]) /\ r[Len(stack[t])] = f
    BY <1>2, <1>3, <1>7, <1>9, Replaced
  <2>2. QED
    BY <1>3, <2>1
<1>11. f.at \notin Loud(o, t)
  BY <1>7 DEF Loud
<1>12. Shape(o, t, status, r)
  BY <1>2, <1>3, <1>7, <1>8, <1>9, <1>11, ShapeOn
<1>13. Live(status, r, held[t])
  BY <1>2, <1>7, <1>10, SpeakingNames DEF Live
<1>14. Plan(status, r)
  <2>1. ASSUME status = "CREATED" PROVE InTurn(r[1].todo)
    <3>1. r[1].todo = <<"join">>
      BY <1>5, <1>7, <1>10, <2>1
    <3>2. InTurn(<<"join">>)
      BY DEF InTurn
    <3>3. QED
      BY <3>1, <3>2
  <2>2. QED
    BY <1>2, <2>1 DEF Plan
<1>15. ~Heard(r)
  BY <1>7, <1>10 DEF Heard
<1>16. ~Marked(stack[t])
  <2>1. stack[t][Len(stack[t])].at # "shutdown_mark"
    BY <1>2, <1>3
  <2>2. QED
    BY <1>2, <1>3, <2>1, MarkOnTop
<1>17. SetHeld(t, held[t])
  BY <1>1, HoldsOn
<1>18. SetStack(t, r)
  BY <1>4, <1>6, <1>9
<1>19. Fit(o, t, status, r, held[t])
  BY <1>12, <1>13, <1>14 DEF Fit
<1>20. QED
  BY <1>1, <1>15, <1>16, <1>17, <1>18, <1>19, CivilTo

\* producer_loop reads a message, or finds the stream closed.
LEMMA ReadIsCivil ==
  ASSUME TypeOK, LockInv, NEW o \in Users, GracefulInv(o), NEW t \in Threads, ProducerRead(t)
  PROVE  Civil(o, t) /\ (Rumour' => Rumour)
<1>1. /\ stack[t] # <<>> /\ Top(t).at = "p_read"
      /\ UNCHANGED <<held, aborted, queue, out_stream, peer_shut>>
  BY DEF ProducerRead, At
<1>2. t \notin Users /\ Top(t).at \notin Lockers /\ Top(t).at # "idle"
  <2>1. Top(t).at \in Looping
    BY <1>1 DEF Looping
  <2>2. QED
    BY <1>1, <2>1, Loops
<1>3. Top(t) \in Frames
  BY <1>1, RunningFit
<1>4. SetHeld(t, held[t])
  BY <1>1, HoldsOn
<1>5. /\ \A l \in {"p_push", "close_stop"} :
           l \in Labels /\ l \notin Loud(o, t) /\ l \notin Speaking /\ l \notin Leaving
      /\ Top(t).at \notin Leaving
  BY <1>1 DEF Labels, Loud, Speaking, FlushLabels, Leaving
<1>6. CASE /\ in_stream # <<>> /\ in_stream' = Tail(in_stream)
           /\ SetStack(t, WithTop(stack[t], [Top(t) EXCEPT !.at = "p_push", !.msg = Head(in_stream)]))
  <2>1. /\ Head(in_stream) \in Msgs
        /\ Has(in_stream', "shutdown") => Has(in_stream, "shutdown")
        /\ Head(in_stream).header = "shutdown" => Has(in_stream, "shutdown")
    BY <1>6, TailCounts DEF TypeOK
  <2>2. PICK f : f = [Top(t) EXCEPT !.at = "p_push", !.msg = Head(in_stream)]
    OBVIOUS
  <2>3. f \in Frames /\ f.at = "p_push" /\ f.msg = Head(in_stream)
    BY <1>3, <1>5, <2>1, <2>2 DEF Frames
  <2>4. f.at \notin Delicate
    BY <2>3 DEF Delicate, Leaving, Closing
  <2>5. Decent(o, t, status, Len(stack[t]), f)
    BY <2>4, OthersAreDecent
  <2>6. f.msg.header = "shutdown" => Told(o)
    BY <2>1, <2>3 DEF GracefulInv, Rumour
  <2>7. Civil(o, t)
    BY <1>1, <1>2, <1>4, <1>5, <1>6, <2>2, <2>3, <2>5, <2>6, CivilOn
  <2>8. QED
    BY <1>1, <2>1, <2>7 DEF Rumour
<1>7. CASE (~stream_open \/ conn = "broken") /\ SetStack(t, Moved(t, "close_stop")) /\ UNCHANGED in_stream
  <2>1. status = "CLOSED"
    BY <1>7 DEF GracefulInv
  <2>2. PICK f : f = [Top(t) EXCEPT !.at = "close_stop"]
    OBVIOUS
  <2>3. f \in Frames /\ f.at = "close_stop"
    BY <1>3, <1>5, <2>2 DEF Frames
  <2>4. Decent(o, t, status, Len(stack[t]), f)
    BY <1>2, <2>1, <2>3 DEF Decent, Leaving, Closing
  <2>5. Civil(o, t)
    BY <1>1, <1>2, <1>4, <1>5, <1>7, <2>2, <2>3, <2>4, CivilOn DEF Moved
  <2>6. QED
    BY <1>1, <1>7, <2>5 DEF Rumour
<1>8. QED
  BY <1>6, <1>7 DEF ProducerRead, ReadFails

\* producer_loop queues a message, and ends after a SHUTDOWN.
LEMMA PushIsCivil ==
  ASSUME TypeOK, LockInv, NEW o \in Users, GracefulInv(o), NEW t \in Threads, ProducerPush(t)
  PROVE  Civil(o, t) /\ (Rumour' => Rumour \/ Told(o)')
<1>1. /\ stack[t] # <<>> /\ Top(t).at = "p_push" /\ queue' = Append(queue, Top(t).msg)
      /\ UNCHANGED <<status, held, aborted, in_stream, out_stream, peer_shut>>
      /\ SetStack(t, <<>>) \/ SetStack(t, Moved(t, "p_top"))
  <2>1. /\ stack[t] # <<>> /\ Top(t).at = "p_push" /\ queue' = Append(queue, Top(t).msg)
        /\ UNCHANGED <<status, held, aborted, in_stream, out_stream, peer_shut>>
        /\ SetStack(t, AfterPush(t, Top(t).msg))
    BY DEF ProducerPush, At, env
  <2>2. AfterPush(t, Top(t).msg) = <<>> \/ AfterPush(t, Top(t).msg) = Moved(t, "p_top")
    BY DEF AfterPush
  <2>3. QED
    BY <2>1, <2>2
<1>2. t \notin Users /\ Top(t).at \notin Lockers /\ Top(t).at # "idle"
  <2>1. Top(t).at \in Looping
    BY <1>1 DEF Looping
  <2>2. QED
    BY <1>1, <2>1, Loops
<1>3. /\ stack[t] \in Seq(Frames) /\ Top(t) \in Frames /\ Top(t) = stack[t][Len(stack[t])]
      /\ Len(stack[t]) \in 1 .. Len(stack[t])
      /\ Shape(o, t, status, stack[t]) /\ (Heard(stack[t]) => Told(o))
  BY <1>1, RunningFit
<1>4. SetHeld(t, held[t])
  BY <1>1, HoldsOn
<1>5. Civil(o, t)
  <2>1. CASE SetStack(t, <<>>)
    <3>1. Len(<<>>) = 0 /\ 1 .. 0 = {}
      OBVIOUS
    <3>2. Fit(o, t, status, <<>>, held[t]) /\ ~Heard(<<>>)
      BY <1>2, <3>1 DEF Fit, Shape, Live, Heard
    <3>3. ~Marked(stack[t])
      BY <1>1, <1>3, MarkOnTop
    <3>4. QED
      BY <1>1, <1>4, <2>1, <3>2, <3>3, CivilTo
  <2>2. CASE SetStack(t, Moved(t, "p_top"))
    <3>1. /\ "p_top" \in Labels /\ Top(t).at \notin Leaving
          /\ "p_top" \notin Delicate \cup Speaking \cup {"start_check", "await_pop", "handle_pop", "p_push"}
      BY <1>1 DEF Labels, Delicate, Leaving, Closing, Speaking, FlushLabels
    <3>2. QED
      BY <1>1, <1>2, <1>4, <2>2, <3>1, CivilMove
  <2>3. QED
    BY <1>1, <2>1, <2>2
<1>6. Told(o) => Told(o)'
  <2>1. o \in Threads \ {t}
    BY <1>2 DEF Threads
  <2>2. stack'[o] = stack[o]
    BY <1>5, <2>1 DEF Civil
  <2>3. QED
    BY <1>1, <2>2 DEF Told
<1>7. Has(queue', "shutdown") => Has(queue, "shutdown") \/ Told(o)'
  <2>1. Top(t).msg \in Msgs /\ queue \in Seq(Msgs)
    BY <1>3 DEF Frames, TypeOK
  <2>2. Has(queue', "shutdown") => Has(queue, "shutdown") \/ Top(t).msg.header = "shutdown"
    BY <1>1, <2>1, AppendCounts
  <2>3. Top(t).msg.header = "shutdown" => Told(o)
    BY <1>1, <1>3 DEF Heard
  <2>4. QED
    BY <1>6, <2>2, <2>3
<1>8. QED
  BY <1>1, <1>5, <1>7 DEF Rumour

-----------------------------------------------------------------------------
(* The status changes                                                      *)

\* A step of thread t that ends the transport, while nobody else is about to flush.
LEMMA EndingIsGraceful ==
  ASSUME TypeOK, NEW o \in Users, GracefulInv(o), NEW t \in Threads,
         Ends(status'), status' = "CLOSED" \/ status = "OPEN",
         \A u \in Threads \ {t} : /\ stack'[u] = stack[u] /\ held'[u] = held[u]
                                  /\ \A i \in 1 .. Len(stack[u]) :
                                       stack[u][i].at \in Speaking => stack[u][Len(stack[u])].at = "start_check",
         Fit(o, t, status', stack'[t], held'[t]), UNCHANGED <<conn, stream_open, aborted>>
  PROVE  GracefulInv(o)'
<1>1. Told(o)'
  BY DEF Told, Ends
<1>2. ASSUME NEW u \in Threads PROVE Fit(o, u, status', stack'[u], held'[u])
  <2>1. CASE u = t
    BY <2>1
  <2>2. CASE u # t
    <3>1. u \in Threads \ {t} /\ stack[u] \in Seq(Frames)
      BY <2>2 DEF TypeOK
    <3>2. Fit(o, u, status, stack[u], held[u])
      BY DEF GracefulInv
    <3>3. Fit(o, u, status', stack[u], held[u])
      BY <3>1, <3>2, FitThrough
    <3>4. QED
      BY <3>1, <3>3
  <2>3. QED
    BY <2>1, <2>2
<1>3. conn' = "up" /\ (~stream_open' => status' = "CLOSED") /\ ~aborted'
  BY DEF GracefulInv
<1>4. QED
  BY <1>1, <1>2, <1>3 DEF GracefulInv

\* Once the transport is not open, nobody has passed the test of start_message.
LEMMA NobodyFlushes ==
  ASSUME TypeOK, NEW o \in Users, GracefulInv(o), status # "OPEN", NEW u \in Threads
  PROVE  \A i \in 1 .. Len(stack[u]) :
           stack[u][i].at \in Speaking => stack[u][Len(stack[u])].at = "start_check"
BY DEF GracefulInv, Fit, Live

\* While o ends its shutdown(), nobody else sends: the others send from handlers, which
\* hold the message mutex.
LEMMA NobodyElseSpeaks ==
  ASSUME TypeOK, LockInv, NEW o \in Users, GracefulInv(o), held[o] > 0, NEW u \in Threads, u # o
  PROVE  \A i \in 1 .. Len(stack[u]) : stack[u][i].at \notin Speaking
<1>1. SUFFICES ASSUME NEW i \in 1 .. Len(stack[u]), stack[u][i].at \in Speaking PROVE FALSE
  OBVIOUS
<1>2. /\ stack[u] \in Seq(Frames) /\ held[u] \in Nat /\ Shape(o, u, status, stack[u])
      /\ Sound(u, stack[u], held[u])
  BY DEF TypeOK, GracefulInv, Fit, LockInv
<1>3. Decent(o, u, status, i, stack[u][i])
  BY <1>2 DEF Shape
<1>4. stack[u][i].at \in {"send_flush", "rpc_flush"}
  BY <1>1, <1>3 DEF Decent, Speaking, FlushLabels, Leaving
<1>5. stack[u][i].at \in Loud(o, u)
  BY <1>4 DEF Loud
<1>6. PICK j \in 1 .. i - 1 : stack[u][j].at = "handler"
  BY <1>2, <1>5 DEF Shape
<1>7. /\ Len(stack[u]) \in Nat /\ j \in 1 .. Len(stack[u]) /\ Len(stack[u]) \in 1 .. Len(stack[u])
      /\ j <= Len(stack[u]) /\ stack[u] # <<>>
  BY <1>2, <1>6, LenProperties, EmptySeq
<1>8. Decent(o, u, status, j, stack[u][j])
  BY <1>2, <1>7 DEF Shape
<1>9. stack[u][j].base > 0
  BY <1>6, <1>8 DEF Decent
<1>10. stack[u][j].base <= stack[u][Len(stack[u])].base /\ stack[u][Len(stack[u])].base <= held[u]
  BY <1>2, <1>7 DEF Sound, Disciplined
<1>11. stack[u][j] \in Frames /\ stack[u][Len(stack[u])] \in Frames
  BY <1>2, <1>7, ElementOfSeq
<1>12. stack[u][j].base \in Nat /\ stack[u][Len(stack[u])].base \in Nat
  BY <1>11 DEF Frames
<1>13. held[u] > 0
  BY <1>2, <1>9, <1>10, <1>12
<1>14. QED
  BY <1>13 DEF LockInv, Exclusive, Threads

\* The innermost call of t returns and the transport ends, or is ended already.
LEMMA EndsAndReturns ==
  ASSUME TypeOK, LockInv, NEW o \in Users, GracefulInv(o), NEW t \in Threads, stack[t] # <<>>,
         Top(t).at \in {"shutdown_mark", "ack_done"}, Return(t), Ends(status'),
         status' = "CLOSED" \/ status = "OPEN"
  PROVE  /\ Fit(o, t, status', stack'[t], held'[t])
         /\ \A u \in Threads \ {t} : stack'[u] = stack[u] /\ held'[u] = held[u]
<1>1. /\ stack[t] \in Seq(Frames) /\ Top(t) = stack[t][Len(stack[t])] /\ Shape(o, t, status, stack[t])
  BY RunningFit
<1>2. PICK r : r = Under(stack[t])
  OBVIOUS
<1>3. /\ r \in Seq(Frames) /\ Len(stack[t]) \in Nat \ {0} /\ Len(r) = Len(stack[t]) - 1
      /\ \A i \in 1 .. Len(stack[t]) - 1 : r[i] = stack[t][i]
  BY <1>1, <1>2, UnderProperties
<1>4. Shape(o, t, status', stack[t])
  BY <1>1, ShapeEnds
<1>5. Shape(o, t, status', r)
  <2>1. Len(stack[t]) - 1 \in Nat /\ Len(stack[t]) - 1 <= Len(stack[t])
    BY <1>3
  <2>2. QED
    BY <1>1, <1>2, <1>4, <2>1, ShapeOut DEF Under
<1>6. ASSUME NEW i \in 1 .. Len(r) PROVE r[i].at \notin Speaking
  <2>1. i \in 1 .. Len(stack[t]) /\ i # Len(stack[t]) /\ r[i] = stack[t][i]
    BY <1>3
  <2>2. r[i].at \in Speaking => stack[t][Len(stack[t])].at \in Lockers
    BY <1>1, <2>1 DEF Shape
  <2>3. QED
    BY <1>1, <2>2 DEF Lockers
<1>7. Fit(o, t, status', r, Top(t).base)
  BY <1>3, <1>5, <1>6, FitEnds
<1>8. QED
  BY <1>2, <1>7, Stores DEF Return

\* shutdown() marks the transport.
LEMMA ShutdownIsGraceful ==
  ASSUME TypeOK, LockInv, NEW o \in Users, GracefulInv(o), NEW t \in Threads, ShutdownMark(t)
  PROVE  GracefulInv(o)'
<1>1. /\ stack[t] # <<>> /\ Top(t).at = "shutdown_mark" /\ status' = "WRITE_CLOSED" /\ Return(t)
      /\ UNCHANGED <<aborted, conn, stream_open>>
  BY DEF ShutdownMark, At, env, local
<1>2. /\ Top(t) = stack[t][Len(stack[t])] /\ Len(stack[t]) \in 1 .. Len(stack[t])
      /\ Fit(o, t, status, stack[t], held[t]) /\ Decent(o, t, status, Len(stack[t]), Top(t))
  BY <1>1, RunningFit
<1>3. t = o
  BY <1>1, <1>2 DEF Decent, Leaving
<1>4. status = "OPEN"
  <2>1. \E i \in 1 .. Len(stack[t]) : stack[t][i].at \in Speaking
    BY <1>1, <1>2 DEF Speaking
  <2>2. QED
    BY <1>1, <1>2, <2>1 DEF Fit, Live
<1>5. held[t] > 0
  BY <1>1, <1>2 DEF Fit, Live, Leaving
<1>6. Ends(status')
  BY <1>1 DEF Ends
<1>7. /\ Fit(o, t, status', stack'[t], held'[t])
      /\ \A u \in Threads \ {t} : stack'[u] = stack[u] /\ held'[u] = held[u]
  BY <1>1, <1>4, <1>6, EndsAndReturns
<1>8. \A u \in Threads \ {t} : \A i \in 1 .. Len(stack[u]) : stack[u][i].at \notin Speaking
  BY <1>3, <1>5, NobodyElseSpeaks
<1>9. QED
  BY <1>1, <1>4, <1>6, <1>7, <1>8, EndingIsGraceful

\* close() stops the threads; so does the answer to the shutdown.
LEMMA StopIsGraceful ==
  ASSUME TypeOK, LockInv, NEW o \in Users, GracefulInv(o), NEW t \in Threads, CloseStop(t) \/ AckDone(t)
  PROVE  GracefulInv(o)'
<1>1. /\ stack[t] # <<>> /\ Top(t).at \in {"close_stop", "ack_done"} /\ status' = "CLOSED"
      /\ UNCHANGED <<aborted, conn, stream_open>>
  BY DEF CloseStop, AckDone, StopThreads, At, env, local
<1>2. /\ stack[t] \in Seq(Frames) /\ Top(t) \in Frames /\ Top(t) = stack[t][Len(stack[t])]
      /\ Shape(o, t, status, stack[t]) /\ Decent(o, t, status, Len(stack[t]), Top(t))
  BY <1>1, RunningFit
<1>3. Ends(status')
  BY <1>1 DEF Ends
<1>4. status # "OPEN"
  BY <1>1, <1>2 DEF Decent, Ends
<1>5. /\ Fit(o, t, status', stack'[t], held'[t])
      /\ \A u \in Threads \ {t} : stack'[u] = stack[u] /\ held'[u] = held[u]
  <2>1. CASE AckDone(t)
    <3>1. Return(t) /\ Top(t).at = "ack_done"
      BY <2>1 DEF AckDone, At
    <3>2. QED
      BY <1>1, <1>3, <3>1, EndsAndReturns
  <2>2. CASE CloseStop(t)
    <3>1. SetStack(t, Moved(t, "close_stream")) /\ UNCHANGED held /\ Top(t).at = "close_stop"
      BY <2>2 DEF CloseStop, At
    <3>2. PICK f : f = [Top(t) EXCEPT !.at = "close_stream"]
      OBVIOUS
    <3>3. f \in Frames /\ f.at = "close_stream"
      BY <1>2, <3>2, LabelsType DEF Frames
    <3>4. Decent(o, t, status', Len(stack[t]), f)
      BY <1>1, <1>2, <3>1, <3>3 DEF Decent, Leaving, Closing
    <3>5. Shape(o, t, status', stack[t])
      BY <1>1, <1>2, <1>3, ShapeEnds
    <3>6. /\ f.at \notin Loud(o, t) /\ Top(t).at \notin Lockers /\ f.at \notin Speaking \cup Lockers
      BY <3>1, <3>3 DEF Loud, Lockers, Speaking, FlushLabels
    <3>7. PICK r : r = WithTop(stack[t], f)
      OBVIOUS
    <3>8. /\ r \in Seq(Frames) /\ r # <<>> /\ Len(r) = Len(stack[t]) /\ r[Len(stack[t])] = f
      BY <1>1, <1>2, <3>3, <3>7, Replaced
    <3>9. Shape(o, t, status', r)
      BY <1>1, <1>2, <3>3, <3>4, <3>5, <3>6, <3>7, ShapeOn
    <3>10. \A i \in 1 .. Len(r) : r[i].at \notin Speaking
      BY <3>6, <3>8, <3>9, NobodySpeaks
    <3>11. Fit(o, t, status', r, held[t])
      BY <1>3, <3>8, <3>9, <3>10, FitEnds
    <3>12. SetHeld(t, held[t]) /\ SetStack(t, r)
      BY <3>1, <3>2, <3>7, HoldsOn DEF Moved
    <3>13. QED
      BY <3>11, <3>12, Stores
  <2>3. QED
    BY <2>1, <2>2
<1>6. QED
  BY <1>1, <1>3, <1>4, <1>5, NobodyFlushes, EndingIsGraceful

\* start() opens the transport and creates the workers.
LEMMA StartIsGraceful ==
  ASSUME TypeOK, LockInv, NEW o \in Users, GracefulInv(o), NEW t \in Threads, Start(t)
  PROVE  GracefulInv(o)'
<1>1. /\ Calls(t, "start")
      /\ UNCHANGED <<conn, stream_open, queue, in_stream, out_stream, peer_shut>>
  BY DEF Start, env, local
<1>2. /\ t = o /\ Top(t).at = "idle" /\ stack[t] # <<>>
      /\ Top(t).todo # <<>> /\ Head(Top(t).todo) = "start"
      /\ Top(t).at \notin Speaking \cup Lockers
  BY <1>1, WhoCalls
<1>3. CASE status # "CREATED"
  <2>1. Throw(t, Begun(t)) /\ UNCHANGED status
    BY <1>3 DEF Start
  <2>2. Civil(o, t)
    BY <1>1, <2>1, RefusalIsCivil
  <2>3. QED
    BY <1>1, <2>1, <2>2, CivilIsGraceful DEF Rumour
<1>4. CASE status = "CREATED"
  <2>1. PICK p : p = Frame("p_top", NoMsg, <<>>, 0)
    OBVIOUS
  <2>2. PICK c : c = Frame("c_top", NoMsg, <<>>, 0)
    OBVIOUS
  <2>3. /\ status' = "OPEN" /\ UNCHANGED <<held, aborted>>
        /\ stack' = [stack EXCEPT ![t] = Begun(t), ![Producer] = <<p>>, ![Consumer] = <<c>>]
    BY <1>4, <2>1, <2>2 DEF Start
  <2>4. t \notin Workers /\ Producer # Consumer /\ Workers = {Producer, Consumer}
        /\ \A u \in Threads : u \in Users \/ u \in Workers
    BY <1>2, UsersAssumption DEF Workers, Producer, Consumer, Threads
  <2>5. /\ stack'[t] = Begun(t) /\ stack'[Producer] = <<p>> /\ stack'[Consumer] = <<c>>
        /\ \A u \in Users \ {o} : stack'[u] = stack[u]
    <3>1. stack \in [Threads -> Seq(Frames)] /\ Producer \in Threads /\ Consumer \in Threads
          /\ Users \subseteq Threads
      BY DEF TypeOK, Threads, Workers
    <3>2. \A u \in Users : u # Producer /\ u # Consumer
      BY <2>4, UsersAssumption
    <3>3. QED
      BY <1>2, <2>3, <2>4, <3>1, <3>2
  <2>6. /\ stack[t] \in Seq(Frames) /\ Top(t) \in Frames /\ Top(t) = stack[t][Len(stack[t])]
        /\ Len(stack[t]) = 1 /\ Shape(o, t, status, stack[t]) /\ Fit(o, t, status, stack[t], held[t])
        /\ Decent(o, t, status, Len(stack[t]), Top(t))
    BY <1>2, RunningFit
  <2>7. ~Told(o)
    <3>1. stack[t][Len(stack[t])].at # "shutdown_mark"
      BY <1>2, <2>6
    <3>2. ~Marked(stack[t])
      BY <1>2, <2>6, <3>1, MarkOnTop
    <3>3. QED
      BY <1>2, <1>4, <3>2 DEF Told, Ends
  <2>8. ~Rumour /\ \A u \in Threads : ~Heard(stack[u])
    BY <2>7 DEF GracefulInv
  <2>9. ~Rumour'
    BY <1>1, <2>8 DEF Rumour
  <2>10. Fit(o, t, "OPEN", stack'[t], held'[t]) /\ ~Heard(stack'[t])
    <3>1. PICK f : f = [Top(t) EXCEPT !.todo = Tail(Top(t).todo)]
      OBVIOUS
    <3>2. Top(t).todo \in Seq(Ops) /\ Tail(Top(t).todo) \in Seq(Ops)
      BY <1>2, <2>6, HeadTailProperties DEF Frames
    <3>3. f \in Frames /\ f.at = "idle" /\ f.todo = Tail(Top(t).todo)
      BY <1>2, <2>6, <3>1, <3>2 DEF Frames
    <3>4. PICK r : r = WithTop(stack[t], f)
      OBVIOUS
    <3>5. stack'[t] = r
      BY <2>5, <3>1, <3>4 DEF Begun
    <3>6. r # <<>> /\ Len(r) = 1 /\ r[1] = f
      <4>1. r # <<>> /\ Len(r) = Len(stack[t]) /\ r[Len(stack[t])] = f
        BY <1>2, <2>6, <3>3, <3>4, Replaced
      <4>2. QED
        BY <2>6, <4>1
    <3>7. Decent(o, t, "OPEN", 1, f) /\ f.at \notin Loud(o, t) /\ f.at \notin Speaking /\ f.at \notin Leaving
      BY <1>2, <3>3 DEF Decent, Leaving, Closing, Loud, Speaking, FlushLabels
    <3>8. Shape(o, t, "OPEN", r)
      BY <3>6, <3>7 DEF Shape
    <3>9. Live("OPEN", r, held'[t])
      BY <3>6, <3>7 DEF Live
    <3>10. ShutsFirst(f.todo)
      <4>1. InTurn(Top(t).todo)
        BY <1>2, <1>4, <2>6 DEF Fit, Plan
      <4>2. QED
        BY <1>2, <3>2, <3>3, <4>1, PlanTail
    <3>11. Plan("OPEN", r)
      BY <3>6, <3>10 DEF Plan
    <3>12. ~Heard(r)
      BY <3>3, <3>6 DEF Heard
    <3>13. QED
      BY <3>5, <3>8, <3>9, <3>11, <3>12 DEF Fit
  <2>11. ASSUME NEW w \in Workers
         PROVE  Fit(o, w, "OPEN", stack'[w], held'[w]) /\ ~Heard(stack'[w])
    <3>1. PICK f \in {p, c} : stack'[w] = <<f>>
      BY <2>4, <2>5
    <3>2. PICK r : r = <<f>>
      OBVIOUS
    <3>3. f.at \in {"p_top", "c_top"}
      <4>1. p.at = "p_top" /\ c.at = "c_top"
        BY <2>1, <2>2 DEF Frame
      <4>2. QED
        BY <4>1
    <3>4. r # <<>> /\ Len(r) = 1 /\ r[1] = f
      BY <3>2
    <3>5. /\ f.at \notin Loud(o, w) /\ f.at \notin Speaking /\ f.at \notin Leaving /\ f.at \notin Delicate
      BY <3>3 DEF Loud, Speaking, FlushLabels, Leaving, Closing, Delicate
    <3>6. Decent(o, w, "OPEN", 1, f)
      BY <3>5, OthersAreDecent
    <3>7. Shape(o, w, "OPEN", r) /\ Live("OPEN", r, held'[w]) /\ ~Heard(r)
      BY <3>3, <3>4, <3>5, <3>6 DEF Shape, Live, Heard
    <3>8. w # o
      BY <1>2, <2>4
    <3>9. QED
      BY <3>1, <3>2, <3>7, <3>8 DEF Fit
  <2>12. ASSUME NEW u \in Users \ {o}
         PROVE  Fit(o, u, "OPEN", stack'[u], held'[u]) /\ ~Heard(stack'[u])
    <3>1. u \in Threads /\ stack'[u] = stack[u] /\ stack[u] \in Seq(Frames)
      BY <2>5 DEF Threads, TypeOK
    <3>2. Fit(o, u, status, stack[u], held[u]) /\ ~Heard(stack[u])
      BY <2>8, <3>1 DEF GracefulInv
    <3>3. ASSUME NEW i, NEW f, Decent(o, u, status, i, f)
          PROVE  Decent(o, u, "OPEN", i, f) /\ f.at \notin Leaving
      BY <1>4, <3>3 DEF Decent, Closing, Ends
    <3>4. Shape(o, u, "OPEN", stack[u])
      BY <3>2, <3>3 DEF Fit, Shape
    <3>5. stack[u] # <<>> => Len(stack[u]) \in 1 .. Len(stack[u])
      BY <3>1, UnderProperties
    <3>6. stack[u] # <<>> => stack[u][Len(stack[u])].at \notin Leaving
      BY <3>2, <3>3, <3>5 DEF Fit, Shape
    <3>7. Live("OPEN", stack[u], held'[u])
      BY <3>6 DEF Live
    <3>8. QED
      BY <3>1, <3>2, <3>4, <3>7 DEF Fit
  <2>13. ASSUME NEW u \in Threads
         PROVE  Fit(o, u, status', stack'[u], held'[u]) /\ ~Heard(stack'[u])
    BY <1>2, <2>3, <2>4, <2>10, <2>11, <2>12
  <2>14. conn' = "up" /\ stream_open' /\ ~aborted'
    BY <1>1, <1>4, <2>3 DEF GracefulInv
  <2>15. QED
    BY <2>9, <2>13, <2>14 DEF GracefulInv
<1>5. QED
  BY <1>3, <1>4

\* No flush fails, and no SHUTDOWN is answered that o did not ask for.
LEMMA FlushSucceeds ==
  ASSUME TypeOK, LockInv, NEW o \in Users, GracefulInv(o), NEW t \in Threads
  PROVE  ~FlushFails(t) /\ ~AckFlush(t)
<1>1. ASSUME FlushFails(t) PROVE FALSE
  <2>1. /\ stack[t] # <<>> /\ Top(t).at \in FlushLabels
        /\ status # "OPEN" \/ ~stream_open \/ conn = "broken"
    BY <1>1 DEF FlushFails, At
  <2>2. /\ Top(t) = stack[t][Len(stack[t])] /\ Len(stack[t]) \in 1 .. Len(stack[t])
        /\ Fit(o, t, status, stack[t], held[t])
    BY <2>1, RunningFit
  <2>3. Top(t).at \in Speaking /\ Top(t).at # "start_check"
    BY <2>1 DEF Speaking, FlushLabels
  <2>4. status = "OPEN"
    BY <2>2, <2>3 DEF Fit, Live
  <2>5. QED
    BY <2>1, <2>4 DEF GracefulInv
<1>2. ASSUME AckFlush(t) PROVE FALSE
  <2>1. stack[t] # <<>> /\ Top(t).at = "ack_flush"
    BY <1>2 DEF AckFlush, At
  <2>2. QED
    BY <2>1, RunningFit DEF Decent
<1>3. QED
  BY <1>1, <1>2

\* Nothing happens to the threads.
LEMMA RestIsGraceful ==
  ASSUME NEW o \in Users, GracefulInv(o), UNCHANGED <<status, stack, held, aborted, stream_open, conn>>,
         Rumour' => Rumour
  PROVE  GracefulInv(o)'
BY DEF GracefulInv, Told

\* The peer answers what it is sent, and a SHUTDOWN only when it is sent one.
LEMMA EnvironmentIsGraceful ==
  ASSUME TypeOK, NEW o \in Users, GracefulUse(o), GracefulInv(o), Environment
  PROVE  GracefulInv(o)'
<1>1. UNCHANGED <<status, stack, held, aborted, stream_open, queue>>
  BY DEF Environment, PeerTake, PeerCall, PeerShutdown, ConnectionBreaks, local
<1>2. in_stream \in Seq(Msgs) /\ out_stream \in Seq(Msgs) /\ peer_calls \in Nat
  BY DEF TypeOK
<1>3. CASE PeerTake
  <2>1. PICK m : m = Head(out_stream)
    OBVIOUS
  <2>2. /\ out_stream # <<>> /\ out_stream' = Tail(out_stream) /\ UNCHANGED conn
        /\ peer_shut' = (peer_shut \/ m.header = "shutdown")
        /\ in_stream' = IF peer_shut \/ m.header \notin {"call", "shutdown"} THEN in_stream
                        ELSE IF m.header = "call" THEN Append(in_stream, Msg("ret", m.id))
                        ELSE Append(in_stream, Msg("shutdown", 0))
    BY <1>3, <2>1 DEF PeerTake
  <2>3. /\ m \in Msgs /\ (Has(out_stream', "shutdown") => Has(out_stream, "shutdown"))
        /\ m.header = "shutdown" => Has(out_stream, "shutdown")
    BY <1>2, <2>1, <2>2, TailCounts
  <2>4. Has(in_stream', "shutdown") => Has(in_stream, "shutdown") \/ m.header = "shutdown"
    <3>1. Msg("ret", m.id) \in Msgs /\ Msg("ret", m.id).header = "ret"
      BY <2>3, MsgType DEF Msgs, Headers, Msg
    <3>2. Has(Append(in_stream, Msg("ret", m.id)), "shutdown") => Has(in_stream, "shutdown")
      BY <1>2, <3>1, AppendCounts
    <3>3. \/ in_stream' = in_stream
          \/ in_stream' = Append(in_stream, Msg("ret", m.id))
          \/ m.header = "shutdown"
      BY <2>2
    <3>4. QED
      BY <3>2, <3>3
  <2>5. peer_shut' => peer_shut \/ m.header = "shutdown"
    BY <2>2
  <2>6. Rumour' => Rumour
    BY <1>1, <2>3, <2>4, <2>5 DEF Rumour
  <2>7. QED
    BY <1>1, <2>2, <2>6, RestIsGraceful
<1>4. CASE PeerCall
  <2>1. /\ in_stream' = Append(in_stream, Msg("call", peer_calls + 1))
        /\ UNCHANGED <<conn, out_stream, peer_shut>>
    BY <1>4 DEF PeerCall
  <2>2. Msg("call", peer_calls + 1) \in Msgs /\ Msg("call", peer_calls + 1).header = "call"
    BY <1>2, MsgType DEF Headers, Msg
  <2>3. Has(in_stream', "shutdown") => Has(in_stream, "shutdown")
    BY <1>2, <2>1, <2>2, AppendCounts
  <2>4. Rumour' => Rumour
    BY <1>1, <2>1, <2>3 DEF Rumour
  <2>5. QED
    BY <1>1, <2>1, <2>4, RestIsGraceful
<1>5. ~PeerShutdown /\ ~ConnectionBreaks
  BY DEF PeerShutdown, ConnectionBreaks, GracefulUse
<1>6. QED
  BY <1>3, <1>4, <1>5 DEF Environment

-----------------------------------------------------------------------------
(* The invariant of graceful use                                           *)

\* Every step of a thread keeps the use graceful.
LEMMA StepKeepsGraceful ==
  ASSUME TypeOK, LockInv, NEW o \in Users, GracefulUse(o), GracefulInv(o), NEW t \in Threads, Step(t)
  PROVE  GracefulInv(o)'
<1>1. CASE \/ LockCount(t) \/ LockAcquire(t) \/ LockCounted(t) \/ StartCheck(t)
           \/ SendDone(t) \/ RpcDone(t) \/ AwaitDone(t) \/ HandlerReturn(t) \/ SyncDone(t)
           \/ SetHandlers(t) \/ DispatchIgnored(t)
           \/ AwaitClosed(t) \/ AwaitBlocks(t) \/ DispatchToHandler(t) \/ DispatchShutdown(t)
           \/ ProducerTop(t) \/ ConsumerTop(t) \/ ConsumerLock(t) \/ ConsumerDefer(t)
           \/ ConsumerExit(t) \/ ConsumerWait(t) \/ ConsumerHandled(t)
           \/ CallSync(t) \/ CallHandlers(t) \/ CallClose(t) \/ Join(t) \/ CallSend(t)
           \/ CallAwait(t) \/ CallShutdown(t) \/ Destroy(t)
  <2>1. UNCHANGED <<status, conn, stream_open, queue, in_stream, out_stream, peer_shut>>
    BY <1>1 DEF LockCount, LockAcquire, LockCounted, StartCheck, SendDone, RpcDone, AwaitDone,
       HandlerReturn, SyncDone, SetHandlers, DispatchIgnored, AwaitClosed, AwaitBlocks,
       DispatchToHandler, DispatchShutdown, ProducerTop, ConsumerTop, ConsumerLock, ConsumerDefer,
       ConsumerExit, ConsumerWait, ConsumerHandled, CallSync, CallHandlers, CallClose, Join, CallSend,
       CallAwait, CallShutdown, Destroy, env, local
  <2>2. CASE CallShutdown(t)
    <3>1. ASSUME status # "OPEN" PROVE Calls(t, "shutdown") /\ Throw(t, Begun(t))
      BY <2>2, <3>1 DEF CallShutdown
    <3>2. Civil(o, t)
      BY <2>2, <3>1, CallSendIsCivil, RefusalIsCivil
    <3>3. QED
      BY <2>1, <3>2, CivilIsGraceful DEF Rumour
  <2>3. CASE ~CallShutdown(t)
    <3>1. Civil(o, t)
      BY <1>1, <2>3, LockIsCivil, EndIsCivil, AwaitIsCivil, DispatchIsCivil, LoopIsCivil, CallIsCivil,
         CallSendIsCivil, CallAwaitIsCivil, DestroyIsCivil
    <3>2. QED
      BY <2>1, <3>1, CivilIsGraceful DEF Rumour
  <2>4. QED
    BY <2>2, <2>3
<1>2. CASE AwaitMatch(t) \/ AwaitOther(t) \/ HandleTake(t) \/ ConsumerTake(t)
  <2>1. /\ queue # <<>> /\ queue' = Tail(queue)
        /\ UNCHANGED <<status, conn, stream_open, in_stream, out_stream, peer_shut>>
    BY <1>2 DEF AwaitMatch, AwaitOther, HandleTake, ConsumerTake, env, local
  <2>2. Has(queue', "shutdown") => Has(queue, "shutdown")
    BY <2>1, TailCounts DEF TypeOK
  <2>3. Rumour' => Rumour
    BY <2>1, <2>2 DEF Rumour
  <2>4. Civil(o, t)
    BY <1>2, MatchIsCivil, TakeIsCivil
  <2>5. QED
    BY <2>1, <2>3, <2>4, CivilIsGraceful
<1>3. CASE SendFlush(t) \/ ShutdownFlush(t) \/ RpcFlush(t)
  <2>1. UNCHANGED <<status, conn, stream_open>>
    BY <1>3 DEF SendFlush, ShutdownFlush, RpcFlush, Written, local
  <2>2. Civil(o, t) /\ (Rumour' => Rumour \/ Told(o)')
    BY <1>3, FlushIsCivil, RpcIsCivil
  <2>3. QED
    BY <2>1, <2>2, CivilIsGraceful
<1>4. CASE ProducerRead(t) \/ ProducerPush(t)
  <2>1. UNCHANGED <<status, conn, stream_open>>
    BY <1>4 DEF ProducerRead, ProducerPush, env, local
  <2>2. Civil(o, t) /\ (Rumour' => Rumour \/ Told(o)')
    BY <1>4, ReadIsCivil, PushIsCivil
  <2>3. QED
    BY <2>1, <2>2, CivilIsGraceful
<1>5. CASE CloseStream(t)
  <2>1. /\ UNCHANGED <<status, conn, queue, in_stream, out_stream, peer_shut>>
        /\ stack[t] # <<>> /\ Top(t).at = "close_stream"
    BY <1>5 DEF CloseStream, At, env
  <2>2. status = "CLOSED"
    BY <2>1, RunningFit DEF Decent
  <2>3. Civil(o, t)
    BY <1>5, EndIsCivil
  <2>4. QED
    BY <2>1, <2>2, <2>3, CivilIsGraceful DEF Rumour
<1>6. CASE ShutdownMark(t) \/ CloseStop(t) \/ AckDone(t) \/ Start(t)
  BY <1>6, ShutdownIsGraceful, StopIsGraceful, StartIsGraceful
<1>7. ~FlushFails(t) /\ ~AckFlush(t)
  BY FlushSucceeds
<1>8. QED
  BY <1>1, <1>2, <1>3, <1>4, <1>5, <1>6, <1>7 DEF Step

\* The use is graceful before anyone has run.
LEMMA InitiallyGraceful ==
  ASSUME NEW o \in Users, GracefulUse(o), Init
  PROVE  GracefulInv(o)
<1>1. PICK scripts \in [Users -> UNION {UserScripts[u] : u \in Users}] :
        /\ \A u \in Users : scripts[u] \in UserScripts[u]
        /\ stack = [t \in Threads |->
                      IF t \in Users THEN <<Frame("idle", NoMsg, scripts[t], 0)>> ELSE <<>>]
  BY DEF Init
<1>2. /\ status = "CREATED" /\ stream_open /\ conn = "up" /\ ~aborted /\ ~peer_shut
      /\ queue = <<>> /\ in_stream = <<>> /\ out_stream = <<>>
  BY DEF Init
<1>3. ~Rumour
  BY <1>2 DEF Rumour, Has
<1>4. ASSUME NEW u \in Users PROVE Fit(o, u, status, stack[u], held[u]) /\ ~Heard(stack[u])
  <2>1. PICK f : f = Frame("idle", NoMsg, scripts[u], 0)
    OBVIOUS
  <2>2. f.at = "idle" /\ f.todo = scripts[u]
    BY <2>1 DEF Frame
  <2>3. PICK r : r = <<f>>
    OBVIOUS
  <2>4. stack[u] = r /\ r # <<>> /\ Len(r) = 1 /\ r[1] = f
    BY <1>1, <2>1, <2>3 DEF Threads
  <2>5. /\ u # o => scripts[u] \in Seq(Listening)
        /\ u = o => InTurn(scripts[u])
    BY <1>1 DEF GracefulUse
  <2>6. /\ Decent(o, u, status, 1, f) /\ f.at \notin Loud(o, u) /\ f.at \notin Speaking
        /\ f.at \notin Leaving
    BY <2>2, <2>5 DEF Decent, Leaving, Closing, Loud, Speaking, FlushLabels
  <2>7. Shape(o, u, status, r) /\ Live(status, r, held[u])
    BY <2>4, <2>6 DEF Shape, Live
  <2>8. u = o => Plan(status, r)
    BY <1>2, <2>2, <2>4, <2>5 DEF Plan
  <2>9. ~Heard(r)
    BY <2>2, <2>4 DEF Heard
  <2>10. QED
    BY <2>4, <2>7, <2>8, <2>9 DEF Fit
<1>5. ASSUME NEW w \in Threads, w \notin Users
      PROVE  Fit(o, w, status, stack[w], held[w]) /\ ~Heard(stack[w])
  <2>1. stack[w] = <<>> /\ Len(stack[w]) = 0 /\ w # o
    BY <1>1, <1>5
  <2>2. QED
    BY <2>1 DEF Fit, Shape, Live, Heard
<1>6. QED
  BY <1>2, <1>3, <1>4, <1>5 DEF GracefulInv

\* The invariant of graceful use holds throughout.
LEMMA UseStaysGraceful ==
  ASSUME NEW o \in Users, GracefulUse(o)
  PROVE  Spec => []GracefulInv(o)
<1>1. Init => GracefulInv(o)
  BY InitiallyGraceful
<1>2. TypeOK /\ LockInv /\ GracefulInv(o) /\ [Next]_vars => GracefulInv(o)'
  <2>1. SUFFICES ASSUME TypeOK, LockInv, GracefulInv(o), [Next]_vars PROVE GracefulInv(o)'
    OBVIOUS
  <2>2. ASSUME NEW t \in Threads, Step(t) PROVE GracefulInv(o)'
    BY <2>1, <2>2, StepKeepsGraceful
  <2>3. ASSUME NEW t \in Threads, SpuriousWakeup(t) PROVE GracefulInv(o)'
    <3>1. UNCHANGED <<status, stack, held, aborted, stream_open, conn, queue, in_stream, out_stream,
                      peer_shut>>
      BY <2>3 DEF SpuriousWakeup, local
    <3>2. QED
      BY <2>1, <3>1, RestIsGraceful DEF Rumour
  <2>4. CASE Environment
    BY <2>1, <2>4, EnvironmentIsGraceful
  <2>5. CASE UNCHANGED vars
    <3>1. UNCHANGED <<status, stack, held, aborted, stream_open, conn, queue, in_stream, out_stream,
                      peer_shut>>
      BY <2>5 DEF vars, env, local
    <3>2. QED
      BY <2>1, <3>1, RestIsGraceful DEF Rumour
  <2>6. QED
    BY <2>1, <2>2, <2>3, <2>4, <2>5 DEF Next, Finished
<1>3. QED
  BY <1>1, <1>2, TypeCorrect, MutexIsExclusive, PTL DEF Spec

\* A transport that one user starts, uses and ends in turn never terminates the process:
\* when a single user sends, shuts the transport down before it closes or destroys it,
\* everyone else only listens, handlers send under the lock they are given, the peer leaves
\* the shutdown to this endpoint and the connection lasts, no flush of a MessageLockOut ever
\* fails (transport_impl.cpp, flush_to_stream) and no exception leaves consumer_loop.  The
\* instance of the run "graceful" is one of these.
THEOREM GracefulUseIsSafe ==
  ASSUME NEW o \in Users, GracefulUse(o)
  PROVE  Spec => []NeverTerminated
<1>1. GracefulInv(o) => NeverTerminated
  BY DEF GracefulInv, NeverTerminated
<1>2. QED
  BY <1>1, UseStaysGraceful, PTL

\* In such use the close of the transport is final: shutdown() finds the status still OPEN when
\* it stores WRITE_CLOSED without looking (TransportImpl::shutdown), so it never brings a
\* closed transport back, and nobody falls into a wait for the queue after the close.
THEOREM GracefulUseStaysClosed ==
  ASSUME NEW o \in Users, GracefulUse(o)
  PROVE  Spec => NoWaitAfterClosed
<1>1. TypeOK /\ LockInv /\ GracefulInv(o) /\ [Next]_vars => [~Reopens]_vars
  <2>1. SUFFICES ASSUME TypeOK, LockInv, GracefulInv(o), Reopens PROVE FALSE
    OBVIOUS
  <2>2. PICK t \in Threads : status = "CLOSED" /\ ShutdownMark(t)
    BY <2>1 DEF Reopens
  <2>3. stack[t] # <<>> /\ Top(t).at = "shutdown_mark"
    BY <2>2 DEF ShutdownMark, At
  <2>4. /\ Top(t) = stack[t][Len(stack[t])] /\ Len(stack[t]) \in 1 .. Len(stack[t])
        /\ Fit(o, t, status, stack[t], held[t])
    BY <2>1, <2>3, RunningFit
  <2>5. status = "OPEN"
    BY <2>3, <2>4 DEF Fit, Live, Speaking
  <2>6. QED
    BY <2>2, <2>5
<1>2. Spec => [][~Reopens]_vars
  BY <1>1, TypeCorrect, MutexIsExclusive, UseStaysGraceful, PTL DEF Spec
<1>3. QED
  BY <1>2, OnlyShutdownReopens, PTL

=============================================================================
