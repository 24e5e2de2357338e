--------------------------- MODULE SwapchainProofs ---------------------------
(***************************************************************************)
(* Proofs about Swapchain, for any number of images, any set of            *)
(* application threads and any bounds.                                     *)
(***************************************************************************)
EXTENDS Swapchain, SequenceTheorems, TLAPS

-----------------------------------------------------------------------------
(* The ring and the queues                                                 *)

\* The next slot of the ring, without a division.
LEMMA SuccProperties ==
  ASSUME NEW h \in Images
  PROVE  /\ Succ(h) = IF h + 1 < N THEN h + 1 ELSE 0
         /\ Succ(h) \in Images
<1>1. CASE h + 1 < N
  BY <1>1, NAssumption DEF Succ, Images
<1>2. CASE h + 1 = N
  BY <1>2, NAssumption DEF Succ, Images
<1>3. QED
  BY <1>1, <1>2, NAssumption DEF Images

\* What is in a nonempty queue, and what an append leaves.
LEMMA QueueProperties ==
  ASSUME NEW S, NEW q \in Seq(S)
  PROVE  /\ q # <<>> => Head(q) \in S /\ Tail(q) \in Seq(S)
         /\ \A x \in S : Append(q, x) \in Seq(S)
<1>1. q # <<>> => Head(q) \in S /\ Tail(q) \in Seq(S)
  BY HeadTailProperties
<1>2. QED
  BY <1>1, AppendProperties

\* The calls in progress that the actions store.
LEMMA CallType ==
  ASSUME NEW i \in Images
  PROVE  /\ \A l \in {"idle", "waiting", "released", "calling"} : Call(l, i) \in AppCalls
         /\ \A l \in {"idle", "fence", "submit", "reply"} : Call(l, i) \in ServerCalls
BY DEF Call, AppCalls, ServerCalls

\* The ring has at least one slot.
LEMMA ZeroIsAnImage == 0 \in Images
BY NAssumption DEF Images

-----------------------------------------------------------------------------
(* Type correctness, one lemma for each group of actions                   *)

\* SwapchainState::acquire keeps the types: the count stays within the ring.
LEMMA AcquireType ==
  ASSUME TypeOK, NEW a \in Apps, Acquire(a)
  PROVE  TypeOK'
<1>1. has_been_acquired' \in [Images -> BOOLEAN]
  BY DEF TypeOK, Acquire
<1>2. client_queue' \in Seq(Batches) /\ acquire_head' \in Images
  <2>1. Batch("acquire", acquire_head, WaitsForCopy(acquire_head)) \in Batches
    BY DEF TypeOK, Batch, Batches, WaitsForCopy
  <2>2. Append(client_queue, Batch("acquire", acquire_head, WaitsForCopy(acquire_head)))
          \in Seq(Batches)
    BY <2>1, QueueProperties DEF TypeOK
  <2>3. QED
    BY <2>2, SuccProperties DEF TypeOK, Acquire
<1>3. num_acquired' \in 0 .. N /\ frames' \in Nat /\ failures' \in Nat
  BY NAssumption DEF TypeOK, Acquire, CanAcquire, Fails
<1>4. QED
  BY <1>1, <1>2, <1>3 DEF TypeOK, Acquire, srv, hist

\* SwapchainState::wait keeps the types.
LEMMA WaitType ==
  ASSUME TypeOK, NEW a \in Apps, WaitStart(a) \/ WaitDone(a) \/ WaitGivesUp(a)
  PROVE  TypeOK'
<1>1. app' \in [Apps -> AppCalls]
  <2>1. Call("waiting", wait_head) \in AppCalls /\ Call("idle", 0) \in AppCalls
    BY CallType, ZeroIsAnImage DEF TypeOK
  <2>2. QED
    BY <2>1 DEF TypeOK, WaitStart, WaitDone, WaitGivesUp, SetApp
<1>2. wait_head' \in Images /\ waited' \in BOOLEAN
  BY SuccProperties DEF TypeOK, WaitStart, WaitDone, WaitGivesUp, ring, hist
<1>3. failures' \in Nat
  BY DEF TypeOK, WaitStart, WaitDone, WaitGivesUp, Fails
<1>4. QED
  BY <1>1, <1>2, <1>3 DEF TypeOK, WaitStart, WaitDone, WaitGivesUp, ring, gpu, srv, hist

\* SwapchainState::release keeps the types: the count does not fall below zero.
LEMMA ReleaseType ==
  ASSUME TypeOK, NEW a \in Apps, Release(a)
  PROVE  TypeOK'
<1>1. fence' \in [Images -> BOOLEAN]
  BY DEF TypeOK, Release
<1>2. client_queue' \in Seq(Batches)
  <2>1. Batch("release", release_head, FALSE) \in Batches
    BY DEF TypeOK, Batch, Batches
  <2>2. Append(client_queue, Batch("release", release_head, FALSE)) \in Seq(Batches)
    BY <2>1, QueueProperties DEF TypeOK
  <2>3. QED
    BY <2>2 DEF TypeOK, Release
<1>3. released' \in Seq(Images) /\ waited' \in BOOLEAN
  <2>1. Append(released, release_head) \in Seq(Images)
    BY QueueProperties DEF TypeOK
  <2>2. released' \in {released, Append(released, release_head)} /\ waited' \in {waited, FALSE}
    BY DEF Release
  <2>3. QED
    BY <2>1, <2>2 DEF TypeOK
<1>4. app' \in [Apps -> AppCalls]
  <2>1. Call("released", release_head) \in AppCalls
    BY CallType DEF TypeOK
  <2>2. QED
    BY <2>1 DEF TypeOK, Release, SetApp
<1>5. release_head' \in Images
  <2>1. release_head' \in {release_head, Succ(release_head)}
    BY DEF Release
  <2>2. QED
    BY <2>1, SuccProperties DEF TypeOK
<1>6. num_acquired' \in 0 .. N /\ failures' \in Nat
  <2>1. num_acquired' \in {num_acquired, num_acquired - 1} /\ num_acquired > 0
    BY DEF Release, CanRelease
  <2>2. failures' \in {failures, failures + 1}
    BY DEF Release, Fails
  <2>3. QED
    BY <2>1, <2>2, NAssumption DEF TypeOK
<1>7. QED
  BY <1>1, <1>2, <1>3, <1>4, <1>5, <1>6 DEF TypeOK, Release, srv

\* The request to the server keeps the types.
LEMMA SendReleaseType ==
  ASSUME TypeOK, NEW a \in Apps, SendRelease(a)
  PROVE  TypeOK'
<1>1. app[a].image \in Images
  BY DEF TypeOK, AppCalls
<1>2. app' \in [Apps -> AppCalls]
  <2>1. Call("calling", app[a].image) \in AppCalls /\ Call("idle", 0) \in AppCalls
    BY <1>1, CallType, ZeroIsAnImage
  <2>2. QED
    BY <2>1 DEF TypeOK, SendRelease, Requested, SetApp
<1>3. request' \in Seq(Images)
  <2>1. Append(request, app[a].image) \in Seq(Images)
    BY <1>1, QueueProperties DEF TypeOK
  <2>2. QED
    BY <2>1 DEF TypeOK, SendRelease, Requested
<1>4. failures' \in Nat
  BY DEF TypeOK, SendRelease, Fails
<1>5. QED
  BY <1>2, <1>3, <1>4 DEF TypeOK, SendRelease, ring, gpu, hist

\* handle_release_swapchain_image keeps the types, whether it answers or throws.
LEMMA ServerType ==
  ASSUME TypeOK, ServerStep \/ ServerThrows
  PROVE  TypeOK'
<1>1. server.image \in Images /\ Call("idle", 0) \in AppCalls /\ Call("idle", 0) \in ServerCalls
  BY CallType, ZeroIsAnImage DEF TypeOK, ServerCalls
<1>2. CASE ServerTake
  <2>1. Head(request) \in Images /\ request' \in Seq(Images)
    BY <1>2, QueueProperties DEF TypeOK, ServerTake
  <2>2. server' \in ServerCalls
    BY <1>2, <2>1, CallType DEF ServerTake
  <2>3. QED
    BY <1>2, <2>1, <2>2 DEF TypeOK, ServerTake, ring, gpu, hist
<1>3. CASE ServerFence
  <2>1. server' \in ServerCalls
    BY <1>1, <1>3, CallType DEF ServerFence
  <2>2. command_buffer_fence' \in [Images -> BOOLEAN]
    BY <1>3 DEF TypeOK, ServerFence
  <2>3. QED
    BY <1>3, <2>1, <2>2 DEF TypeOK, ServerFence, ring, gpu, hist
<1>4. CASE ServerSubmit
  <2>1. server' \in ServerCalls
    BY <1>1, <1>4, CallType DEF ServerSubmit
  <2>2. server_queue' \in Seq(Images) /\ copied' \in Seq(Images)
    BY <1>1, <1>4, QueueProperties DEF TypeOK, ServerSubmit
  <2>3. QED
    BY <1>4, <2>1, <2>2 DEF TypeOK, ServerSubmit, ring
<1>5. CASE ServerReply
  <2>1. app' \in [Apps -> AppCalls]
    BY <1>1, <1>5 DEF TypeOK, ServerReply
  <2>2. QED
    BY <1>1, <1>5, <2>1 DEF TypeOK, ServerReply, ring, gpu, hist
<1>6. CASE ServerThrows
  <2>1. failures' \in Nat
    BY <1>6 DEF TypeOK, ServerThrows, Fails
  <2>2. QED
    BY <1>1, <1>6, <2>1 DEF TypeOK, ServerThrows, ring, gpu, hist
<1>7. QED
  BY <1>2, <1>3, <1>4, <1>5, <1>6 DEF ServerStep

\* A batch of the client's queue keeps the types.
LEMMA ClientGpuType ==
  ASSUME TypeOK, ClientGpu
  PROVE  TypeOK'
<1>1. Head(client_queue).image \in Images /\ client_queue' \in Seq(Batches)
  <2>1. Head(client_queue) \in Batches /\ Tail(client_queue) \in Seq(Batches)
    BY QueueProperties DEF TypeOK, ClientGpu
  <2>2. QED
    BY <2>1 DEF ClientGpu, Batches
<1>2. /\ copying_done' \in [Images -> BOOLEAN] /\ rendering_done' \in [Images -> BOOLEAN]
      /\ fence' \in [Images -> BOOLEAN]
  BY <1>1 DEF TypeOK, ClientGpu
<1>3. phase' \in [Images -> Phases]
  BY <1>1 DEF TypeOK, ClientGpu, Phases
<1>4. QED
  BY <1>1, <1>2, <1>3 DEF TypeOK, ClientGpu, ring, srv, hist

\* A copy of the server's queue keeps the types.
LEMMA ServerGpuType ==
  ASSUME TypeOK, ServerGpu
  PROVE  TypeOK'
<1>1. Head(server_queue) \in Images /\ server_queue' \in Seq(Images)
  BY QueueProperties DEF TypeOK, ServerGpu
<1>2. /\ copying_done' \in [Images -> BOOLEAN] /\ rendering_done' \in [Images -> BOOLEAN]
      /\ command_buffer_fence' \in [Images -> BOOLEAN]
  BY <1>1 DEF TypeOK, ServerGpu
<1>3. phase' \in [Images -> Phases]
  BY <1>1 DEF TypeOK, ServerGpu, Phases
<1>4. QED
  BY <1>1, <1>2, <1>3 DEF TypeOK, ServerGpu, ring, hist

\* Type correctness: in particular the heads stay inside the ring and the count never
\* passes its size nor falls below zero.
THEOREM TypeCorrect == Spec => []TypeOK
<1>1. Init => TypeOK
  <2> SUFFICES ASSUME Init PROVE TypeOK
    OBVIOUS
  <2>1. Call("idle", 0) \in AppCalls /\ Call("idle", 0) \in ServerCalls
    BY CallType, ZeroIsAnImage
  <2>2. /\ client_queue \in Seq(Batches) /\ server_queue \in Seq(Images)
        /\ request \in Seq(Images) /\ released \in Seq(Images) /\ copied \in Seq(Images)
    BY DEF Init
  <2>3. QED
    BY <2>1, <2>2, ZeroIsAnImage, NAssumption DEF Init, TypeOK, Phases
<1>2. TypeOK /\ [Next]_vars => TypeOK'
  <2> SUFFICES ASSUME TypeOK, [Next]_vars PROVE TypeOK'
    OBVIOUS
  <2>1. ASSUME NEW a \in Apps, AppStep(a) PROVE TypeOK'
    BY <2>1, AcquireType, WaitType, ReleaseType, SendReleaseType DEF AppStep
  <2>2. CASE ServerStep \/ ServerThrows
    BY <2>2, ServerType
  <2>3. CASE ClientGpu
    BY <2>3, ClientGpuType
  <2>4. CASE ServerGpu
    BY <2>4, ServerGpuType
  <2>5. CASE Finished \/ UNCHANGED vars
    BY <2>5 DEF Finished, vars, ring, gpu, srv, hist, TypeOK
  <2>6. QED
    BY <2>1, <2>2, <2>3, <2>4, <2>5 DEF Next
<1>3. QED
  BY <1>1, <1>2, PTL DEF Spec

-----------------------------------------------------------------------------
(* The ring                                                                *)

\* The wait that a thread is in is for the oldest acquired image, and the mutex keeps
\* every other call out: what a waiting thread tested is still true when its fence is
\* signaled.
WaitersHold ==
  \A a \in Apps : app[a].at = "waiting" =>
    /\ num_acquired > 0 /\ wait_head = release_head
    /\ \A b \in Apps : app[b].at = "waiting" => b = a

RingInv == HeadsAgree /\ WaitersHold

\* acquire moves the acquire head and the count together, with no thread in wait.
LEMMA AcquireRing ==
  ASSUME TypeOK, RingInv, NEW a \in Apps, Acquire(a)
  PROVE  RingInv'
<1>1. WaitersHold'
  BY DEF Acquire, MutexFree, WaitersHold
<1>2. /\ num_acquired \in 0 .. N /\ num_acquired < N /\ N \in Nat
      /\ acquire_head \in 0 .. N - 1 /\ release_head \in 0 .. N - 1
  BY NAssumption DEF TypeOK, Acquire, CanAcquire, Images
<1>3. Succ(acquire_head) = IF acquire_head + 1 < N THEN acquire_head + 1 ELSE 0
  BY <1>2, SuccProperties DEF Images
<1>4. UNCHANGED <<wait_head, release_head>>
  BY DEF Acquire
<1>5. HeadsAgree'
  <2>1. CASE acquire_head' = Succ(acquire_head) /\ num_acquired' = num_acquired + 1
    <3>1. acquire_head' = IF release_head + num_acquired' < N
                          THEN release_head + num_acquired' ELSE release_head + num_acquired' - N
      BY <1>2, <1>3, <2>1 DEF RingInv, HeadsAgree
    <3>2. num_acquired > 0 => num_acquired' > 0
      BY <1>2, <2>1
    <3>3. QED
      BY <1>4, <3>1, <3>2 DEF RingInv, HeadsAgree
  <2>2. CASE UNCHANGED <<acquire_head, num_acquired>>
    BY <1>4, <2>2 DEF RingInv, HeadsAgree
  <2>3. QED
    BY <2>1, <2>2 DEF Acquire
<1>6. QED
  BY <1>1, <1>5 DEF RingInv

\* wait moves the wait head one slot past the release head, and only then.
LEMMA WaitRing ==
  ASSUME TypeOK, RingInv, NEW a \in Apps, WaitStart(a) \/ WaitDone(a) \/ WaitGivesUp(a)
  PROVE  RingInv'
<1>1. CASE WaitStart(a)
  <2>1. UNCHANGED <<num_acquired, acquire_head, wait_head, release_head>>
    BY <1>1 DEF WaitStart, ring
  <2>2. \A b \in Apps : app'[b].at = "waiting" => b = a
    BY <1>1 DEF WaitStart, SetApp, MutexFree, TypeOK
  <2>3. num_acquired > 0 /\ wait_head = release_head
    BY <1>1 DEF WaitStart, CanWait
  <2>4. QED
    BY <2>1, <2>2, <2>3 DEF RingInv, HeadsAgree, WaitersHold
<1>2. CASE WaitDone(a)
  <2>1. num_acquired > 0 /\ wait_head = release_head
    BY <1>2 DEF WaitDone, RingInv, WaitersHold
  <2>2. \A b \in Apps : app'[b].at # "waiting"
    BY <1>2 DEF WaitDone, SetApp, Call, RingInv, WaitersHold, TypeOK
  <2>3. wait_head' = Succ(wait_head) /\ UNCHANGED <<num_acquired, acquire_head, release_head>>
    BY <1>2 DEF WaitDone
  <2>4. QED
    BY <2>1, <2>2, <2>3 DEF RingInv, HeadsAgree, WaitersHold
<1>3. CASE WaitGivesUp(a)
  <2>1. UNCHANGED <<num_acquired, acquire_head, wait_head, release_head>>
    BY <1>3 DEF WaitGivesUp, ring
  <2>2. \A b \in Apps : app'[b].at # "waiting"
    BY <1>3 DEF WaitGivesUp, SetApp, Call, RingInv, WaitersHold, TypeOK
  <2>3. QED
    BY <2>1, <2>2 DEF RingInv, HeadsAgree, WaitersHold
<1>4. QED
  BY <1>1, <1>2, <1>3

\* release brings the release head to the wait head and takes one image off the ring.
LEMMA ReleaseRing ==
  ASSUME TypeOK, RingInv, NEW a \in Apps, Release(a)
  PROVE  RingInv'
<1>1. WaitersHold'
  <2>1. app' = app \/ app' = [app EXCEPT ![a] = Call("released", release_head)]
    BY DEF Release, SetApp
  <2>2. \A b \in Apps : app[b].at # "waiting"
    BY DEF Release, MutexFree
  <2>3. \A b \in Apps : app'[b].at # "waiting"
    BY <2>1, <2>2 DEF Call, TypeOK
  <2>4. QED
    BY <2>3 DEF WaitersHold
<1>2. /\ num_acquired \in 0 .. N /\ num_acquired > 0 /\ N \in Nat
      /\ acquire_head \in 0 .. N - 1 /\ release_head \in 0 .. N - 1
  BY NAssumption DEF TypeOK, Release, CanRelease, Images
<1>3. Succ(release_head) = IF release_head + 1 < N THEN release_head + 1 ELSE 0
  BY <1>2, SuccProperties DEF Images
<1>4. UNCHANGED <<wait_head, acquire_head>> /\ wait_head = Succ(release_head)
  BY DEF Release, CanRelease
<1>5. HeadsAgree'
  <2>1. CASE release_head' = Succ(release_head) /\ num_acquired' = num_acquired - 1
    <3>1. acquire_head = IF release_head' + num_acquired' < N
                         THEN release_head' + num_acquired' ELSE release_head' + num_acquired' - N
      BY <1>2, <1>3, <2>1 DEF RingInv, HeadsAgree
    <3>2. wait_head' = release_head'
      BY <1>4, <2>1
    <3>3. QED
      BY <1>4, <3>1, <3>2 DEF HeadsAgree
  <2>2. CASE UNCHANGED <<release_head, num_acquired>>
    BY <1>4, <2>2 DEF RingInv, HeadsAgree
  <2>3. QED
    BY <2>1, <2>2 DEF Release
<1>6. QED
  BY <1>1, <1>5 DEF RingInv

\* The steps outside SwapchainState leave the ring alone and start no wait.
LEMMA OtherRing ==
  ASSUME TypeOK, RingInv, UNCHANGED <<num_acquired, acquire_head, wait_head, release_head>>,
         \A b \in Apps : app'[b].at = "waiting" => app[b].at = "waiting"
  PROVE  RingInv'
BY DEF RingInv, HeadsAgree, WaitersHold

\* Every step keeps the ring.
LEMMA RingInvariant == Spec => []RingInv
<1>1. Init => RingInv
  BY NAssumption DEF Init, RingInv, HeadsAgree, WaitersHold, Call
<1>2. TypeOK /\ RingInv /\ [Next]_vars => RingInv'
  <2> SUFFICES ASSUME TypeOK, RingInv, [Next]_vars PROVE RingInv'
    OBVIOUS
  <2>1. ASSUME NEW a \in Apps, AppStep(a) PROVE RingInv'
    <3>1. CASE SendRelease(a)
      <4>1. \/ app' = [app EXCEPT ![a] = Call("calling", app[a].image)]
            \/ app' = [app EXCEPT ![a] = Call("idle", 0)]
        BY <3>1 DEF SendRelease, Requested, SetApp
      <4>2. \A b \in Apps : app'[b].at = "waiting" => app[b].at = "waiting"
        <5>1. Call("calling", app[a].image).at = "calling" /\ Call("idle", 0).at = "idle"
          BY DEF Call
        <5>2. app \in [Apps -> AppCalls]
          BY DEF TypeOK
        <5>3. app'[a].at # "waiting" /\ \A b \in Apps : b # a => app'[b] = app[b]
          BY <2>1, <4>1, <5>1, <5>2
        <5>4. QED
          BY <5>3
      <4>3. UNCHANGED <<num_acquired, acquire_head, wait_head, release_head>>
        BY <3>1 DEF SendRelease, ring
      <4>4. QED
        BY <4>2, <4>3, OtherRing
    <3>2. QED
      BY <2>1, <3>1, AcquireRing, WaitRing, ReleaseRing DEF AppStep
  <2>2. CASE ServerReply
    <3>1. \A b \in Apps : app'[b].at = "waiting" => app[b].at = "waiting"
      BY <2>2 DEF ServerReply, Call
    <3>2. QED
      BY <2>2, <3>1, OtherRing DEF ServerReply, ring
  <2>3. CASE \/ ServerTake \/ ServerFence \/ ServerSubmit \/ ServerThrows \/ ClientGpu
             \/ ServerGpu \/ Finished \/ UNCHANGED vars
    BY <2>3, OtherRing DEF ServerTake, ServerFence, ServerSubmit, ServerThrows, ClientGpu,
      ServerGpu, Finished, vars, ring
  <2>4. QED
    BY <2>1, <2>2, <2>3 DEF Next, ServerStep
<1>3. QED
  BY <1>1, <1>2, TypeCorrect, PTL DEF Spec

\* The three heads and the count describe one ring, for any number of images and any
\* number of threads that acquire, wait and release at the same time, whatever fails.
THEOREM RingIsConsistent == Spec => []HeadsAgree
<1>1. RingInv => HeadsAgree
  BY DEF RingInv
<1>2. QED
  BY <1>1, RingInvariant, PTL

-----------------------------------------------------------------------------
(* The acquired images                                                     *)

\* The slots of the ring between the release head and the acquire head.
Acquired ==
  {i \in Images : \/ release_head <= i /\ i < release_head + num_acquired
                  \/ i + N < release_head + num_acquired}

\* acquire adds the image at the acquire head, which was not acquired.
LEMMA AcquireAdds ==
  ASSUME TypeOK, HeadsAgree, num_acquired < N,
         num_acquired' = num_acquired + 1, release_head' = release_head
  PROVE  acquire_head \notin Acquired /\ Acquired' = Acquired \cup {acquire_head}
<1>1. /\ num_acquired \in Nat /\ N \in Nat \ {0}
      /\ acquire_head \in 0 .. N - 1 /\ release_head \in 0 .. N - 1
      /\ acquire_head = IF release_head + num_acquired < N THEN release_head + num_acquired
                                                           ELSE release_head + num_acquired - N
  BY NAssumption DEF TypeOK, Images, HeadsAgree
<1>2. QED
  BY <1>1 DEF Acquired, Images

\* release takes away the image at the release head, which was acquired.
LEMMA ReleaseTakes ==
  ASSUME TypeOK, HeadsAgree, num_acquired > 0,
         num_acquired' = num_acquired - 1, release_head' = Succ(release_head)
  PROVE  release_head \in Acquired /\ Acquired' = Acquired \ {release_head}
<1>1. /\ num_acquired \in 0 .. N /\ N \in Nat \ {0} /\ release_head \in 0 .. N - 1
      /\ release_head' = IF release_head + 1 < N THEN release_head + 1 ELSE 0
  BY NAssumption, SuccProperties DEF TypeOK, Images
<1>2. release_head \in Acquired
  BY <1>1 DEF Acquired, Images
<1>3. ASSUME NEW i \in Images PROVE i \in Acquired' <=> i \in Acquired /\ i # release_head
  BY <1>1 DEF Acquired, Images
<1>4. QED
  BY <1>2, <1>3 DEF Acquired

-----------------------------------------------------------------------------
(* The batches of the client's queue                                       *)

\* No batch of q from j to k is about image i.
NoneOf(q, i, j, k) == \A m \in j .. k : q[m].image # i

\* The first batch of an image releases it exactly if the client has it, the batches of
\* an image take turns, and the last one acquires it exactly if it is acquired.
First(q, ph) ==
  \A k \in 1 .. Len(q) : NoneOf(q, q[k].image, 1, k - 1) =>
    (q[k].op = "release" <=> ph[q[k].image] = "client")
TakeTurns(q) ==
  \A k \in 1 .. Len(q) : \A l \in k + 1 .. Len(q) :
    q[k].image = q[l].image /\ NoneOf(q, q[k].image, k + 1, l - 1) => q[k].op # q[l].op
Last(q, acq) ==
  \A k \in 1 .. Len(q) : NoneOf(q, q[k].image, k + 1, Len(q)) =>
    (q[k].op = "acquire" <=> q[k].image \in acq)
\* An image without a batch is with the client exactly if it is acquired.
Absent(q, ph, acq) ==
  \A i \in Images : NoneOf(q, i, 1, Len(q)) => (ph[i] = "client" <=> i \in acq)
\* Only the first batch of a fresh image acquires without waiting for a copy.
Fresh(q, ph) ==
  \A k \in 1 .. Len(q) :
    IF q[k].op = "release" THEN ~q[k].waits
    ELSE q[k].waits \/ (ph[q[k].image] = "fresh" /\ NoneOf(q, q[k].image, 1, k - 1))

InTurn(q, ph, acq) ==
  First(q, ph) /\ TakeTurns(q) /\ Last(q, acq) /\ Absent(q, ph, acq) /\ Fresh(q, ph)

\* The batch of an acquire or of a release takes its turn behind the others.
LEMMA SubmitInTurn ==
  ASSUME NEW q \in Seq(Batches), NEW ph, NEW acq, NEW b \in Batches, InTurn(q, ph, acq),
         b.op = "acquire" <=> b.image \notin acq,
         b.op = "release" => ~b.waits,
         b.op = "acquire" /\ ~b.waits =>
           ph[b.image] = "fresh" /\ NoneOf(q, b.image, 1, Len(q)),
         NEW acq2, acq2 = IF b.op = "acquire" THEN acq \cup {b.image} ELSE acq \ {b.image}
  PROVE  InTurn(Append(q, b), ph, acq2)
<1> DEFINE r == Append(q, b)
           n == Len(q)
<1>1. /\ n \in Nat /\ r \in Seq(Batches) /\ Len(r) = n + 1 /\ r[n + 1] = b
      /\ \A k \in 1 .. n : r[k] = q[k]
  BY LenProperties, AppendProperties
<1>2. /\ \A k \in 1 .. n : q[k].op \in {"acquire", "release"} /\ q[k].image \in Images
      /\ b.op \in {"acquire", "release"} /\ b.image \in Images
  <2>1. \A k \in 1 .. n : q[k] \in Batches
    BY ElementOfSeq
  <2>2. QED
    BY <2>1 DEF Batches
<1> HIDE DEF r
<1>3. \A i : \A j \in 1 .. n + 1 : \A k \in 0 .. n : NoneOf(r, i, j, k) <=> NoneOf(q, i, j, k)
  BY <1>1 DEF NoneOf
<1> HIDE DEF n
<1>4. First(r, ph)
  <2> SUFFICES ASSUME NEW k \in 1 .. n + 1, NoneOf(r, r[k].image, 1, k - 1)
               PROVE  r[k].op = "release" <=> ph[r[k].image] = "client"
    BY <1>1 DEF First
  <2>1. NoneOf(q, r[k].image, 1, k - 1)
    BY <1>1, <1>3
  <2>2. CASE k = n + 1
    BY <1>1, <1>2, <2>1, <2>2 DEF InTurn, Absent, n
  <2>3. CASE k \in 1 .. n
    BY <1>1, <2>1, <2>3 DEF InTurn, First, n
  <2>4. QED
    BY <1>1, <2>2, <2>3
<1>5. TakeTurns(r)
  <2> SUFFICES ASSUME NEW k \in 1 .. n + 1, NEW l \in k + 1 .. n + 1, r[k].image = r[l].image,
                      NoneOf(r, r[k].image, k + 1, l - 1)
               PROVE  r[k].op # r[l].op
    BY <1>1 DEF TakeTurns
  <2>1. k \in 1 .. n /\ r[k] = q[k] /\ NoneOf(q, q[k].image, k + 1, l - 1)
    BY <1>1, <1>3
  <2>2. CASE l = n + 1
    <3>1. q[k].op = "acquire" <=> q[k].image \in acq
      BY <1>1, <2>1, <2>2 DEF InTurn, Last, n
    <3>2. QED
      BY <1>1, <1>2, <2>1, <2>2, <3>1
  <2>3. CASE l \in 1 .. n
    BY <1>1, <2>1, <2>3 DEF InTurn, TakeTurns, n
  <2>4. QED
    BY <1>1, <2>2, <2>3
<1>6. Last(r, acq2)
  <2> SUFFICES ASSUME NEW k \in 1 .. n + 1, NoneOf(r, r[k].image, k + 1, n + 1)
               PROVE  r[k].op = "acquire" <=> r[k].image \in acq2
    BY <1>1 DEF Last
  <2>1. CASE k = n + 1
    BY <1>1, <1>2, <2>1
  <2>2. CASE k \in 1 .. n
    <3>1. NoneOf(r, r[k].image, k + 1, n) /\ r[k].image # b.image
      BY <1>1, <2>2 DEF NoneOf
    <3>2. NoneOf(q, q[k].image, k + 1, n) /\ r[k] = q[k]
      BY <1>1, <1>3, <2>2, <3>1
    <3>3. q[k].op = "acquire" <=> q[k].image \in acq
      BY <2>2, <3>2 DEF InTurn, Last, n
    <3>4. QED
      BY <3>1, <3>2, <3>3
  <2>3. QED
    BY <1>1, <2>1, <2>2
<1>7. Absent(r, ph, acq2)
  <2> SUFFICES ASSUME NEW i \in Images, NoneOf(r, i, 1, n + 1)
               PROVE  ph[i] = "client" <=> i \in acq2
    BY <1>1 DEF Absent
  <2>1. NoneOf(q, i, 1, n) /\ i # b.image
    BY <1>1 DEF NoneOf
  <2>2. QED
    BY <2>1 DEF InTurn, Absent, n
<1>8. Fresh(r, ph)
  <2> SUFFICES ASSUME NEW k \in 1 .. n + 1
               PROVE  IF r[k].op = "release" THEN ~r[k].waits
                      ELSE r[k].waits \/ (ph[r[k].image] = "fresh" /\ NoneOf(r, r[k].image, 1, k - 1))
    BY <1>1 DEF Fresh
  <2>1. NoneOf(r, r[k].image, 1, k - 1) <=> NoneOf(q, r[k].image, 1, k - 1)
    BY <1>1, <1>3
  <2>2. CASE k = n + 1
    BY <1>1, <1>2, <2>1, <2>2 DEF n
  <2>3. CASE k \in 1 .. n
    BY <1>1, <2>1, <2>3 DEF InTurn, Fresh, n
  <2>4. QED
    BY <1>1, <2>2, <2>3
<1>9. QED
  BY <1>4, <1>5, <1>6, <1>7, <1>8 DEF InTurn, r

\* When the GPU has run the first batch, the others are still in turn.
LEMMA RunInTurn ==
  ASSUME NEW q \in Seq(Batches), q # <<>>, NEW ph \in [Images -> Phases], NEW acq,
         InTurn(q, ph, acq),
         NEW ph2, ph2 = [ph EXCEPT ![Head(q).image] =
                           IF Head(q).op = "acquire" THEN "client" ELSE "released"]
  PROVE  InTurn(Tail(q), ph2, acq)
<1> DEFINE r == Tail(q)
           n == Len(q)
           b == q[1]
<1>1. /\ n \in Nat \ {0} /\ r \in Seq(Batches) /\ Len(r) = n - 1
      /\ \A k \in 1 .. n - 1 : r[k] = q[k + 1]
  BY HeadTailProperties, EmptySeq, LenProperties
<1>2. /\ \A k \in 1 .. n : q[k].op \in {"acquire", "release"} /\ q[k].image \in Images
      /\ b.op \in {"acquire", "release"} /\ b.image \in Images
  <2>1. \A k \in 1 .. n : q[k] \in Batches
    BY ElementOfSeq
  <2>2. QED
    BY <1>1, <2>1 DEF Batches
<1>3. /\ ph2[b.image] = IF b.op = "acquire" THEN "client" ELSE "released"
      /\ \A i \in Images : i # b.image => ph2[i] = ph[i]
  BY <1>1, <1>2
<1> HIDE DEF r
<1>4. \A i : \A j \in 1 .. n : \A k \in 0 .. n - 1 :
        NoneOf(r, i, j, k) <=> NoneOf(q, i, j + 1, k + 1)
  <2> SUFFICES ASSUME NEW i, NEW j \in 1 .. n, NEW k \in 0 .. n - 1
               PROVE  NoneOf(r, i, j, k) <=> NoneOf(q, i, j + 1, k + 1)
    OBVIOUS
  <2>1. ASSUME NoneOf(r, i, j, k), NEW m \in j + 1 .. k + 1 PROVE q[m].image # i
    <3>1. m - 1 \in j .. k /\ m - 1 \in 1 .. n - 1 /\ m - 1 + 1 = m
      BY <1>1
    <3>2. r[m - 1] = q[m]
      BY <1>1, <3>1
    <3>3. QED
      BY <2>1, <3>1, <3>2 DEF NoneOf
  <2>2. ASSUME NoneOf(q, i, j + 1, k + 1), NEW m \in j .. k PROVE r[m].image # i
    <3>1. m + 1 \in j + 1 .. k + 1 /\ m \in 1 .. n - 1
      BY <1>1
    <3>2. r[m] = q[m + 1]
      BY <1>1, <3>1
    <3>3. QED
      BY <2>2, <3>1, <3>2 DEF NoneOf
  <2>3. QED
    BY <2>1, <2>2 DEF NoneOf
<1>5. \A i : \A k \in 1 .. n : i # b.image /\ NoneOf(q, i, 2, k) => NoneOf(q, i, 1, k)
  <2> SUFFICES ASSUME NEW i, NEW k \in 1 .. n, i # b.image, NoneOf(q, i, 2, k),
                      NEW m \in 1 .. k
               PROVE  q[m].image # i
    BY DEF NoneOf
  <2>1. m = 1 \/ m \in 2 .. k
    BY <1>1
  <2>2. QED
    BY <2>1 DEF NoneOf
<1>6. TakeTurns(q) /\ First(q, ph) /\ Last(q, acq) /\ Absent(q, ph, acq) /\ Fresh(q, ph)
  BY DEF InTurn
<1> HIDE DEF n, b
<1>7. First(r, ph2)
  <2> SUFFICES ASSUME NEW k \in 1 .. n - 1, NoneOf(r, r[k].image, 1, k - 1)
               PROVE  r[k].op = "release" <=> ph2[r[k].image] = "client"
    BY <1>1 DEF First
  <2>1. /\ k + 1 \in 1 .. n /\ k - 1 + 1 = k /\ r[k] = q[k + 1] /\ k + 1 - 1 = k
        /\ k - 1 \in 0 .. n - 1 /\ 1 \in 1 .. n /\ k + 1 \in 1 + 1 .. n /\ k \in 1 .. n
    BY <1>1
  <2>2. NoneOf(q, q[k + 1].image, 2, k)
    BY <1>4, <2>1
  <2>3. CASE q[k + 1].image = b.image
    <3>1. q[1].op # q[k + 1].op
      BY <1>6, <2>1, <2>2, <2>3 DEF TakeTurns, n, b
    <3>2. QED
      BY <1>2, <1>3, <2>1, <2>3, <3>1 DEF b
  <2>4. CASE q[k + 1].image # b.image
    <3>1. NoneOf(q, q[k + 1].image, 1, k)
      BY <1>5, <2>1, <2>2, <2>4
    <3>2. q[k + 1].op = "release" <=> ph[q[k + 1].image] = "client"
      BY <1>6, <2>1, <3>1 DEF First, n
    <3>3. QED
      BY <1>2, <1>3, <2>1, <2>4, <3>2
  <2>5. QED
    BY <2>3, <2>4
<1>8. TakeTurns(r)
  <2> SUFFICES ASSUME NEW k \in 1 .. n - 1, NEW l \in k + 1 .. n - 1, r[k].image = r[l].image,
                      NoneOf(r, r[k].image, k + 1, l - 1)
               PROVE  r[k].op # r[l].op
    BY <1>1 DEF TakeTurns
  <2>1. /\ k + 1 \in 1 .. n /\ l + 1 \in k + 1 + 1 .. n /\ r[k] = q[k + 1] /\ r[l] = q[l + 1]
        /\ l - 1 \in 0 .. n - 1 /\ l - 1 + 1 = l + 1 - 1
    BY <1>1
  <2>2. NoneOf(q, q[k + 1].image, k + 1 + 1, l + 1 - 1)
    BY <1>4, <2>1
  <2>3. QED
    BY <1>6, <2>1, <2>2 DEF TakeTurns, n
<1>9. Last(r, acq)
  <2> SUFFICES ASSUME NEW k \in 1 .. n - 1, NoneOf(r, r[k].image, k + 1, n - 1)
               PROVE  r[k].op = "acquire" <=> r[k].image \in acq
    BY <1>1 DEF Last
  <2>1. /\ k + 1 \in 1 .. n /\ r[k] = q[k + 1] /\ n - 1 \in 0 .. n - 1 /\ n - 1 + 1 = n
    BY <1>1
  <2>2. NoneOf(q, q[k + 1].image, k + 1 + 1, n)
    BY <1>4, <2>1
  <2>3. QED
    BY <1>6, <2>1, <2>2 DEF Last, n
<1>10. Absent(r, ph2, acq)
  <2> SUFFICES ASSUME NEW i \in Images, NoneOf(r, i, 1, n - 1)
               PROVE  ph2[i] = "client" <=> i \in acq
    BY <1>1 DEF Absent
  <2>1. NoneOf(q, i, 2, n) /\ n \in 1 .. n /\ 1 \in 1 .. n
    <3>1. n - 1 \in 0 .. n - 1 /\ n - 1 + 1 = n /\ 1 \in 1 .. n /\ n \in 1 .. n
      BY <1>1
    <3>2. QED
      BY <1>4, <3>1
  <2>2. CASE i = b.image
    <3>1. b.op = "acquire" <=> i \in acq
      BY <1>6, <2>1, <2>2 DEF Last, n, b
    <3>2. QED
      BY <1>2, <1>3, <2>2, <3>1
  <2>3. CASE i # b.image
    <3>1. NoneOf(q, i, 1, n)
      BY <1>5, <2>1, <2>3
    <3>2. QED
      BY <1>3, <1>6, <2>3, <3>1 DEF Absent, n
  <2>4. QED
    BY <2>2, <2>3
<1>11. Fresh(r, ph2)
  <2> SUFFICES ASSUME NEW k \in 1 .. n - 1
               PROVE  IF r[k].op = "release" THEN ~r[k].waits
                      ELSE r[k].waits \/ (ph2[r[k].image] = "fresh" /\ NoneOf(r, r[k].image, 1, k - 1))
    BY <1>1 DEF Fresh
  <2>1. /\ k + 1 \in 1 .. n /\ k - 1 + 1 = k /\ r[k] = q[k + 1] /\ k + 1 - 1 = k
        /\ k - 1 \in 0 .. n - 1 /\ 1 \in 1 .. n /\ 1 \in 1 .. k
    BY <1>1
  <2>2. CASE q[k + 1].op = "release" \/ q[k + 1].waits
    BY <1>6, <2>1, <2>2 DEF Fresh, n
  <2>3. CASE q[k + 1].op # "release" /\ ~q[k + 1].waits
    <3>1. ph[q[k + 1].image] = "fresh" /\ NoneOf(q, q[k + 1].image, 1, k)
      BY <1>6, <2>1, <2>3 DEF Fresh, n
    <3>2. q[k + 1].image # b.image
      BY <2>1, <3>1 DEF NoneOf, b
    <3>3. ph2[q[k + 1].image] = "fresh"
      BY <1>2, <1>3, <2>1, <3>1, <3>2
    <3>4. NoneOf(q, q[k + 1].image, 1 + 1, k)
      BY <2>1, <3>1 DEF NoneOf
    <3>5. NoneOf(r, q[k + 1].image, 1, k - 1)
      BY <1>4, <2>1, <3>4
    <3>6. QED
      BY <2>1, <2>3, <3>3, <3>5
  <2>4. QED
    BY <2>2, <2>3
<1>12. QED
  BY <1>7, <1>8, <1>9, <1>10, <1>11 DEF InTurn, r

-----------------------------------------------------------------------------
(* The GPUs                                                                *)

\* Besides the turns of the batches: an image that acquire has not marked yet is fresh
\* and has no batch, so that its first batch need not wait.
Unmarked(q, ph, marked) ==
  \A i \in Images : ~marked[i] => ph[i] = "fresh" /\ NoneOf(q, i, 1, Len(q))

GpuInv ==
  /\ SemaphoresFollowUse
  /\ InTurn(client_queue, phase, Acquired)
  /\ Unmarked(client_queue, phase, has_been_acquired)

\* A step that leaves the GPUs and the acquired images alone.
LEMMA OtherGpu ==
  ASSUME GpuInv, UNCHANGED <<client_queue, rendering_done, copying_done, phase,
                             num_acquired, release_head, has_been_acquired>>
  PROVE  GpuInv'
<1>1. Acquired' = Acquired
  BY DEF Acquired
<1>2. InTurn(client_queue, phase, Acquired)'
  BY <1>1 DEF GpuInv
<1>3. QED
  BY <1>2 DEF GpuInv, SemaphoresFollowUse, Unmarked

\* acquire submits a batch that waits unless the image is fresh, even after an earlier
\* acquire of the image that marked it and then failed.
LEMMA AcquireGpu ==
  ASSUME TypeOK, HeadsAgree, GpuInv, NEW a \in Apps, Acquire(a)
  PROVE  GpuInv'
<1> DEFINE i == acquire_head
           b == Batch("acquire", i, has_been_acquired[i])
<1>1. i \in Images /\ has_been_acquired \in [Images -> BOOLEAN] /\ client_queue \in Seq(Batches)
  BY DEF TypeOK
<1>2. /\ has_been_acquired' = [has_been_acquired EXCEPT ![i] = TRUE]
      /\ UNCHANGED <<rendering_done, copying_done, phase, release_head>>
  BY DEF Acquire
<1>3. SemaphoresFollowUse'
  BY <1>2 DEF GpuInv, SemaphoresFollowUse
<1>4. \A j \in Images : ~has_been_acquired'[j] => ~has_been_acquired[j] /\ j # i
  BY <1>1, <1>2
<1>5. CASE /\ client_queue' = Append(client_queue, b)
           /\ num_acquired' = num_acquired + 1
  <2>1. b \in Batches /\ b.op = "acquire" /\ b.image = i /\ b.waits = has_been_acquired[i]
    BY <1>1 DEF Batch, Batches
  <2> HIDE DEF b
  <2>2. i \notin Acquired /\ Acquired' = Acquired \cup {i}
    BY <1>2, <1>5, AcquireAdds DEF Acquire, CanAcquire
  <2>3. ~b.waits => phase[i] = "fresh" /\ NoneOf(client_queue, i, 1, Len(client_queue))
    BY <1>1, <2>1 DEF GpuInv, Unmarked
  <2>4. InTurn(client_queue', phase, Acquired')
    BY <1>1, <1>5, <2>1, <2>2, <2>3, SubmitInTurn DEF GpuInv
  <2>5. /\ Len(client_queue') = Len(client_queue) + 1 /\ Len(client_queue) \in Nat
        /\ client_queue'[Len(client_queue) + 1] = b
        /\ \A k \in 1 .. Len(client_queue) : client_queue'[k] = client_queue[k]
    BY <1>1, <1>5, <2>1, AppendProperties, LenProperties
  <2>6. ASSUME NEW j \in Images, ~has_been_acquired'[j]
        PROVE  phase[j] = "fresh" /\ NoneOf(client_queue', j, 1, Len(client_queue'))
    <3>1. phase[j] = "fresh" /\ NoneOf(client_queue, j, 1, Len(client_queue)) /\ j # i
      BY <1>4, <2>6 DEF GpuInv, Unmarked
    <3>2. ASSUME NEW m \in 1 .. Len(client_queue') PROVE client_queue'[m].image # j
      <4>1. m \in 1 .. Len(client_queue) \/ m = Len(client_queue) + 1
        BY <2>5
      <4>2. QED
        BY <2>1, <2>5, <3>1, <4>1 DEF NoneOf
    <3>3. QED
      BY <3>1, <3>2 DEF NoneOf
  <2>7. QED
    BY <1>2, <1>3, <2>4, <2>6 DEF GpuInv, Unmarked
<1>6. CASE UNCHANGED <<client_queue, num_acquired>>
  <2>1. Acquired' = Acquired
    BY <1>2, <1>6 DEF Acquired
  <2>2. InTurn(client_queue, phase, Acquired)'
    BY <1>2, <1>6, <2>1 DEF GpuInv
  <2>3. QED
    BY <1>2, <1>3, <1>4, <1>6, <2>2 DEF GpuInv, Unmarked
<1>7. QED
  BY <1>5, <1>6 DEF Acquire, WaitsForCopy

\* release submits its batch for an image that is acquired.
LEMMA ReleaseGpu ==
  ASSUME TypeOK, HeadsAgree, GpuInv, NEW a \in Apps, Release(a)
  PROVE  GpuInv'
<1> DEFINE i == release_head
           b == Batch("release", i, FALSE)
<1>1. i \in Images /\ client_queue \in Seq(Batches)
  BY DEF TypeOK
<1>2. UNCHANGED <<rendering_done, copying_done, phase, has_been_acquired>>
  BY DEF Release
<1>3. CASE /\ client_queue' = Append(client_queue, b) /\ release_head' = Succ(i)
           /\ num_acquired' = num_acquired - 1
  <2>1. b \in Batches /\ b.op = "release" /\ b.image = i /\ b.waits = FALSE
    BY <1>1 DEF Batch, Batches
  <2> HIDE DEF b
  <2>2. i \in Acquired /\ Acquired' = Acquired \ {i}
    BY <1>3, ReleaseTakes DEF Release, CanRelease
  <2>3. InTurn(client_queue', phase, Acquired')
    BY <1>1, <1>3, <2>1, <2>2, SubmitInTurn DEF GpuInv
  <2>4. /\ Len(client_queue') = Len(client_queue) + 1 /\ Len(client_queue) \in Nat
        /\ client_queue'[Len(client_queue) + 1] = b
        /\ \A k \in 1 .. Len(client_queue) : client_queue'[k] = client_queue[k]
    BY <1>1, <1>3, <2>1, AppendProperties, LenProperties
  <2>5. has_been_acquired[i]
    \* An unmarked image is fresh and has no batch: it is not acquired.
    BY <1>1, <2>2 DEF GpuInv, Unmarked, InTurn, Absent
  <2>6. ASSUME NEW j \in Images, ~has_been_acquired[j]
        PROVE  phase[j] = "fresh" /\ NoneOf(client_queue', j, 1, Len(client_queue'))
    <3>1. phase[j] = "fresh" /\ NoneOf(client_queue, j, 1, Len(client_queue)) /\ j # i
      BY <2>5, <2>6 DEF GpuInv, Unmarked
    <3>2. ASSUME NEW m \in 1 .. Len(client_queue') PROVE client_queue'[m].image # j
      <4>1. m \in 1 .. Len(client_queue) \/ m = Len(client_queue) + 1
        BY <2>4
      <4>2. QED
        BY <2>1, <2>4, <3>1, <4>1 DEF NoneOf
    <3>3. QED
      BY <3>1, <3>2 DEF NoneOf
  <2>7. QED
    BY <1>2, <2>3, <2>6 DEF GpuInv, Unmarked, SemaphoresFollowUse
<1>4. CASE UNCHANGED <<client_queue, release_head, num_acquired>>
  BY <1>2, <1>4, OtherGpu
<1>5. QED
  BY <1>3, <1>4 DEF Release

\* The client's GPU: the batch at the head of the queue finds its image where its turn
\* expects it.
LEMMA ClientGpuTurns ==
  ASSUME TypeOK, GpuInv, ClientGpu
  PROVE  /\ GpuInv'
         /\ phase'[Head(client_queue).image] # phase[Head(client_queue).image] =>
              <<phase[Head(client_queue).image], phase'[Head(client_queue).image]>> \in
                {<<"fresh", "client">>, <<"client", "released">>, <<"copied", "client">>}
         /\ \A j \in Images : j # Head(client_queue).image => phase'[j] = phase[j]
<1>1. PICK q \in Seq(Batches) : q = client_queue
  BY DEF TypeOK
<1>2. PICK b : b = Head(q)
  OBVIOUS
<1>3. q # <<>> /\ b \in Batches /\ b = q[1] /\ Len(q) \in Nat \ {0} /\ client_queue' = Tail(q)
  BY <1>1, <1>2, HeadTailProperties, EmptySeq, LenProperties DEF ClientGpu
<1>4. b.op \in {"acquire", "release"} /\ b.image \in Images /\ b.waits \in BOOLEAN
  BY <1>3 DEF Batches
<1>5. /\ b.waits => copying_done[b.image]
      /\ phase' = [phase EXCEPT ![b.image] = IF b.op = "acquire" THEN "client" ELSE "released"]
      /\ UNCHANGED <<num_acquired, release_head, has_been_acquired>>
  BY <1>1, <1>2, <1>4 DEF ClientGpu, ring
<1>6. /\ b.op = "acquire" => /\ copying_done' = IF b.waits THEN [copying_done EXCEPT ![b.image] = FALSE]
                                                           ELSE copying_done
                             /\ rendering_done' = rendering_done
      /\ b.op = "release" => /\ copying_done' = copying_done
                             /\ rendering_done' = [rendering_done EXCEPT ![b.image] = TRUE]
  BY <1>1, <1>2 DEF ClientGpu
<1>7. /\ phase \in [Images -> Phases] /\ copying_done \in [Images -> BOOLEAN]
      /\ rendering_done \in [Images -> BOOLEAN]
  BY DEF TypeOK
<1>8. NoneOf(q, b.image, 1, 0) /\ 1 \in 1 .. Len(q) /\ 1 - 1 = 0
  BY <1>3 DEF NoneOf
\* A release finds the image with the client; an acquire finds it fresh or copied.
<1>9. /\ b.op = "release" <=> phase[b.image] = "client"
      /\ b.op = "release" => ~b.waits
      /\ b.op = "acquire" => b.waits \/ phase[b.image] = "fresh"
  BY <1>1, <1>3, <1>4, <1>8 DEF GpuInv, InTurn, First, Fresh
<1>10. b.op = "acquire" => phase[b.image] = IF b.waits THEN "copied" ELSE "fresh"
  BY <1>4, <1>5, <1>9 DEF GpuInv, SemaphoresFollowUse
<1>11. /\ phase'[b.image] = IF b.op = "acquire" THEN "client" ELSE "released"
       /\ \A j \in Images : j # b.image => phase'[j] = phase[j]
  BY <1>4, <1>5, <1>7
<1>12. SemaphoresFollowUse'
  <2> SUFFICES ASSUME NEW j \in Images
               PROVE  /\ rendering_done'[j] <=> phase'[j] = "released"
                      /\ copying_done'[j] <=> phase'[j] = "copied"
    BY DEF SemaphoresFollowUse
  <2>1. /\ rendering_done[j] <=> phase[j] = "released"
        /\ copying_done[j] <=> phase[j] = "copied"
    BY DEF GpuInv, SemaphoresFollowUse
  <2>2. CASE j # b.image
    BY <1>4, <1>6, <1>7, <1>11, <2>1, <2>2
  <2>3. CASE j = b.image
    BY <1>4, <1>6, <1>7, <1>9, <1>10, <1>11, <2>1, <2>3
  <2>4. QED
    BY <2>2, <2>3
<1>13. InTurn(client_queue', phase', Acquired')
  <2>1. Acquired' = Acquired
    BY <1>5 DEF Acquired
  <2>2. InTurn(Tail(q), phase', Acquired)
    BY <1>1, <1>2, <1>3, <1>5, <1>7, RunInTurn DEF GpuInv
  <2>3. QED
    BY <1>3, <2>1, <2>2
<1>14. Unmarked(client_queue', phase', has_been_acquired')
  <2> SUFFICES ASSUME NEW j \in Images, ~has_been_acquired[j]
               PROVE  phase'[j] = "fresh" /\ NoneOf(client_queue', j, 1, Len(client_queue'))
    BY <1>5 DEF Unmarked
  <2>1. phase[j] = "fresh" /\ NoneOf(q, j, 1, Len(q))
    BY <1>1 DEF GpuInv, Unmarked
  <2>2. j # b.image
    BY <1>3, <1>8, <2>1 DEF NoneOf
  <2>3. Len(client_queue') = Len(q) - 1 /\ \A m \in 1 .. Len(q) - 1 : client_queue'[m] = q[m + 1]
    BY <1>3, HeadTailProperties
  <2>4. NoneOf(client_queue', j, 1, Len(client_queue'))
    BY <1>3, <2>1, <2>3 DEF NoneOf
  <2>5. QED
    BY <1>11, <2>1, <2>2, <2>4
<1>15. GpuInv'
  BY <1>12, <1>13, <1>14 DEF GpuInv
<1>16. QED
  BY <1>1, <1>2, <1>4, <1>9, <1>10, <1>11, <1>15

\* The server's GPU: a copy takes the image from released to copied.
LEMMA ServerGpuTurns ==
  ASSUME TypeOK, GpuInv, ServerGpu
  PROVE  /\ GpuInv'
         /\ phase[Head(server_queue)] = "released" /\ phase'[Head(server_queue)] = "copied"
         /\ \A j \in Images : j # Head(server_queue) => phase'[j] = phase[j]
<1>1. PICK i \in Images : i = Head(server_queue)
  BY QueueProperties DEF TypeOK, ServerGpu
<1>2. /\ rendering_done[i]
      /\ rendering_done' = [rendering_done EXCEPT ![i] = FALSE]
      /\ copying_done' = [copying_done EXCEPT ![i] = TRUE]
      /\ phase' = [phase EXCEPT ![i] = "copied"]
      /\ UNCHANGED <<num_acquired, release_head, has_been_acquired, client_queue>>
  BY <1>1 DEF ServerGpu, ring
<1>3. /\ phase \in [Images -> Phases] /\ copying_done \in [Images -> BOOLEAN]
      /\ rendering_done \in [Images -> BOOLEAN] /\ client_queue \in Seq(Batches)
  BY DEF TypeOK
<1>4. phase[i] = "released"
  BY <1>2 DEF GpuInv, SemaphoresFollowUse
<1>5. phase'[i] = "copied" /\ \A j \in Images : j # i => phase'[j] = phase[j]
  BY <1>2, <1>3
<1>6. SemaphoresFollowUse'
  <2> SUFFICES ASSUME NEW j \in Images
               PROVE  /\ rendering_done'[j] <=> phase'[j] = "released"
                      /\ copying_done'[j] <=> phase'[j] = "copied"
    BY DEF SemaphoresFollowUse
  <2>1. /\ rendering_done[j] <=> phase[j] = "released"
        /\ copying_done[j] <=> phase[j] = "copied"
    BY DEF GpuInv, SemaphoresFollowUse
  <2>2. QED
    BY <1>2, <1>3, <1>5, <2>1
<1>7. \A j \in Images : /\ phase'[j] = "client" <=> phase[j] = "client"
                        /\ phase'[j] = "fresh" <=> phase[j] = "fresh"
  BY <1>4, <1>5
<1>8. Acquired' = Acquired
  BY <1>2 DEF Acquired
<1>9. \A k \in 1 .. Len(client_queue) : client_queue[k].image \in Images
  <2>1. \A k \in 1 .. Len(client_queue) : client_queue[k] \in Batches
    BY <1>3, ElementOfSeq
  <2>2. QED
    BY <2>1 DEF Batches
<1>10. InTurn(client_queue, phase', Acquired)
  <2>1. First(client_queue, phase')
    BY <1>7, <1>9 DEF GpuInv, InTurn, First
  <2>2. Fresh(client_queue, phase')
    BY <1>7, <1>9 DEF GpuInv, InTurn, Fresh
  <2>3. QED
    BY <1>7, <2>1, <2>2 DEF GpuInv, InTurn, Absent
<1>11. Unmarked(client_queue, phase', has_been_acquired)
  BY <1>7 DEF GpuInv, Unmarked
<1>12. GpuInv'
  BY <1>2, <1>6, <1>8, <1>10, <1>11 DEF GpuInv
<1>13. QED
  BY <1>1, <1>4, <1>5, <1>12

\* Every step keeps the invariant of the GPUs.
LEMMA GpuStep ==
  ASSUME TypeOK, RingInv, GpuInv, [Next]_vars
  PROVE  GpuInv'
<1>1. HeadsAgree
  BY DEF RingInv
<1>2. ASSUME NEW a \in Apps, AppStep(a) PROVE GpuInv'
  <2>1. CASE WaitStart(a) \/ WaitDone(a) \/ WaitGivesUp(a) \/ SendRelease(a)
    BY <2>1, OtherGpu DEF WaitStart, WaitDone, WaitGivesUp, SendRelease, ring, gpu
  <2>2. QED
    BY <1>1, <1>2, <2>1, AcquireGpu, ReleaseGpu DEF AppStep
<1>3. CASE ServerStep \/ ServerThrows \/ Finished \/ UNCHANGED vars
  BY <1>3, OtherGpu DEF ServerStep, ServerTake, ServerFence, ServerSubmit, ServerReply,
    ServerThrows, Finished, vars, ring, gpu
<1>4. QED
  BY <1>2, <1>3, ClientGpuTurns, ServerGpuTurns DEF Next

\* The ring and the GPUs, together.
LEMMA GpuInvariant == Spec => [](TypeOK /\ RingInv /\ GpuInv)
<1>1. Init => GpuInv
  <2> SUFFICES ASSUME Init PROVE GpuInv
    OBVIOUS
  <2>1. client_queue = <<>> /\ Len(client_queue) = 0 /\ Acquired = {}
    BY NAssumption DEF Init, Acquired, Images
  <2>2. /\ \A i \in Images : ~rendering_done[i] /\ ~copying_done[i] /\ phase[i] = "fresh"
        /\ \A i \in Images : NoneOf(client_queue, i, 1, Len(client_queue))
    BY <2>1 DEF Init, NoneOf
  <2>3. InTurn(client_queue, phase, Acquired)
    BY <2>1, <2>2 DEF InTurn, First, TakeTurns, Last, Absent, Fresh
  <2>4. QED
    BY <2>2, <2>3 DEF GpuInv, SemaphoresFollowUse, Unmarked
<1>2. QED
  BY <1>1, GpuStep, RingInvariant, TypeCorrect, PTL DEF Spec

\* A binary semaphore is signaled exactly while the batch that waits for it is due: none
\* is ever signaled twice, for any number of images and threads, whatever fails.
THEOREM SemaphoresAreSound == Spec => []SemaphoresFollowUse
<1>1. GpuInv => SemaphoresFollowUse
  BY DEF GpuInv
<1>2. QED
  BY <1>1, GpuInvariant, PTL

\* The GPUs use each image in turns: no image is rendered to before its last copy is
\* done nor copied before its rendering is, whatever fails.
THEOREM TurnsAreKept == Spec => ImagesAlternate
<1> DEFINE Turn(i) == phase'[i] # phase[i] =>
             <<phase[i], phase'[i]>> \in {<<"fresh", "client">>, <<"client", "released">>,
                                          <<"released", "copied">>, <<"copied", "client">>}
<1>1. TypeOK /\ GpuInv /\ [Next]_vars => [\A i \in Images : Turn(i)]_vars
  <2> SUFFICES ASSUME TypeOK, GpuInv, Next, NEW i \in Images PROVE Turn(i)
    OBVIOUS
  <2>1. CASE ClientGpu
    BY <2>1, ClientGpuTurns
  <2>2. CASE ServerGpu
    BY <2>2, ServerGpuTurns
  <2>3. CASE (\E a \in Apps : AppStep(a)) \/ ServerStep \/ ServerThrows \/ Finished
    <3>1. phase' = phase
      BY <2>3 DEF AppStep, Acquire, WaitStart, WaitDone, WaitGivesUp, Release, SendRelease,
        ServerStep, ServerTake, ServerFence, ServerSubmit, ServerReply, ServerThrows,
        Finished, vars, gpu
    <3>2. QED
      BY <3>1
  <2>4. QED
    BY <2>1, <2>2, <2>3 DEF Next
<1>2. QED
  BY <1>1, GpuInvariant, PTL DEF Spec, ImagesAlternate

-----------------------------------------------------------------------------
(* Waits and releases                                                      *)

\* While the wait head is ahead of the release head, the oldest image has been waited for.
AheadIsWaited == wait_head # release_head => waited

\* With two images or more, an image is released only after a wait for it.  With one
\* image both heads are always equal, and release cannot tell whether there was a wait.
THEOREM ReleaseFollowsWait ==
  ASSUME N > 1
  PROVE  Spec => WaitsBeforeRelease
<1>1. Init => AheadIsWaited
  BY DEF Init, AheadIsWaited
<1>2. TypeOK /\ AheadIsWaited /\ [Next]_vars =>
        AheadIsWaited' /\ [released' # released => waited]_vars
  <2> SUFFICES ASSUME TypeOK, AheadIsWaited, [Next]_vars
               PROVE  AheadIsWaited' /\ (released' # released => waited)
    OBVIOUS
  <2>1. ASSUME NEW a \in Apps, Release(a)
        PROVE  AheadIsWaited' /\ (released' # released => waited)
    <3>1. Succ(release_head) # release_head
      <4>1. release_head \in Images
        BY DEF TypeOK
      <4>2. Succ(release_head) = IF release_head + 1 < N THEN release_head + 1 ELSE 0
        BY <4>1, SuccProperties
      <4>3. QED
        BY <4>1, <4>2, NAssumption DEF Images
    <3>2. wait_head = Succ(release_head) /\ wait_head' = wait_head
      BY <2>1 DEF Release, CanRelease
    <3>3. waited
      BY <3>1, <3>2 DEF AheadIsWaited
    <3>4. CASE release_head' = Succ(release_head)
      BY <3>2, <3>3, <3>4 DEF AheadIsWaited
    <3>5. CASE UNCHANGED <<release_head, waited>>
      BY <3>2, <3>3, <3>5 DEF AheadIsWaited
    <3>6. QED
      BY <2>1, <3>4, <3>5 DEF Release
  <2>2. ASSUME NEW a \in Apps, WaitDone(a)
        PROVE  AheadIsWaited' /\ (released' # released => waited)
    BY <2>2 DEF WaitDone, AheadIsWaited
  <2>3. CASE \/ \E a \in Apps : Acquire(a) \/ WaitStart(a) \/ WaitGivesUp(a) \/ SendRelease(a)
             \/ ServerStep \/ ServerThrows \/ ClientGpu \/ ServerGpu \/ Finished \/ UNCHANGED vars
    <3>1. UNCHANGED <<wait_head, release_head, waited, released>>
      BY <2>3 DEF Acquire, WaitStart, WaitGivesUp, SendRelease, ServerStep, ServerTake,
        ServerFence, ServerSubmit, ServerReply, ServerThrows, ClientGpu, ServerGpu, Finished,
        vars, ring, hist
    <3>2. QED
      BY <3>1 DEF AheadIsWaited
  <2>4. QED
    BY <2>1, <2>2, <2>3 DEF Next, AppStep
<1>3. QED
  BY <1>1, <1>2, TypeCorrect, PTL DEF Spec, WaitsBeforeRelease

\* An image that acquire has marked is acquired or was released.
MarkedImages ==
  /\ failures = 0
  /\ \A i \in Images : has_been_acquired[i] =>
       i \in Acquired \/ \E j \in 1 .. Len(released) : released[j] = i

WaitInv == MarkedImages /\ WaitsOnlyForReleased

\* If no call fails, the client waits for a copy only on an image that it released before,
\* for any number of images and threads.
THEOREM WaitsAreForReleased ==
  ASSUME MaxFailures = 0
  PROVE  Spec => []WaitsOnlyForReleased
<1>1. Init => WaitInv
  BY DEF Init, WaitInv, MarkedImages, WaitsOnlyForReleased
<1>2. TypeOK /\ RingInv /\ WaitInv /\ [Next]_vars => WaitInv'
  <2> SUFFICES ASSUME TypeOK, RingInv, WaitInv, [Next]_vars PROVE WaitInv'
    OBVIOUS
  <2>1. HeadsAgree /\ ~Fails /\ failures = 0
    BY DEF RingInv, WaitInv, MarkedImages, Fails
  <2>2. ASSUME NEW a \in Apps, Acquire(a) PROVE WaitInv'
    <3>1. PICK i \in Images : i = acquire_head
      BY DEF TypeOK
    <3>2. PICK b : b = Batch("acquire", i, has_been_acquired[i])
      OBVIOUS
    <3>3. /\ client_queue' = Append(client_queue, b) /\ num_acquired' = num_acquired + 1
          /\ has_been_acquired' = [has_been_acquired EXCEPT ![i] = TRUE]
          /\ UNCHANGED <<release_head, released, failures>>
      BY <2>1, <2>2, <3>1, <3>2 DEF Acquire, WaitsForCopy, hist
    <3>4. i \notin Acquired /\ Acquired' = Acquired \cup {i}
      BY <2>1, <2>2, <3>1, <3>3, AcquireAdds DEF Acquire, CanAcquire
    <3>5. MarkedImages'
      BY <2>1, <3>3, <3>4 DEF WaitInv, MarkedImages, TypeOK
    <3>6. b \in Batches /\ b.image = i /\ b.waits = has_been_acquired[i]
      BY <3>2 DEF TypeOK, Batch, Batches
    <3>7. /\ Len(client_queue') = Len(client_queue) + 1 /\ Len(client_queue) \in Nat
          /\ client_queue'[Len(client_queue) + 1] = b
          /\ \A k \in 1 .. Len(client_queue) : client_queue'[k] = client_queue[k]
      BY <3>3, <3>6, AppendProperties, LenProperties DEF TypeOK
    <3>8. WaitsOnlyForReleased'
      <4> SUFFICES ASSUME NEW k \in 1 .. Len(client_queue'), client_queue'[k].waits
                   PROVE  \E j \in 1 .. Len(released) : released[j] = client_queue'[k].image
        BY <3>3 DEF WaitsOnlyForReleased
      <4>1. k \in 1 .. Len(client_queue) \/ k = Len(client_queue) + 1
        BY <3>7
      <4>2. CASE k = Len(client_queue) + 1
        BY <3>4, <3>6, <3>7, <4>2 DEF WaitInv, MarkedImages
      <4>3. CASE k \in 1 .. Len(client_queue)
        BY <3>7, <4>3 DEF WaitInv, WaitsOnlyForReleased
      <4>4. QED
        BY <4>1, <4>2, <4>3
    <3>9. QED
      BY <3>5, <3>8 DEF WaitInv
  <2>3. ASSUME NEW a \in Apps, Release(a) PROVE WaitInv'
    <3>1. PICK i \in Images : i = release_head
      BY DEF TypeOK
    <3>2. PICK b : b = Batch("release", i, FALSE)
      OBVIOUS
    <3>3. /\ client_queue' = Append(client_queue, b) /\ num_acquired' = num_acquired - 1
          /\ release_head' = Succ(release_head) /\ released' = Append(released, i)
          /\ UNCHANGED <<has_been_acquired, failures>>
      BY <2>1, <2>3, <3>1, <3>2 DEF Release
    <3>4. i \in Acquired /\ Acquired' = Acquired \ {i}
      BY <2>1, <2>3, <3>1, <3>3, ReleaseTakes DEF Release, CanRelease
    <3>5. /\ Len(released') = Len(released) + 1 /\ Len(released) \in Nat
          /\ released'[Len(released) + 1] = i
          /\ \A k \in 1 .. Len(released) : released'[k] = released[k]
      BY <3>3, AppendProperties, LenProperties DEF TypeOK
    <3>6. \A j \in 1 .. Len(released) : j \in 1 .. Len(released')
      BY <3>5
    <3>7. Len(released) + 1 \in 1 .. Len(released')
      BY <3>5
    <3>8. MarkedImages'
      BY <2>1, <3>3, <3>4, <3>5, <3>6, <3>7 DEF WaitInv, MarkedImages
    <3>9. b \in Batches /\ b.waits = FALSE
      BY <3>2 DEF Batch, Batches
    <3>10. /\ Len(client_queue') = Len(client_queue) + 1 /\ Len(client_queue) \in Nat
           /\ client_queue'[Len(client_queue) + 1] = b
           /\ \A k \in 1 .. Len(client_queue) : client_queue'[k] = client_queue[k]
      BY <3>3, <3>9, AppendProperties, LenProperties DEF TypeOK
    <3>11. WaitsOnlyForReleased'
      <4> SUFFICES ASSUME NEW k \in 1 .. Len(client_queue'), client_queue'[k].waits
                   PROVE  \E j \in 1 .. Len(released') : released'[j] = client_queue'[k].image
        BY DEF WaitsOnlyForReleased
      <4>1. k \in 1 .. Len(client_queue)
        BY <3>9, <3>10
      <4>2. PICK j \in 1 .. Len(released) : released[j] = client_queue[k].image
        BY <3>10, <4>1 DEF WaitInv, WaitsOnlyForReleased
      <4>3. QED
        BY <3>5, <3>6, <3>10, <4>1, <4>2
    <3>12. QED
      BY <3>8, <3>11 DEF WaitInv
  <2>4. CASE ClientGpu
    <3>1. UNCHANGED <<num_acquired, release_head, has_been_acquired, released, failures>>
      BY <2>4 DEF ClientGpu, ring, hist
    <3>2. MarkedImages'
      BY <3>1 DEF WaitInv, MarkedImages, Acquired
    <3>3. /\ Len(client_queue) \in Nat /\ Len(client_queue') = Len(client_queue) - 1
          /\ \A k \in 1 .. Len(client_queue') : client_queue'[k] = client_queue[k + 1]
      BY <2>4, HeadTailProperties, LenProperties DEF ClientGpu, TypeOK
    <3>4. \A k \in 1 .. Len(client_queue') : k + 1 \in 1 .. Len(client_queue)
      BY <3>3
    <3>5. WaitsOnlyForReleased'
      BY <3>1, <3>3, <3>4 DEF WaitInv, WaitsOnlyForReleased
    <3>6. QED
      BY <3>2, <3>5 DEF WaitInv
  <2>5. CASE \/ \E a \in Apps : WaitStart(a) \/ WaitDone(a) \/ WaitGivesUp(a) \/ SendRelease(a)
             \/ ServerStep \/ ServerThrows \/ ServerGpu \/ Finished \/ UNCHANGED vars
    <3>1. UNCHANGED <<num_acquired, release_head, has_been_acquired, released, failures,
                      client_queue>>
      BY <2>1, <2>5 DEF WaitStart, WaitDone, WaitGivesUp, SendRelease, ServerStep, ServerTake,
        ServerFence, ServerSubmit, ServerReply, ServerThrows, ServerGpu, Finished,
        vars, ring, gpu, hist
    <3>2. QED
      BY <3>1 DEF WaitInv, MarkedImages, Acquired, WaitsOnlyForReleased
  <2>6. QED
    BY <2>2, <2>3, <2>4, <2>5 DEF Next, AppStep
<1>3. WaitInv => WaitsOnlyForReleased
  BY DEF WaitInv
<1>4. QED
  BY <1>1, <1>2, <1>3, RingInvariant, TypeCorrect, PTL DEF Spec

\* Where the only thread's release stands between the client and the server.
LineUp(a) ==
  LET due == released = Append(copied, app[a].image) IN
  /\ failures = 0
  /\ app[a].at \in {"idle", "waiting"} =>
       released = copied /\ request = <<>> /\ server.at = "idle"
  /\ app[a].at = "released" => due /\ request = <<>> /\ server.at = "idle"
  /\ app[a].at = "calling" =>
       \/ due /\ request = <<app[a].image>> /\ server.at = "idle"
       \/ due /\ request = <<>> /\ server.at \in {"fence", "submit"}
              /\ server.image = app[a].image
       \/ released = copied /\ request = <<>> /\ server.at = "reply"

\* If one thread uses the swapchain and no call fails, the server copies the images in
\* the order in which the client released them.  Two threads may send their requests in
\* the other order, and a request that fails is never made up for.
THEOREM CopiesFollowReleases ==
  ASSUME NEW a, Apps = {a}, MaxFailures = 0
  PROVE  Spec => []ReleasesLineUp
<1>1. Init => LineUp(a)
  BY DEF Init, LineUp, Call
<1>2. TypeOK /\ LineUp(a) /\ [Next]_vars => LineUp(a)'
  <2> SUFFICES ASSUME TypeOK, LineUp(a), [Next]_vars PROVE LineUp(a)'
    OBVIOUS
  <2>1. ~Fails /\ failures = 0
    BY DEF LineUp, Fails
  <2>2. app \in [Apps -> AppCalls] /\ a \in Apps /\ app[a] \in AppCalls
    BY DEF TypeOK
  <2>3. ASSUME Acquire(a) PROVE LineUp(a)'
    BY <2>1, <2>3 DEF LineUp, Acquire, srv, hist
  <2>4. ASSUME WaitStart(a) \/ WaitDone(a) \/ WaitGivesUp(a) PROVE LineUp(a)'
    <3>1. /\ app[a].at \in {"idle", "waiting"} /\ app'[a].at \in {"idle", "waiting"}
          /\ UNCHANGED <<released, copied, request, server, failures>>
      BY <2>1, <2>2, <2>4 DEF WaitStart, WaitDone, WaitGivesUp, Idle, SetApp, Call, srv, hist
    <3>2. QED
      BY <2>1, <3>1 DEF LineUp
  <2>5. ASSUME Release(a) PROVE LineUp(a)'
    <3>1. /\ app[a].at = "idle" /\ app' = [app EXCEPT ![a] = Call("released", release_head)]
          /\ released' = Append(released, release_head)
          /\ UNCHANGED <<copied, request, server, failures>>
      BY <2>1, <2>5 DEF Release, Idle, SetApp, srv
    <3>2. app'[a].at = "released" /\ app'[a].image = release_head
      BY <2>2, <3>1 DEF Call
    <3>3. QED
      BY <2>1, <3>1, <3>2 DEF LineUp
  <2>6. ASSUME SendRelease(a) PROVE LineUp(a)'
    <3>1. PICK i \in Images : i = app[a].image
      BY <2>2 DEF AppCalls
    <3>2. /\ app[a].at = "released" /\ app' = [app EXCEPT ![a] = Call("calling", i)]
          /\ request' = Append(request, i)
          /\ UNCHANGED <<released, copied, server, failures>>
      BY <2>1, <2>6, <3>1 DEF SendRelease, Requested, SetApp, srv, hist
    <3>3. app'[a].at = "calling" /\ app'[a].image = i
      BY <2>2, <3>2 DEF Call
    <3>4. request' = <<i>>
      BY <3>2 DEF LineUp
    <3>5. QED
      BY <2>1, <3>1, <3>2, <3>3, <3>4 DEF LineUp
  <2>7. CASE ServerTake
    <3>1. app[a].at = "calling" /\ request = <<app[a].image>>
      BY <2>2, <2>7 DEF ServerTake, LineUp, AppCalls
    <3>2. Head(request) = app[a].image /\ Tail(request) = <<>>
      BY <3>1
    <3>3. /\ server'.at = "fence" /\ server'.image = app[a].image /\ request' = <<>>
          /\ UNCHANGED <<app, released, copied, failures>>
      BY <2>7, <3>2 DEF ServerTake, Call, hist
    <3>4. QED
      BY <2>1, <2>7, <3>1, <3>3 DEF LineUp, ServerTake
  <2>8. CASE ServerFence
    <3>1. /\ server.at = "fence" /\ server'.at = "submit" /\ server'.image = server.image
          /\ UNCHANGED <<app, request, released, copied, failures>>
      BY <2>8 DEF ServerFence, Call, hist
    <3>2. app[a].at = "calling"
      BY <2>2, <3>1 DEF LineUp, AppCalls
    <3>3. QED
      BY <2>1, <3>1, <3>2 DEF LineUp
  <2>9. CASE ServerSubmit
    <3>1. /\ server.at = "submit" /\ server'.at = "reply" /\ copied' = Append(copied, server.image)
          /\ UNCHANGED <<app, request, released, failures>>
      BY <2>9 DEF ServerSubmit, Call
    <3>2. app[a].at = "calling"
      BY <2>2, <3>1 DEF LineUp, AppCalls
    <3>3. QED
      BY <2>1, <3>1, <3>2 DEF LineUp
  <2>10. CASE ServerReply
    <3>1. /\ server.at = "reply" /\ server'.at = "idle"
          /\ UNCHANGED <<request, released, copied, failures>>
      BY <2>10 DEF ServerReply, Call, hist
    <3>2. app[a].at = "calling"
      BY <2>2, <3>1 DEF LineUp, AppCalls
    <3>3. app'[a].at = "idle"
      BY <2>2, <2>10, <3>2 DEF ServerReply, Call
    <3>4. QED
      BY <2>1, <3>1, <3>2, <3>3 DEF LineUp
  <2>11. CASE ServerThrows \/ ClientGpu \/ ServerGpu \/ Finished \/ UNCHANGED vars
    <3>1. UNCHANGED <<app, released, copied, request, server, failures>>
      BY <2>1, <2>11 DEF ServerThrows, ClientGpu, ServerGpu, Finished, vars, srv, hist
    <3>2. QED
      BY <3>1 DEF LineUp
  <2>12. QED
    BY <2>3, <2>4, <2>5, <2>6, <2>7, <2>8, <2>9, <2>10, <2>11 DEF Next, AppStep, ServerStep
<1>3. TypeOK /\ LineUp(a) => ReleasesLineUp
  <2> SUFFICES ASSUME TypeOK, LineUp(a) PROVE ReleasesLineUp
    OBVIOUS
  <2>1. app[a] \in AppCalls /\ copied \in Seq(Images)
    BY DEF TypeOK
  <2>2. released = copied \/ released = Append(copied, app[a].image)
    BY <2>1 DEF LineUp, AppCalls
  <2>3. app[a].image \in Images
    BY <2>1 DEF AppCalls
  <2>4. QED
    BY <2>1, <2>2, <2>3, AppendProperties, LenProperties DEF ReleasesLineUp
<1>4. QED
  BY <1>1, <1>2, <1>3, TypeCorrect, PTL DEF Spec

=============================================================================
