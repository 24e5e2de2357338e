------------------------------ MODULE Swapchain ------------------------------
(***************************************************************************)
(* One Vulkan swapchain shared by the client module and the server module. *)
(* On the client, SwapchainState hands out images through a ring of three  *)
(* heads guarded by one mutex and submits a command buffer at each acquire *)
(* and each release.  xrReleaseSwapchainImageImpl then asks the server to  *)
(* copy the released image into the swapchain of the real runtime.  Two    *)
(* semaphores and a fence per image order the client's GPU queue, the      *)
(* server's GPU queue and the application.                                 *)
(*                                                                         *)
(* A call of acquire or release is one step under the mutex.  A call of    *)
(* wait keeps the mutex while it waits for the fence.  Calls refused with  *)
(* XR_ERROR_CALL_ORDER_INVALID change nothing and are not steps.           *)
(*                                                                         *)
(* GPU queues (external) run their batches in submission order.  The first *)
(* acquire of an image is submitted with a fence that is still signaled,   *)
(* which Vulkan leaves undefined: here, as drivers do, the fence is set    *)
(* when the batch is done.                                                 *)
(***************************************************************************)
EXTENDS Integers, Sequences

CONSTANTS
  N,            \* number of images
  Apps,         \* application threads that use the swapchain
  IsStatic,     \* XR_SWAPCHAIN_CREATE_STATIC_IMAGE_BIT
  MaxFrames,    \* bound: images the application acquires
  MaxFailures   \* bound: calls of Vulkan, of the runtime or of the transport that fail

ASSUME NAssumption == N \in Nat \ {0}
ASSUME StaticAssumption == IsStatic \in BOOLEAN /\ (IsStatic => N = 1)
ASSUME BoundsAssumption == MaxFrames \in Nat /\ MaxFailures \in Nat

Images == 0 .. N - 1

VARIABLES
  num_acquired, acquire_head, wait_head, release_head,
  has_been_acquired,  \* [Images -> BOOLEAN]
  fence,              \* [Images -> BOOLEAN], is copying_done_fence signaled?
  app,                \* [Apps -> call in progress and the image it released]
  client_queue,       \* batches submitted to the client's VkQueue
  rendering_done,     \* [Images -> BOOLEAN], shared semaphore
  copying_done,       \* [Images -> BOOLEAN], shared semaphore
  request,            \* RELEASE_SWAPCHAIN_IMAGE messages on their way to the server
  server,             \* the message handler of the server
  command_buffer_fence,  \* [Images -> BOOLEAN], fence of the server's copy
  server_queue,       \* images whose copy is submitted to the server's VkQueue
  frames, failures,   \* counters of the bounds
  phase,              \* history: what the GPUs last did with each image
  waited,             \* history: has the oldest acquired image been waited for?
  released,           \* history: images released by the client, in order
  copied              \* history: images whose copy the server submitted, in order

ring == <<num_acquired, acquire_head, wait_head, release_head, has_been_acquired>>
gpu == <<client_queue, rendering_done, copying_done, server_queue, phase>>
srv == <<request, server, command_buffer_fence>>
hist == <<waited, released, copied>>
vars == <<ring, fence, app, gpu, srv, frames, failures, hist>>

Batches == [op : {"acquire", "release"}, image : Images, waits : BOOLEAN]
Batch(o, i, w) == [op |-> o, image |-> i, waits |-> w]

\* "waiting" is inside SwapchainState::wait; "released" and "calling" are inside
\* xrReleaseSwapchainImageImpl before and after the request is sent.
Call(l, i) == [at |-> l, image |-> i]
AppCalls == [at : {"idle", "waiting", "released", "calling"}, image : Images]
\* The handler stands before the wait for the command buffer's fence, before the
\* submission of the copy, or before the answer.
ServerCalls == [at : {"idle", "fence", "submit", "reply"}, image : Images]

Phases == {"fresh", "client", "released", "copied"}

Idle(a) == app[a].at = "idle"
\* The mutex of the SwapchainState, kept only by a waiting call.
MutexDropped == TRUE  \* mutant: the mutex is given up during the wait
MutexFree == \A a \in Apps : app[a].at # "waiting"
SetApp(a, l, i) == app' = [app EXCEPT ![a] = Call(l, i)]
Succ(h) == (h + 1) % N
\* One of the bounded number of failures happens.
Fails == failures < MaxFailures /\ failures' = failures + 1

-----------------------------------------------------------------------------
(* SwapchainState on the client                                            *)

\* Conditions under which acquire, wait and release do not return
\* XR_ERROR_CALL_ORDER_INVALID.
CanAcquireOneMore == num_acquired <= N  \* mutant: one image too many
CanAcquire == num_acquired < N
CanWait == num_acquired > 0 /\ wait_head = release_head
CanReleaseUnwaited == num_acquired > 0  \* mutant: no wait needed
CanRelease == num_acquired > 0 /\ wait_head = Succ(release_head)

\* Does the acquire batch of image i wait for copying_done?
NeverWaitsForCopy(i) == FALSE  \* mutant: the copy is not awaited
AlwaysWaitsForCopy(i) == TRUE  \* mutant: the first acquire waits too
WaitsForCopy(i) == has_been_acquired[i]

\* The image is marked before the submission, whose failure leaves it marked.
Acquire(a) ==
  LET i == acquire_head IN
  /\ Idle(a) /\ MutexFree
  /\ CanAcquire
  /\ ~(IsStatic /\ has_been_acquired[i])
  /\ frames < MaxFrames
  /\ has_been_acquired' = [has_been_acquired EXCEPT ![i] = TRUE]
  /\ \/ /\ client_queue' = Append(client_queue, Batch("acquire", i, WaitsForCopy(i)))
        /\ acquire_head' = Succ(i)
        /\ num_acquired' = num_acquired + 1
        /\ frames' = frames + 1
        /\ UNCHANGED failures
     \/ /\ Fails
        /\ UNCHANGED <<client_queue, acquire_head, num_acquired, frames>>
  /\ UNCHANGED <<wait_head, release_head, fence, app, rendering_done, copying_done,
                 server_queue, phase, srv, hist>>

WaitStart(a) ==
  /\ Idle(a) /\ MutexFree
  /\ CanWait
  /\ SetApp(a, "waiting", wait_head)
  /\ UNCHANGED <<ring, fence, gpu, srv, frames, failures, hist>>

WaitDone(a) ==
  /\ app[a].at = "waiting" /\ fence[wait_head]
  /\ wait_head' = Succ(wait_head)
  /\ SetApp(a, "idle", 0)
  /\ waited' = TRUE
  /\ UNCHANGED <<num_acquired, acquire_head, release_head, has_been_acquired, fence, gpu, srv,
                 frames, failures, released, copied>>

\* The timeout expires, or the wait fails.
WaitGivesUp(a) ==
  /\ app[a].at = "waiting"
  /\ \/ ~fence[wait_head] /\ UNCHANGED failures
     \/ Fails
  /\ SetApp(a, "idle", 0)
  /\ UNCHANGED <<ring, fence, gpu, srv, frames, hist>>

\* The fence is reset, then the batch is submitted; either may fail.
Release(a) ==
  LET i == release_head IN
  /\ Idle(a) /\ MutexFree
  /\ CanRelease
  /\ \/ /\ fence' = [fence EXCEPT ![i] = FALSE]
        /\ client_queue' = Append(client_queue, Batch("release", i, FALSE))
        /\ release_head' = Succ(i)
        /\ num_acquired' = num_acquired - 1
        /\ SetApp(a, "released", i)
        /\ waited' = FALSE
        /\ released' = Append(released, i)
        /\ UNCHANGED failures
     \/ /\ Fails
        /\ fence' \in {fence, [fence EXCEPT ![i] = FALSE]}
        /\ UNCHANGED <<client_queue, release_head, num_acquired, app, waited, released>>
  /\ UNCHANGED <<acquire_head, wait_head, has_been_acquired, rendering_done, copying_done,
                 server_queue, phase, srv, frames, copied>>

\* The image that the request names.
RequestsHead(a) == release_head  \* mutant: read after the release, without the mutex
Requested(a) == app[a].image

\* The request to the server: one thread at a time holds the transport's message lock
\* from start_message to the answer.  start_message may throw.
SendRelease(a) ==
  /\ app[a].at = "released"
  /\ \A b \in Apps : app[b].at # "calling"
  /\ \/ /\ SetApp(a, "calling", Requested(a))
        /\ request' = Append(request, Requested(a))
        /\ UNCHANGED failures
     \/ /\ Fails
        /\ SetApp(a, "idle", 0)
        /\ UNCHANGED request
  /\ UNCHANGED <<ring, fence, gpu, server, command_buffer_fence, frames, hist>>

-----------------------------------------------------------------------------
(* handle_release_swapchain_image on the server                            *)

ServerTake ==
  /\ server.at = "idle" /\ request # <<>>
  /\ server' = Call("fence", Head(request))
  /\ request' = Tail(request)
  /\ UNCHANGED <<ring, fence, app, gpu, command_buffer_fence, frames, failures, hist>>

\* The command buffer must not be in use when it is recorded again.
ServerFence ==
  /\ server.at = "fence" /\ command_buffer_fence[server.image]
  /\ command_buffer_fence' = [command_buffer_fence EXCEPT ![server.image] = FALSE]
  /\ server' = Call("submit", server.image)
  /\ UNCHANGED <<ring, fence, app, gpu, request, frames, failures, hist>>

\* The runtime's image is ready: the copy is submitted and the runtime's image released.
ServerSubmit ==
  /\ server.at = "submit"
  /\ server_queue' = Append(server_queue, server.image)
  /\ copied' = Append(copied, server.image)
  /\ server' = Call("reply", server.image)
  /\ UNCHANGED <<ring, fence, app, client_queue, rendering_done, copying_done, phase, request,
                 command_buffer_fence, frames, failures, waited, released>>

ServerReply ==
  /\ server.at = "reply"
  /\ server' = Call("idle", 0)
  /\ app' = [a \in Apps |-> IF app[a].at = "calling" THEN Call("idle", 0) ELSE app[a]]
  /\ UNCHANGED <<ring, fence, gpu, request, command_buffer_fence, frames, failures, hist>>

\* An exception leaves the handler: no answer is sent.
ServerThrows ==
  /\ server.at \in {"fence", "submit", "reply"}
  /\ Fails
  /\ server' = Call("idle", 0)
  /\ UNCHANGED <<ring, fence, app, gpu, request, command_buffer_fence, frames, hist>>

-----------------------------------------------------------------------------
(* The GPU queues                                                          *)

\* An acquire batch waits for copying_done, except the first of its image, and signals
\* the fence; a release batch signals rendering_done.
ClientGpu ==
  LET b == Head(client_queue) IN
  /\ client_queue # <<>>
  /\ b.waits => copying_done[b.image]
  /\ client_queue' = Tail(client_queue)
  /\ IF b.op = "acquire"
     THEN /\ copying_done' = IF b.waits THEN [copying_done EXCEPT ![b.image] = FALSE]
                                        ELSE copying_done
          /\ fence' = [fence EXCEPT ![b.image] = TRUE]
          /\ phase' = [phase EXCEPT ![b.image] = "client"]
          /\ UNCHANGED rendering_done
     ELSE /\ rendering_done' = [rendering_done EXCEPT ![b.image] = TRUE]
          /\ phase' = [phase EXCEPT ![b.image] = "released"]
          /\ UNCHANGED <<copying_done, fence>>
  /\ UNCHANGED <<ring, app, server_queue, srv, frames, failures, hist>>

\* A copy waits for rendering_done and signals copying_done and its fence.
ServerGpu ==
  LET i == Head(server_queue) IN
  /\ server_queue # <<>> /\ rendering_done[i]
  /\ server_queue' = Tail(server_queue)
  /\ rendering_done' = [rendering_done EXCEPT ![i] = FALSE]
  /\ copying_done' = [copying_done EXCEPT ![i] = TRUE]
  /\ command_buffer_fence' = [command_buffer_fence EXCEPT ![i] = TRUE]
  /\ phase' = [phase EXCEPT ![i] = "copied"]
  /\ UNCHANGED <<ring, fence, app, client_queue, request, server, frames, failures, hist>>

-----------------------------------------------------------------------------
\* The swapchain as xrCreateSwapchainImpl and handle_create_swapchain leave it.
Init ==
  /\ num_acquired = 0 /\ acquire_head = 0 /\ wait_head = 0 /\ release_head = 0
  /\ has_been_acquired = [i \in Images |-> FALSE]
  /\ fence = [i \in Images |-> TRUE]
  /\ app = [a \in Apps |-> Call("idle", 0)]
  /\ client_queue = <<>> /\ server_queue = <<>>
  /\ rendering_done = [i \in Images |-> FALSE]
  /\ copying_done = [i \in Images |-> FALSE]
  /\ request = <<>> /\ server = Call("idle", 0)
  /\ command_buffer_fence = [i \in Images |-> TRUE]
  /\ frames = 0 /\ failures = 0
  /\ phase = [i \in Images |-> "fresh"]
  /\ waited = FALSE /\ released = <<>> /\ copied = <<>>

AppStep(a) == Acquire(a) \/ WaitStart(a) \/ WaitDone(a) \/ WaitGivesUp(a) \/ Release(a)
              \/ SendRelease(a)
ServerStep == ServerTake \/ ServerFence \/ ServerSubmit \/ ServerReply

\* The application has used up its frames and returned every image.
Finished ==
  /\ frames = MaxFrames \/ IsStatic
  /\ \A a \in Apps : Idle(a)
  /\ num_acquired = 0
  /\ UNCHANGED vars

Next ==
  \/ \E a \in Apps : AppStep(a)
  \/ ServerStep \/ ServerThrows \/ ClientGpu \/ ServerGpu
  \/ Finished

Spec == Init /\ [][Next]_vars

\* Calls in progress go on, the server's handler runs and the GPUs run what they can.
\* A timeout need not expire, and the application need not make its next call.
FairSpec ==
  /\ Spec
  /\ \A a \in Apps : WF_vars(WaitDone(a)) /\ WF_vars(SendRelease(a))
  /\ WF_vars(ServerStep) /\ WF_vars(ClientGpu) /\ WF_vars(ServerGpu)

-----------------------------------------------------------------------------
(* Properties                                                              *)

TypeOK ==
  /\ num_acquired \in 0 .. N
  /\ acquire_head \in Images /\ wait_head \in Images /\ release_head \in Images
  /\ has_been_acquired \in [Images -> BOOLEAN] /\ fence \in [Images -> BOOLEAN]
  /\ app \in [Apps -> AppCalls]
  /\ client_queue \in Seq(Batches) /\ server_queue \in Seq(Images)
  /\ rendering_done \in [Images -> BOOLEAN] /\ copying_done \in [Images -> BOOLEAN]
  /\ request \in Seq(Images) /\ server \in ServerCalls
  /\ command_buffer_fence \in [Images -> BOOLEAN]
  /\ frames \in Nat /\ failures \in Nat
  /\ phase \in [Images -> Phases]
  /\ waited \in BOOLEAN /\ released \in Seq(Images) /\ copied \in Seq(Images)

\* The three heads and the count describe one ring: the acquired images are the
\* num_acquired ones from release_head on, the wait head is at most one slot ahead of
\* the release head, and only while an image is acquired.
HeadsAgree ==
  /\ acquire_head = IF release_head + num_acquired < N THEN release_head + num_acquired
                                                       ELSE release_head + num_acquired - N
  /\ wait_head # release_head => num_acquired > 0 /\ wait_head = Succ(release_head)

\* The GPUs use each image in turns: the client's transition and rendering, the release
\* to the server, the server's copy, and the client again.
ImagesAlternate ==
  [][\A i \in Images : phase'[i] # phase[i] =>
       <<phase[i], phase'[i]>> \in {<<"fresh", "client">>, <<"client", "released">>,
                                    <<"released", "copied">>, <<"copied", "client">>}]_vars

\* A binary semaphore is signaled exactly while the batch that waits for it is due, so
\* that it is never signaled twice nor waited for by two batches.
SemaphoresFollowUse ==
  \A i \in Images : /\ rendering_done[i] <=> phase[i] = "released"
                    /\ copying_done[i] <=> phase[i] = "copied"

\* An image is released only after a wait for it has succeeded since its acquire.
WaitsBeforeRelease == [][released' # released => waited]_vars

\* The releases line up between the client and the server: the server copies the images
\* in the order in which the client released them.
ReleasesLineUp ==
  /\ Len(copied) <= Len(released)
  /\ \A k \in 1 .. Len(copied) : copied[k] = released[k]

\* The client waits for copying_done only on an image that it released before.
WaitsOnlyForReleased ==
  \A k \in 1 .. Len(client_queue) :
    client_queue[k].waits => \E j \in 1 .. Len(released) : released[j] = client_queue[k].image

\* Every wait without a timeout and every release returns.
EveryCallReturns == \A a \in Apps : app[a].at # "idle" ~> app[a].at = "idle"

=============================================================================
