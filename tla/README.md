# A TLA+ model of xrtransport

xrtransport runs an OpenXR application on one machine (or guest) and the OpenXR
runtime on another. The client is a runtime that turns every OpenXR call into a
message; the server makes the call on the real runtime and sends back the
result. Modules on both sides add what messages alone cannot carry: shared
Vulkan images and the exchange of file descriptors.

This directory holds the specifications of the parts of xrtransport whose
correctness depends on interleavings, the TLC configurations that check small
instances, and TLAPS proofs of the results that hold for every instance.

## Inventory

| Component | State | Operations | Hard behaviour |
|---|---|---|---|
| Message transport, `src/common/transport/transport_impl.*` | status, message queue, recursive message mutex, `num_waiting`, two condition variables, handler table, two worker threads, the stream | start, start_message/flush, await_message, handle_message, register/unregister/clear handlers, acquire_message_lock, shutdown, close, join, destructor; the loops of the producer and the consumer | three kinds of thread, handlers that call back in, wake-ups, close and peer shutdown at any time |
| C API and C++ wrappers, `transport_c_api.cpp`, `transport.h` | heap-allocated locks | one function per operation above | destructors and release functions flush |
| Generated RPC client and server, `rpc.cpp`, `function_dispatch.cpp`, `function_loader.h` | the table of function ids, the functions loaded so far | one stub and one handler per OpenXR call, written by two templates | both must agree field by field; handlers and stubs that throw half-way; answers without an id |
| Clock synchronization, `client/synchronization.cpp` | offset, time of the last synchronization, a switch | get_time_offset, do_synchronize, enable/disable | several calls under one lock; unlocked globals |
| Vulkan swapchains, `modules/vulkan/client`, `modules/vulkan/server` | on the client a ring of images with three heads; on both sides semaphores, fences, command buffers | acquire, wait, release; copy on the server; create, destroy | two CPUs and two GPUs, binary semaphores, failures between the sides |
| Vulkan sessions and devices | session and swapchain tables on both sides | create, destroy, negotiation of the device | the sides disagree after a failure |
| Handshake, `server.cpp`, `runtime.cpp` | none | exchange of magic, versions, verdict | both ends must agree |
| Instance lifecycle, `server.cpp`, `main.cpp`, `entry.cpp`, `runtime.cpp` | a saved instance on each side, extension and function tables, the runtime singleton | accept loop, negotiate, create, destroy, poll events | a client that dies at any point; state left for the next client |
| Handle exchange, `modules/handle_exchange_linux` | a Unix socket | write, read a descriptor | order of descriptors |
| Serialization, `serializer.*`, `deserializer.*` | two contexts (time offset, in place or not) | serialize/deserialize of values, pointers, structures with a next chain, times; cleanup | nullptr and length 0; types that one build does not know |
| Configuration, module loaders, code generator, gfxstream | none, or read once | | not modelled (see below) |

How they interact: the RPC client, the clock synchronization and the Vulkan
client module are users of the transport, on the application's threads; the
server's handlers are called by the transport's consumer thread, or by a thread
of the server that awaits a message. The Vulkan modules use the transport for
requests and share images and semaphores through the GPU.

What makes each correct: every wake-up reaches its waiter, messages are handled
in order, an answer reaches the call it answers, and closing ends every thread
(transport); the ring's heads agree, the two GPUs use an image in turns and
every call returns (swapchains); both sides hold the same sessions and
swapchains (lifecycle); both ends accept or both refuse (handshake); the runtime
has no instance when the next client is accepted (instances); a remote call runs at
most once, with the caller's arguments, and returns its own result (RPC); the offset
is as accurate as the fastest round trip allows (clock synchronization).

## Modules

| Module | Content |
|---|---|
| `Transport` | one endpoint of the message transport |
| `MCTransport` | the scripts its user threads and handlers run in the runs |
| `TransportProofs` | theorems about `Transport`: types, wake-ups, waits after the close |
| `TransportOrderProofs` | the discipline of its message mutex, and the order of dispatch |
| `TransportAnswerProofs` | its calls get their own answers; what graceful use of it is safe from |
| `Swapchain` | one Vulkan swapchain: client ring, server copy, two GPU queues |
| `MCSwapchain` | the threads of its runs |
| `SwapchainProofs` | theorems about `Swapchain` |
| `WireFields` | the primitives of serialization: what a field writes, and how reading it ends |
| `RpcClient`, `RpcServer` | one row for each stub of `rpc.cpp` and each handler of `function_dispatch.cpp` |
| `Rpc` | remote calls: a stub, the two queues, the dispatch and a handler |
| `RemoteCall` | what a remote call promises; `Rpc` implements it |
| `MCRpc` | the calls and the servers of its run, from the two tables |
| `RpcProofs` | theorems about `Rpc`, the refinement among them |
| `Connection`, `MCConnection` | handshake, accept loop, instances of both sides, events |
| `ConnectionProofs` | theorems about `Connection` |
| `ClockSync`, `MCClockSync` | clock synchronization on several threads |
| `ClockSyncProofs` | theorems about `ClockSync` |
| `VulkanLifecycle` | Vulkan sessions and swapchains on both sides, from creation to destruction |
| `MCVulkanLifecycle` | the application threads and handles of its runs |
| `VulkanLifecycleProofs` | theorems about `VulkanLifecycle` |

### Transport

A thread is a stack of frames, one for each active call; a frame says where the
call stands, which message it is about, which operations the caller still makes
and how often the thread held the message mutex when the call began (what the
destructors of its locks restore). Users run scripts of operations, and so do
handlers: a handler that answers, that answers and shuts down, or that throws
before it answers. The operation `rpc` is the pattern of every generated client
function: `start_message`, flush, `await_message`, with the lock of the outgoing
message kept to the end. `sync` is `do_synchronize`: several of these under
`acquire_message_lock`.

Steps are as large as the code's locks allow. A critical section of
`queue_mutex` or `num_waiting_mutex` is one step, because both are leaf mutexes;
`wait` on a condition variable enters the wait set (`queue_cv`,
`num_waiting_cv`) in the step that leaves the critical section; a notify that
follows an unlock belongs to the critical section before it. Reads and stores of
the atomic `status` outside a mutex are steps of their own: the test in
`start_message`, the tests at the top of both loops, the store in `shutdown()`.

Exceptions unwind the stack (`Throw`): the innermost handler is left and the
exception swallowed by `dispatch_to_handler`, user code catches the rest, and an
exception that leaves `consumer_loop` terminates the process. A flush that fails
terminates it as well (`FlushFails`): the buffer is still full, so the
destructor of the outgoing message flushes again during the unwinding.

The peer and the stream are an environment: the peer answers calls, makes calls
of its own, may shut down first, and answers a SHUTDOWN; the connection may
break, after which what is under way to the peer is lost and reads fail once
what has arrived is read, or before. `close()` on the stream makes the producer's
blocked read fail.

Variables `arrived`, `taken`, `dropped`, `answers` and `closed_once` are history
variables: the properties read them, no guard does.

### Swapchain

The three heads, `num_acquired`, the flags and the fences are the members of
`SwapchainState` and `SwapchainImage`. `Acquire` and `Release` are one step each,
under the mutex; `wait` is two, because it keeps the mutex while it waits for the
fence (`MutexFree`). A call refused with `XR_ERROR_CALL_ORDER_INVALID` changes
nothing and is no step. `SendRelease` is the rest of
`xrReleaseSwapchainImageImpl`: a remote call, one at a time, because the caller
holds the transport's message lock from request to answer. The four server
actions are `handle_release_swapchain_image`: look-up, wait for and reset of the
command buffer's fence, recording and submission, answer. An exception on the
server leaves the handler without an answer (`ServerThrows`).

The GPU queues run batches in the order of submission; a batch waits for its
semaphore and resets it. The first acquire of an image is submitted with a fence
that is still signaled, which Vulkan does not define; the model takes the outcome
of current drivers, the fence set when the batch is done.

### VulkanLifecycle

The tables are the client's `session_states` (reduced to the state of the command
pool) and `swapchain_states`, the server's tables of the same names, and what
exists in the real runtime. A call of the client is split where it gives up or takes
the message lock and where the server acts; each handler of the server is one step,
because nothing else runs on the server in the meantime. `exchange` is the socket of
the handle exchange: a queue of images that carry no name, written by the server
before it answers and read by the client after the answer.

A failure of Vulkan or of the runtime is a step that `MaxFailures` bounds. A handler
that throws leaves what it has done and sends no answer. The client forgets a
swapchain before it tells the server and ignores what becomes of it, also inside
`xrDestroySession`, which works on a copy of the set of swapchains. The server's
loop over the set from which it erases has no defined result: the model takes any
non-empty set of swapchains as destroyed, ends the handler there or goes on, and
records it in `undefined`.

Applications synchronize the destruction of a session with its other uses, as OpenXR
demands; calls on different sessions and swapchains interleave freely. The model is
of the default build; the gfxstream build does not use the handle exchange.

### Rpc, RpcClient, RpcServer, WireFields, RemoteCall

A message is a sequence of fields, one for each call of a serialization primitive.
`Written` says what a primitive writes: the bytes of a value, or a marker and what is
behind a pointer; a null pointer and an array of length 0 write the same marker.
`Outcome` says how a read ends: past the end of the message, with bytes taken for a
marker, or with one of the exceptions of an in-place read. The value of a field is the
name it has on the writing side, so a handler that reads two fields in the wrong order
is seen to call the runtime with the wrong arguments; a time also carries how often it
was shifted by the offset.

`RpcClient` and `RpcServer` hold one row for each OpenXR function, transcribed from the
calls each stub and each handler makes, in their order, with the table of function ids.
One definition covers the functions of one extension, several where the extension is
large. Members of structures that a stub serializes itself are named
`parameter.member`. Three functions have no row to run: the generator emitted `#error`
for their double pointers (`NotGenerated`).

`Rpc` is the behaviour all of these share. A stub's request is sent whole (`SendCall`),
is cut short by an exception of `serialize_xr`, after which the destructor of the
outgoing message sends what is there (`SendTruncated`), or meets a closed transport
(`CallClosed`). The server's consumer takes one message at a time: no handler or no
function (`RejectFunction`), a message that ends too early (`RejectMessage`), a
structure without a deserializer (`CrashOnUnknownStructure`: a null function pointer is
called; the process dies), or a complete read, the call of the runtime, and the answer
with the cleanups. On a closed connection there is no answer: `start_message` throws, the
exception is logged and the memory is lost (`AnswerClosed`), or the flush throws, its
destructor flushes again, and the server is terminated (`FlushFails`). The stub reads the
answer in place, into the caller's memory (`ReadReply`). How the mutex is held from
request to answer is `Transport`'s matter; here a call begins only when none is open.

One handler does not always call the runtime. `destroy_instance_handler` compares the
instance with `saved_instance` and answers `XR_ERROR_HANDLE_INVALID` itself when they
differ (`RefuseInstance`); `create_instance_handler` sets it if the creation succeeds. Of
handles the model keeps just that: `saved` is the application's latest instance or null,
and a request to destroy names the former or something else. The row of each handler says
whether it saves, checks or ignores the instance. A call whose answer is the runtime's
ends as `"result"`, one that the server refused as `"refused"`; in `RemoteCall` the former
needs exactly one execution, the latter has none and never gets one.

### Connection

A client is a process. Its record says where it stands in `do_handshake`, in a call or
between calls, and holds the client's `saved_instance` and, separately, the instance the
application holds: `xrDestroyInstance` is a generated stub and does not reset the
former. Each read and each write of the two `do_handshake` functions is in the order of
the code; reads block, see the end of the stream, or get the next message. The server
serves one client and the others wait in the socket's backlog. `Quit` ends a client at
any point; a client that was turned away is `"gone"`, one that ended by itself `"quit"`.

The client may go away at any moment of a handler, and what becomes of the server then
depends on when its producer meets the end of the stream (`MeetEof`, which closes the
transport). An answer therefore takes two steps. `start_message` looks at the status
(`StartReply`); when the transport is closed it throws, which the dispatch logs
(`ReplyClosed`). The flush succeeds if the producer has noticed nothing and the socket
takes the bytes (`SendReply`); otherwise it throws (`FlushFails`), the destructor of the
message flushes again while the exception unwinds, and `std::terminate` ends the server:
it is `"dead"`, nobody is accepted or connects any more (`ConnectRefused`), and the
instance stays in the runtime. A consumer that finds the transport closed takes no more
messages, and `EndRun` is the end of `run()`, with the destruction of the instance that
the client left. Synchronization and the generated calls answer through the same two
calls, so they add neither a way to end nor a place at which to end. `Uninitialised` is
what `saved_instance` may hold in a new `Server`, which has no initialiser for it.

`CleanSlate` and `EveryoneIsServed` say exactly what is left of their promises after
that: a server that goes on has left no instance, a terminated one leaves at most the
instance of the client whose answer it was flushing; a client that does not end by itself
is up unless its build differs or the server has been terminated.

### ClockSync

Time passes between any two steps (`Tick`). `get_time_offset` is split at each access
to a global: the clock and the test of `last_sync` (`CheckFresh`, `CheckStale`), and the
read of `time_offset`, which nothing keeps from being made first (`LoadEarly`), because
the two are plain variables. `do_synchronize` is one step for each request, answer and
store under the message mutex. The server converts its time with its instance;
before there is one, and after `xrDestroyInstance`, the conversion fails, its result is
ignored and 0 is sent. `of` and `rtts` are history variables: which synchronization set
a global, and its round trips.

## Runs

| Run | Instance | What it shows |
|---|---|---|
| `graceful` | one user, two peer calls, one spurious wake-up; fair | a call, a synchronization, a send, a shutdown and a join or the destructor: every thread ends, nothing terminates the process |
| `shared` | two users, one peer call, handlers that shut down; the peer may shut down | no wake-up is lost, messages stay in order, answers reach their callers |
| `failing` | two users; the connection may break, the peer may shut down, the other user may close; fair | no wait after the close, and every thread ends |
| `shutdown_race` | `start, shutdown, join` and a connection that breaks | **violation**: `shutdown()` overwrites CLOSED, the consumer waits for ever |
| `rpc` | every stub with its handler, each pointer set or null, counted arrays empty, each structure unknown to the client or to the server; sequences of two of four functions, one of which the server's build or its runtime lacks, and of two creations or destructions of an instance, the server's own or another; the connection may close; fair | answers pair up, cut-off and refused requests never run, outputs arrive, ordinary calls succeed, no memory is lost on the ordinary path, the refinement of `RemoteCall`, and calls end |
| `connection` | two clients of any magic and version, two instances, two known events and an unknown one; fair | the handshakes agree, a server that goes on leaves the runtime clean and a terminated one at most one instance, the held instance is the live one, events arrive in order, every client that stays is up unless its build differs or the server was terminated |
| `connection_garbage` | the same | **violation**: the end of a run destroys a handle that was never created |
| `clock` | two threads, two rounds, the instance may come and go, the connection may close; fair | the offset is within half of the least round trip, a skipped synchronization is covered by a newer one, the mutex is always given up |
| `swapchain_loop` | three images, one thread, six frames; fair | the two GPUs alternate, copies line up with releases, and every call returns |
| `swapchain_threads` | two images, two threads, five frames, one failure | ring, semaphores and waits survive concurrency and failures |
| `lifecycle_clean` | two threads, two sessions, two swapchains of two images, colour only, the transport may close; fair | every swapchain gets its own images, both tables agree between calls, the server's loop is never entered, every call returns |
| `lifecycle_failures` | the same with three swapchains, all usage flags and one failure | a swapchain known to the client exists on the server and in the runtime; its pool is alive |

The violations are disagreements between the code and a comment or a document of
the repository; `PROJECT.json` quotes both under `findings`.

Other disagreements met while modelling have no run of their own. The first eight are
violations of a property of a passing run under other constants:

* `Transport`, a user with the script `start, send, join` and a peer that shuts down:
  `NeverTerminated` fails. A thread that has passed the status check of `start_message`
  waits for the message lock while the consumer sets CLOSED; its flush throws
  (`transport_impl.cpp:150`), the destructor of the message flushes again and throws out
  of a `noexcept` function. The C API (`transport_c_api.cpp:23`) and the generated client
  (`rpc_impl.mako:73`) are written to report the exception as an error. On the server the
  same happens to any answer whose client dies between `start_message` and the flush, or
  before the producer has noticed (`server.cpp:241`, `:278`, `:161`, `:136`,
  `function_dispatch.cpp:58`): the accept loop of `main.cpp`, which catches what one
  client's connection throws (`main.cpp:147`), ends with the process. `Connection` and
  `Rpc` have this as `FlushFails`.
* `Swapchain` with one image, the size of every static swapchain: `WaitsBeforeRelease`
  fails. `release_head + 1` modulo 1 equals `wait_head` in every state, so an image that
  nobody waited for is released (`session_state.cpp:219`; the comment at `:220` says "the
  current image has not been waited on").
* `Swapchain`, two images and two threads: `ReleasesLineUp` fails. `release()` gives up
  the swapchain's mutex before `start_message` takes the message lock
  (`vulkan_core.cpp:539`), while `synchronization_model.md:49` relies on the releases
  lining up one to one between client and server.
* `VulkanLifecycle`, usage flags for colour or both: `ImportsOwnImages` fails. The client
  validates the flags only after the server has created the swapchain and written its
  images to the handle exchange (`vulkan_core.cpp:318`); the next swapchain imports them.
* `Swapchain`, two images and one failure: `WaitsOnlyForReleased` fails.
  `has_been_acquired` is set before `QueueSubmit` (`session_state.cpp:162`), so a retried
  first acquire waits for a copy that was never made.
* `VulkanLifecycle` with usage flags for both: `LoopIsDefined` fails. A swapchain that
  the client refused is left on the server, and `handle_destroy_session` erases from the
  set it iterates over (`vulkan_server_module.cpp:918`).
* `VulkanLifecycle` with neither flag: `EveryCallReturns` fails. The server throws without
  an answer (`vulkan_server_module.cpp:748`), so the client's own refusal
  (`vulkan_core.cpp:329`) is never reached.
* `VulkanLifecycle` with `ReusesHandles`: `PoolIsLive` fails. The client never removes a
  `SessionState`, and `store_session_state` keeps the old one with its destroyed pool.

The rest were read in the code on the way and shape the models:

* An output array that is not null but has a length of 0 arrives as nullptr, and the
  in-place read of the answer throws (`deserializer.h:2553`): the call fails after the
  runtime has executed it. `OrdinaryCallsSucceed` names this as one of its two exceptions.
* `deserializer_lookup` returns a null pointer for an unknown type
  (`deserializer.cpp:1152`), which `deserialize_xr` calls without a test: the server
  dies of a structure its build lacks.
* The client's `saved_instance` is never reset: after `xrDestroyInstance`, a second
  `xrCreateInstance` of the same process returns `XR_ERROR_LIMIT_REACHED`
  (`entry.cpp:206`). A creation that fails clears `available_functions`
  (`entry.cpp:307`), `xrCreateInstance` itself included.
* `xrPollEventImpl` leaves the last `next` pointing to memory that `cleanup_xr` frees
  when a chained structure does not fit (`entry.cpp:482`), and deserializes with a time
  offset of 0 (`entry.cpp:447`), so the times in events stay on the server's clock.
* `xrPollEventImpl` and `xrNegotiateLoaderRuntimeInterface` let the exceptions of the
  transport out through a C interface (`entry.cpp:438`, `:357`); `ClientEof` takes the
  process as dead.
* A thread that finds `last_sync` fresh may return the offset from before the
  synchronization that made it fresh, 0 the first time, if it read `time_offset` first
  (`synchronization.cpp:60`). `SkipsForNewer` names the race.
* After `xrDestroyInstance` synchronization goes on and measures against 0
  (`server.cpp:116`); `OffsetAccurate` speaks only of times with an instance.
* 401 of the 537 extension structures are defined twice in `serializer.cpp` and
  `deserializer.cpp`, and no build file of the repository defines an
  `XRTRANSPORT_EXT_` macro. The tables take every extension as built.
* The fence of an image's first acquire is still signaled when it is submitted; signaled
  again late, it lets the wait of a later acquire pass early, and the server meets a
  command buffer in use (`vulkan_server_module.cpp:957` expects the client to prevent it;
  the server's own fence wait makes it harmless).
* After a graceful shutdown the status is CLOSED and the stream still open until the
  transport is destroyed (`transport_impl.cpp:244`; `transport_c_api.h:51` and `:163`
  say that it has been closed).
* `xrCreateSession` replaces the `VulkanLoader` (`vulkan_core.cpp:596`) to which the
  swapchains of another session keep a reference (`session_state.h:86`). The model leaves
  the loader out.
* `xrDestroySession` destroys the command pool before it tells the server
  (`vulkan_core.cpp:655`), so a retry after a failed message destroys it again.

`shared` runs handlers that shut down, and `failing` has no call from the peer:
with both a break of the connection and a handler that sends, the process can
terminate at any flush (the first item above), and every other property would end
there. `swapchain_threads` does not check for deadlock: with two threads the
reordering of the third item makes the two GPU queues wait for each
other (copy 1 is queued before copy 0, and its image's release batch is queued
behind an acquire that waits for copy 0).

### Bounds, and why they are enough

`MaxPeerCalls`, `MaxSpurious`, `MaxFrames` and `MaxFailures` bound the
environment, and scripts bound the users. Two users, the producer and the
consumer are all the roles there are: one user inside a call, one that waits for
the lock, and the consumer that must defer. Two peer calls make one message wait
behind another; a message of the peer before and after an answer covers both ways
a waiting call can meet it. Six frames on three images take every image around
the ring twice, so that the second acquire, the one that waits for the copy, is
followed by another. Two sessions and four creating calls (`MaxCalls`) put one
session's swapchains beside the destruction of the other, and let a swapchain's
handle be given out again; the application creates only while a handle is left
(`SessionLeft` and the guard of `CreateChain`). `lifecycle_failures` does not check
for deadlock, since a call whose handler threw waits for ever.

`rpc` needs one call for each function: calls do not influence one another except
through the order of the queues, for which two calls (`MaxCalls`) of four functions of
different kinds are enough, one answered and one rejected in either order. The same two
calls create and destroy an instance, destroy one twice, or destroy a wrong one first,
from either value of `saved_instance`. It does not
check for deadlock, since a call to a function that the server lacks waits for ever, and
an application need not call. In `connection` the second client connects before, during
or after the first one's run, whose instance is the first of `MaxInstances`; two events
of different names and one unknown event (`MaxEvents` at a time) put an unknown one
before and after a known one. In `clock` two rounds let either be the faster, and three
ticks (`MaxTime`) give round trips of 0 to 3 and a synchronization that becomes stale
again (`Interval` is 1); a second thread is all that can race, because the mutex orders
the others. Neither checks for deadlock: all clients may have left, and no thread need
call. The invariants proved with TLAPS need no bound.

### Fairness

`FairSpec` of `Transport` asks that a thread that can take a step eventually does
(an operating system schedules every runnable thread) and that the peer reads what
it is sent. It does not ask the peer to call or to shut down, the connection to
break, or a waiter to wake up spuriously. Weak fairness on a lock is enough: in
the fair runs the consumer gives the lock back and waits for its notification.
`FairSpec` of `Swapchain` asks for progress of a call in progress, of the server's
handler and of the GPUs. A timeout need not expire, and the application need not
make its next call. `FairSpec` of `VulkanLifecycle` asks for progress of the server's
handler, and, with strong fairness, of a call in progress: a thread that waits for the
message lock gets it although others take it in between, as fair mutexes give it.
`FairSpec` of `Rpc` asks that the consumer threads of both ends run and that a stub whose
answer has arrived or whose transport has closed goes on; nobody need call or close.
`FairSpec` of `Connection` asks that both programs run, and that an application that is
up ends some day: the server serves one client at a time, so a client that stays for ever
keeps the others waiting. An application may stop at any earlier point only by ending.
`FairSpec` of `ClockSync` asks that the server answers and that a thread inside a stub
goes on when it can; the mutex is not assumed fair, and time need not pass.

## Proofs

`TransportProofs` (any set of users, any scripts, any bounds):

* `TypeCorrect`: `TypeOK` is invariant. It is inductive as it stands. Lemmas on
  stacks (pushing, popping and moving the top frame, unwinding in `Throw`) carry
  the proof through the actions, one step for each.
* `NoWakeupIsLost`: `NoLostWakeup` is invariant, with `TypeOK` its own inductive
  strengthening. The argument is one of leaf mutexes: a waiter enters a wait set
  only in a step that has seen the queue empty and the transport not closed (or
  `num_waiting` positive), and every step that falsifies one of these empties
  the wait set.
* `OnlyShutdownReopens`: `NoWaitAfterClosed` holds of every behaviour in which no
  `shutdown()` stores its status over CLOSED (`Reopens`). It says that the blind store,
  which the run `shutdown_race` shows, is the only cause there is; a program that only
  closes, or whose peer shuts down, never meets it.

`TransportOrderProofs` (any users, scripts, handlers and peers, no further hypothesis):

* `MutexIsExclusive`: at most one thread holds the message mutex, and each stack is
  `Disciplined`: the depths at which calls began do not decrease towards the top, a call
  that relies on the mutex (`Owners`) has it now, or will have it when the calls above it
  have returned. The depth alone (`held`) is not enough: an exception unwinds several
  calls at once, and what it restores is the depth recorded in a frame further down.
* `DispatchesInOrder`: `DispatchedInOrder` is invariant, from `LockInv` and `OrderInv`:
  what arrived is what was dispatched, then the one message that a thread has taken from
  the queue and not yet dispatched, then the queue. There is at most one such message
  because the thread that took it holds the message mutex, although it no longer holds
  `queue_mutex`.

`TransportAnswerProofs` (any users, scripts, handlers and peers within the hypothesis that
each theorem states):

* `AnswersArriveHome`: `AnswersReachTheirCallers` is invariant if handlers do not
  themselves call or await (`CalmHandlers`). None that the repository registers does
  (`server.cpp`, `vulkan_server_module.cpp`, `server_handle_exchange_linux.cpp`): they
  answer, send, register or shut down. The hypothesis is needed: a handler that runs
  inside the await of a call and calls in turn would take the answer of the outer call,
  because FUNCTION_RETURN carries no id.
* The inductive invariant has three parts. `ShapeInv`: above a waiting call there is only
  its await and what handlers do without waiting. `PipeInv`: at most one call or answer
  is on its way (to the peer, back, in the producer's hand, in the queue, or taken and not
  yet dispatched), it is the last one sent, and somebody waits for it unless nothing is
  sent any more. `CallInv`: a waiting call is the last one sent and its answer was not
  dropped; a finished one was answered. `LockInv` gives that only one call waits.
* `GracefulUseIsSafe` (`NeverTerminated`), for the use that `GracefulUse(o)` describes: one
  user `o` starts the transport and shuts it down before it closes or destroys it, and
  sends as it likes in between; the other users await, handle and register; handlers do
  anything but shut down and close; the peer does not shut down first and the connection
  lasts. Then no flush fails and no exception leaves `consumer_loop`, whatever the number
  of users, the scripts and the interleaving. The instance of the run `graceful` is of
  this kind. No part of the hypothesis can go: the flush of a thread that passed the test
  of `start_message` terminates the process when the connection breaks, when the consumer
  answers a shutdown of the peer, when `o` closes without a shutdown, when a second user
  sends while `o` shuts down, and when a handler shuts down or closes while `o` sends (TLC
  finds each of these with one or two users and scripts of a few operations).
* Its inductive invariant is `GracefulInv(o)`. `Live` is the heart of it: whoever is past
  the test of the status finds the transport OPEN when it flushes. The test is made before
  the lock is taken, so `Live` needs to know that no status change can fall in between.
  `shutdown()` stores its status under the message mutex, and everyone else sends from
  handlers, which hold that mutex from below (`Shape`: a handler further down the stack,
  with a base above 0), so nobody else is between the test and the flush then
  (`NobodyElseSpeaks`). A SHUTDOWN from the peer is always the answer to the one that `o`
  sent (`Rumour` and `Heard` imply `Told(o)`: it has been marked, or is just being), so it
  is met with the status WRITE_CLOSED and never acknowledged. `Plan` follows what `o`
  still has to do, because only the order of its script keeps `close()` after `shutdown()`.
* `GracefulUseStaysClosed` (`NoWaitAfterClosed`), from the same invariant: there the blind
  store of `shutdown()` always finds the status OPEN. With `OnlyShutdownReopens` this
  settles the wait after the close for such programs without a further hypothesis.

`SwapchainProofs` (any number of images, threads and failures unless said otherwise):

* `TypeCorrect`: `TypeOK` is invariant; the bound `0 .. N` on `num_acquired` is
  part of it.
* `RingIsConsistent`: `HeadsAgree` is invariant. It is not inductive alone: a wait
  in progress must still find the heads as it left them. The inductive invariant
  `RingInv` adds that a thread inside `wait` is the only one and that the image it
  waits for is acquired and not yet waited for, which is what the mutex guarantees.
* `SemaphoresAreSound` (`SemaphoresFollowUse`) and `TurnsAreKept` (`ImagesAlternate`).
  The inductive invariant `GpuInv` adds to the semaphores what the client's queue holds
  for each image: its batches alternate between acquire and release and begin with the
  one that the image's phase calls for (`InTurn`), and an image not yet marked as acquired
  has none (`Unmarked`). No failure and no reordering of requests breaks it.
* `ReleaseFollowsWait` (`WaitsBeforeRelease`) for two images or more: while the two heads
  differ, the oldest image was waited for. With one image the heads are always equal and
  the property is false (see Runs).
* `WaitsAreForReleased` (`WaitsOnlyForReleased`) if no call fails (`MaxFailures = 0`): a
  marked image is acquired or was released. After a failed first acquire it is false.
* `CopiesFollowReleases` (`ReleasesLineUp`) for one thread and no failure: `LineUp` says,
  for each place where the thread can stand, whether the last release is still due and
  where its request is. With two threads, or a failed request, it is false.

`ConnectionProofs` (any number of clients of any builds, any instances and events):

* `TypeCorrect`, `HandshakeIsSound` (`HandshakeAgrees`), `SlateIsClean` (`CleanSlate`) and
  `HeldInstanceIsLive` (`HeldIsLive`). The inductive invariant `CInv` gives, for each place
  at which a client can stand (`Progress`), what is on each of its streams and where the
  server stands with it, and says that the runtime has at most the one instance that the
  server has saved (`OneInstance`). A client may quit at any point, so each place has its
  variant in which the other side is gone; `Ran` gives those in which the server has
  terminated. That it terminates only in the answer to a client that has quit (`Deserted`)
  is what `SlateIsClean` adds: no other step leaves an instance behind.
* `EventsArriveInOrder` (`EventsInOrder`), for sequences of events of any length. The
  inductive invariant `EInv` balances the account (`Balanced`): the events that the
  application has got, the one in the answer under way (`InFlight`), and the known ones
  that wait in the runtime are the known ones that were raised. `Deliverable` drops the
  unknown events and is defined by recursion over the sequence. That it distributes over
  appending, and over the prefix of unknown events that the loop of the handler skips, is
  shown by taking the least index at which it would not (`LeastNat`, from the
  well-foundedness of the naturals), in place of an induction theorem.
* `NullHandleSuffices` (`DestroysOnlyInstances`) if the only value of an uninitialised
  `saved_instance` is XR_NULL_HANDLE: neither the handler of `xrDestroyInstance` nor the
  end of `run()` gives the runtime a handle that is not live. So the missing initialiser is
  the whole cause of the violation in `connection_garbage`.

`VulkanLifecycleProofs` (any threads, sessions, swapchains and calls):

* `TypeCorrect` and `ChainsExist` (`ClientChainsExist`) without a hypothesis, with every
  failure, every usage and the server's undefined loop. `Protocol` says which request or
  answer may be under way while a call stands where it does, and that one call at a time
  waits for the server; `SessionInv`, that a thread that destroys a session is the only one
  that uses it; `ChainInv`, that a swapchain which somebody is destroying is no longer in
  the client's table when the server is told.
* `PoolsAreLive` (`PoolIsLive`) if the runtime does not reuse session handles, from
  `PoolInv`: where the pool of a session stands, from the creation to the last message.
* `ImagesAreOwn` (`ImportsOwnImages`), `TablesAgreeAtRest` (`TablesAgree`) and
  `LoopKeepsItsPlace` (`LoopIsDefined`), if nothing fails and the usage is colour or
  depth: `CleanInv` adds that the handle exchange is empty unless a creation is between
  the server's answer and the import, and then holds that swapchain's images, and that
  the two tables differ only in the swapchain that a call holds. Each hypothesis is
  needed: the list under Runs has the behaviours without it.

`RpcProofs` (any tables, any applications and servers, any number of calls):

* `TypeCorrect`, `OwnAnswers` (`AnswersAreOwn`) and `TruncatedIsSafe`
  (`TruncatedNeverRuns`) are invariants, and `Refinement` shows that `Rpc` implements
  `RemoteCall`: each step is a step of the abstract call or a stutter.
* The inductive invariant `RInv` says where the message of a call is. Messages are taken
  in order (`OrderInv`: the answers on their way precede the handler's call, which
  precedes the requests on their way); each call is in one place only, and has run once
  behind the handler's `ran` and not before it, nor behind its refusal (`RequestsInv`,
  `ServerInv`, `RepliesInv`); while the connection is up the answers belong to the call that waits
  (`UpInv`). Without `OrderInv` the absence of an id in FUNCTION_RETURN could not be
  shown harmless.
* `OutputsArrive` (`CallersGetTheOutputs`), `FailuresAreNamed` (`OrdinaryCallsSucceed`) and
  `ResultsLoseNothing` (`OnlyFailuresLeak`) reduce what a sequence of calls does to what
  the rows say: if each stub fits its handler (`RowsFit`), then no order of calls, no
  rejected or cut-off request and no closing of the connection changes the outcome. The
  inductive invariant `EndInv` says that a message under way was made by the rows of its
  call, and that a call under way has no result and, if it may still get one, has lost no
  memory. `RowsFit` speaks of one row at a time, without state; the applications with a
  single call in the run `rpc` go through all the rows and check just that, and TLC also
  finds it true evaluated as it stands.
* The one assumption about data is `HandlersAssumption`: a handler that reads a request
  to its end has been sent all of it and reads the caller's arguments, and one that
  compares an instance is sent requests that name one. It is not an axiom
  about the code: TLC evaluates it, in the run `rpc`, on every row of the two tables.

`ClockSyncProofs` (any number of threads and rounds, any difference of the clocks):

* `TypeCorrect`, `Accuracy` (`OffsetAccurate`) and `SkippingIsSafe` (`SkipsForNewer`) are
  invariants. The inductive invariant `IInv` adds that only the holder of the mutex is
  between a request and the store of `last_sync` (`MutexInv`), that an answer on the wire
  was read off the server's clock during the current round (`WireInv`), and that the kept
  round bounds the error by its own round trip, which is no longer than any seen so far
  (`RoundInv`).

The assumptions are those the modules name: users are not workers, scripts consist
of operations, bounds are natural numbers, there is at least one image and
one client, an uninitialised handle may be null and is no instance, and no event is both
known and unknown to the server's build. Hypotheses beyond these are in
the theorems themselves, and are listed above with what goes wrong without them.

Only model-checked:

* every liveness property (`EveryThreadEnds`, `ClosingEndsEveryThread`,
  `EveryCallReturns`, `CallsEnd`, `EveryoneIsServed`, `MutexReleased`), out of the
  prover's reach;
* that the rows of the two tables agree (`HandlersAssumption`, `RowsFit`): finitely many
  rows, which TLC goes through completely.

## Not modelled

* The member-by-member code of `serializer.cpp` and `deserializer.cpp` and the size
  table: some five hundred structures, each a straight sequence of the primitives that
  `WireFields` models. A structure is one field here.
* The module loaders and the configuration, which run once in sequence; the function
  table and the lists of extensions of the client; the time conversions it implements.
* The choice of Vulkan instances and devices: calls of two loaders in sequence.
* The vendored gfxstream code, and the code generator, which runs at build time (its
  output is what is modelled).
* Data races on containers (`swapchain_states`, `session_states` are maps without a
  lock): a race on a map is undefined at once, and an exploration of its outcomes would
  show nothing more.

Each is listed in `PROJECT.json` with its reason.

## Plan

Done: `Transport`, `Swapchain`, `VulkanLifecycle`, `Rpc` with its tables and its
refinement, `Connection`, `ClockSync`, and for each the invariants that the runs check,
proved where the prover reaches. Next:

1. The rules of `Transport` composed with `Rpc`, so that the single open call and the
   order of the queues, which `Rpc` takes from it, follow from a refinement.
2. Graceful use of a server's endpoint, where it is the peer that shuts down: a condition
   on both endpoints at once, so that nobody sends when the SHUTDOWN arrives.
3. The client's function table and its modules' layers.
