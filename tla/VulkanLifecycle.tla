--------------------------- MODULE VulkanLifecycle ---------------------------
(***************************************************************************)
(* Vulkan sessions and swapchains from creation to destruction: the tables *)
(* of the client module and of the server module, the objects of the real  *)
(* runtime, and the handle exchange, a socket beside the transport through *)
(* which the server passes the images of a new swapchain to the client.    *)
(*                                                                         *)
(* A call of the client holds the transport's message lock from its        *)
(* request to its end, so one request is under way at a time.  A handler   *)
(* of the server is one step.  A handler that throws sends no answer.      *)
(* Applications synchronize the destruction of a session with every other  *)
(* use of it, as OpenXR demands.                                           *)
(***************************************************************************)
EXTENDS Integers, Sequences

CONSTANTS
  Apps,           \* application threads
  Sessions,       \* XrSession handles the runtime can return
  Chains,         \* XrSwapchain handles the runtime can return
  None,           \* no handle
  N,              \* images of a swapchain
  Usages,         \* usage flags the application asks for
  ReusesHandles,  \* does the runtime return the handle of a destroyed session again?
  MayClose,       \* may the transport close?
  MaxCalls,       \* bound: calls of the application that create something
  MaxFailures     \* bound: calls of Vulkan or of the runtime that fail

ASSUME HandlesAssumption == None \notin Sessions \cup Chains
ASSUME ImagesAssumption == N \in Nat \ {0}
ASSUME UsagesAssumption == Usages \subseteq {"color", "depth", "both", "neither"}
ASSUME BoundsAssumption ==
  /\ ReusesHandles \in BOOLEAN /\ MayClose \in BOOLEAN
  /\ MaxCalls \in Nat /\ MaxFailures \in Nat

VARIABLES
  app,              \* [Apps -> call in progress]
  open_sessions,    \* sessions the application holds
  command_pool,     \* [Sessions -> state of the pool in the client's SessionState]
  client_chains,    \* [Chains -> parent session in the client's table, or None]
  imported,         \* [Chains -> swapchains whose images the client imported]
  request, reply,   \* the message on its way to the server, to the client
  exchange,         \* images in the handle exchange, by the swapchain they belong to
  up,               \* is the transport open?
  server_sessions,  \* the server's table of sessions, which no session leaves
  server_chains,    \* [Chains -> parent session in the server's table, or None]
  runtime_sessions, runtime_chains,  \* what exists in the real runtime
  undefined,        \* has the server iterated over a set while erasing from it?
  calls, failures   \* counters of the bounds

client == <<open_sessions, command_pool, client_chains, imported>>
tables == <<server_sessions, server_chains, runtime_sessions, runtime_chains, undefined>>
vars == <<app, client, request, reply, exchange, up, tables, calls, failures>>

\* No state is kept for a session that is not in the client's table.
PoolStates == {"none", "live", "destroyed"}

\* at: where the call stands.  todo: swapchains that xrDestroySession still destroys.
\* whole: is a destroyed swapchain part of the destruction of its session?
Call(l, s, c, u) == [at |-> l, session |-> s, chain |-> c, usage |-> u, todo |-> {},
                     whole |-> FALSE]
Calls(labels, sessions, chains) ==
  [at : labels, session : sessions, chain : chains, todo : SUBSET Chains, whole : BOOLEAN,
   usage : {"color", "depth", "both", "neither"}]
AppCalls ==
  Calls({"idle", "create_session"}, {None}, {None}) \cup
  Calls({"create_chain", "destroy_session", "session_send", "session_answer"},
        Sessions, {None}) \cup
  Calls({"import", "destroy_chain", "chain_answer"}, Sessions, Chains)
IdleCall == Call("idle", None, None, "color")

Message(o, s, c, u) == [op |-> o, session |-> s, chain |-> c, usage |-> u]
NoMessage == Message("none", None, None, "color")
Messages == [op : {"none", "create_session", "create_chain", "destroy_chain",
                   "destroy_session", "ok", "error"},
             session : Sessions \cup {None}, chain : Chains \cup {None},
             usage : {"color", "depth", "both", "neither"}]

\* Calls that hold a MessageLockOut or a MessageLockIn.
UntilAnswered == {"create_session", "create_chain", "chain_answer",
                  "session_answer"}  \* mutant: the images are imported without the lock
Locking == {"create_session", "create_chain", "import", "chain_answer", "session_answer"}
\* start_message succeeds.
CanSend == up /\ \A a \in Apps : app[a].at \notin Locking
Idle(a) == app[a].at = "idle"
SetCall(a, call) == app' = [app EXCEPT ![a] = call]
MoveTo(a, l) == SetCall(a, [app[a] EXCEPT !.at = l])
Uses(a, s) == ~Idle(a) /\ app[a].session = s
Destroys(a, s) == Uses(a, s) /\ (app[a].at \in {"destroy_session", "session_send",
                                                "session_answer"} \/ app[a].whole)
Fails == failures < MaxFailures /\ failures' = failures + 1
NewCall == calls < MaxCalls /\ calls' = calls + 1
ChainsOf(table, s) == {c \in Chains : table[c] = s}
Answered(a, l) == app[a].at = l /\ reply.op # "none"

-----------------------------------------------------------------------------
(* The client                                                              *)

\* Bound: the runtime has a handle left for the session.
SessionLeft == (IF ReusesHandles THEN runtime_sessions ELSE server_sessions) # Sessions

CreateSession(a) ==
  /\ Idle(a) /\ NewCall /\ CanSend /\ SessionLeft
  /\ SetCall(a, Call("create_session", None, None, "color"))
  /\ request' = Message("create_session", None, None, "color")
  /\ UNCHANGED <<client, reply, exchange, up, tables, failures>>

\* Mutant: the new command pool is not stored.
StoresNothing(s) == UNCHANGED command_pool
\* A state that is already in the table under the same handle is kept (emplace).
StoreSession(s) ==
  command_pool' = IF command_pool[s] = "none" THEN [command_pool EXCEPT ![s] = "live"]
                                              ELSE command_pool

\* The answer arrives; the creation of the command pool may fail.
CreateSessionDone(a) ==
  /\ Answered(a, "create_session")
  /\ \/ /\ StoreSession(reply.session)
        /\ open_sessions' = open_sessions \cup {reply.session}
        /\ UNCHANGED failures
     \/ Fails /\ UNCHANGED <<open_sessions, command_pool>>
  /\ SetCall(a, IdleCall)
  /\ reply' = NoMessage
  /\ UNCHANGED <<client_chains, imported, request, exchange, up, tables, calls>>

CreateChain(a, s, u) ==
  /\ Idle(a) /\ NewCall /\ CanSend
  /\ s \in open_sessions /\ \A b \in Apps : ~Destroys(b, s)
  /\ Chains \ runtime_chains # {}  \* bound: the runtime has a handle left
  /\ SetCall(a, Call("create_chain", s, None, u))
  /\ request' = Message("create_chain", s, None, u)
  /\ UNCHANGED <<client, reply, exchange, up, tables, failures>>

\* Mutant: the result of the server is not looked at.
AcceptsAnything(a) == app[a].usage # "both"
\* The usage flags are validated after the server has created the swapchain.
Accepts(a) == reply.op = "ok" /\ app[a].usage # "both"

CreateChainReply(a) ==
  /\ Answered(a, "create_chain")
  /\ reply' = NoMessage
  /\ IF Accepts(a)
     THEN SetCall(a, [app[a] EXCEPT !.at = "import", !.chain = reply.chain])
     ELSE SetCall(a, IdleCall)
  /\ UNCHANGED <<client, request, exchange, up, tables, calls, failures>>

\* The exchange after k images have been read.
Unread(k) == SubSeq(exchange, k + 1, Len(exchange))

\* import_images reads as many images as the swapchain has; it may fail at any of them.
Import(a) ==
  LET c == app[a].chain IN
  /\ app[a].at = "import" /\ Len(exchange) >= N
  /\ \/ /\ exchange' = Unread(N)
        /\ imported' = [imported EXCEPT ![c] = {exchange[k] : k \in 1 .. N}]
        /\ client_chains' = [client_chains EXCEPT ![c] = app[a].session]
        /\ UNCHANGED failures
     \/ /\ Fails
        /\ \E k \in 1 .. N : exchange' = Unread(k)
        /\ UNCHANGED <<imported, client_chains>>
  /\ SetCall(a, IdleCall)
  /\ UNCHANGED <<open_sessions, command_pool, request, reply, up, tables, calls>>

\* Mutant: the swapchain stays in the client's table.
ForgetsNothing(c) == UNCHANGED <<client_chains, imported>>
\* xrDestroySwapchainImpl forgets the swapchain before it tells the server.
Forget(c) ==
  /\ client_chains' = [client_chains EXCEPT ![c] = None]
  /\ imported' = [imported EXCEPT ![c] = {}]

DestroyChain(a, c) ==
  LET s == client_chains[c] IN
  /\ Idle(a) /\ s # None /\ \A b \in Apps : ~Destroys(b, s)
  /\ Forget(c)
  /\ SetCall(a, Call("destroy_chain", s, c, "color"))
  /\ UNCHANGED <<open_sessions, command_pool, request, reply, exchange, up, tables,
                 calls, failures>>

\* xrDestroySwapchainImpl returns to the application or to xrDestroySessionImpl.
Back(a) == IF app[a].whole THEN [app[a] EXCEPT !.at = "destroy_session", !.whole = FALSE,
                                               !.chain = None]
                           ELSE IdleCall

DestroyChainSend(a) ==
  /\ app[a].at = "destroy_chain" /\ CanSend
  /\ MoveTo(a, "chain_answer")
  /\ request' = Message("destroy_chain", None, app[a].chain, "color")
  /\ UNCHANGED <<client, reply, exchange, up, tables, calls, failures>>

DestroyChainDone(a) ==
  /\ Answered(a, "chain_answer")
  /\ SetCall(a, Back(a))
  /\ reply' = NoMessage
  /\ UNCHANGED <<client, request, exchange, up, tables, calls, failures>>

\* xrDestroySessionImpl works on a copy of the session's swapchains.
DestroySession(a, s) ==
  /\ Idle(a) /\ s \in open_sessions /\ \A b \in Apps : ~Uses(b, s)
  /\ SetCall(a, [Call("destroy_session", s, None, "color")
                   EXCEPT !.todo = ChainsOf(client_chains, s)])
  /\ UNCHANGED <<client, request, reply, exchange, up, tables, calls, failures>>

\* Mutant: the swapchains are left to the server.
LeavesChains(a) == FALSE
DestroysChains(a) == app[a].todo # {}

DestroySessionChain(a) ==
  /\ app[a].at = "destroy_session" /\ DestroysChains(a)
  /\ \E c \in app[a].todo :
       /\ Forget(c)
       /\ SetCall(a, [app[a] EXCEPT !.at = "destroy_chain", !.chain = c, !.whole = TRUE,
                                    !.todo = @ \ {c}])
  /\ UNCHANGED <<open_sessions, command_pool, request, reply, exchange, up, tables,
                 calls, failures>>

DestroySessionPool(a) ==
  /\ app[a].at = "destroy_session" /\ ~DestroysChains(a)
  /\ command_pool' = [command_pool EXCEPT ![app[a].session] = "destroyed"]
  /\ MoveTo(a, "session_send")
  /\ UNCHANGED <<open_sessions, client_chains, imported, request, reply,
                 exchange, up, tables, calls, failures>>

DestroySessionSend(a) ==
  /\ app[a].at = "session_send" /\ CanSend
  /\ MoveTo(a, "session_answer")
  /\ request' = Message("destroy_session", app[a].session, None, "color")
  /\ UNCHANGED <<client, reply, exchange, up, tables, calls, failures>>

\* The client's SessionState stays in its table.
DestroySessionDone(a) ==
  /\ Answered(a, "session_answer")
  /\ open_sessions' = open_sessions \ {app[a].session}
  /\ SetCall(a, IdleCall)
  /\ reply' = NoMessage
  /\ UNCHANGED <<command_pool, client_chains, imported, request, exchange,
                 up, tables, calls, failures>>

\* start_message or await_message throws on a closed transport.
Throws(a) ==
  /\ ~up
  /\ \/ /\ app[a].at \in {"create_session", "create_chain", "session_send", "session_answer"}
        /\ SetCall(a, IdleCall)
     \/ app[a].at \in {"destroy_chain", "chain_answer"} /\ SetCall(a, Back(a))
  /\ reply' = IF app[a].at \in Locking THEN NoMessage ELSE reply
  /\ UNCHANGED <<client, request, exchange, up, tables, calls, failures>>

-----------------------------------------------------------------------------
(* The server                                                              *)

\* The handler takes the request and answers, or ends without an answer.
Replies(m) == request' = NoMessage /\ reply' = IF up THEN m ELSE reply
NoReply == request' = NoMessage /\ UNCHANGED reply

ServerCreateSession ==
  /\ request.op = "create_session"
  /\ \/ \E s \in Sessions \ runtime_sessions :
          /\ ReusesHandles \/ s \notin server_sessions
          /\ runtime_sessions' = runtime_sessions \cup {s}
          /\ server_sessions' = server_sessions \cup {s}
          /\ Replies(Message("ok", s, None, "color"))
          /\ UNCHANGED failures
     \/ /\ Fails /\ NoReply
        /\ UNCHANGED <<runtime_sessions, server_sessions>>
  /\ UNCHANGED <<app, client, exchange, up, server_chains, runtime_chains, undefined, calls>>

Images(c, k) == [i \in 1 .. k |-> c]

\* The runtime refuses; or the swapchain is created, stored, its images written to the
\* handle exchange and the answer sent.  An exception after the runtime's swapchain was
\* created, because of the usage flags or of a failure, leaves no answer.
ServerCreateChain ==
  LET s == request.session IN
  /\ request.op = "create_chain"
  /\ \/ /\ Fails /\ Replies(Message("error", s, None, "color"))
        /\ UNCHANGED <<runtime_chains, server_chains, exchange>>
     \/ \E c \in Chains \ runtime_chains :
          /\ runtime_chains' = runtime_chains \cup {c}
          /\ \/ /\ request.usage # "neither"
                /\ server_chains' = [server_chains EXCEPT ![c] = s]
                /\ exchange' = exchange \o Images(c, N)
                /\ Replies(Message("ok", s, c, "color"))
                /\ UNCHANGED failures
             \/ /\ request.usage = "neither"
                /\ NoReply
                /\ UNCHANGED <<server_chains, exchange, failures>>
             \/ /\ request.usage # "neither"
                /\ Fails /\ NoReply
                /\ \/ UNCHANGED <<server_chains, exchange>>
                   \/ \E k \in 0 .. N - 1 :
                        /\ server_chains' = [server_chains EXCEPT ![c] = s]
                        /\ exchange' = exchange \o Images(c, k)
  /\ UNCHANGED <<app, client, up, server_sessions, runtime_sessions, undefined, calls>>

\* The handler throws when the swapchain is not in its table.
ServerDestroyChain ==
  LET c == request.chain IN
  /\ request.op = "destroy_chain"
  /\ server_chains' = [server_chains EXCEPT ![c] = None]
  /\ IF server_chains[c] # None
     THEN runtime_chains' = runtime_chains \ {c} /\ Replies(Message("ok", None, c, "color"))
     ELSE NoReply /\ UNCHANGED runtime_chains
  /\ UNCHANGED <<app, client, exchange, up, server_sessions, runtime_sessions, undefined, calls,
                 failures>>

\* Swapchains that are left are erased from the set that the loop iterates over, which
\* has no defined result: any of them may be destroyed, and the server may end there.
\* The SessionState stays in the server's table.
ServerDestroySession ==
  LET s == request.session
      left == ChainsOf(server_chains, s)
  IN
  /\ request.op = "destroy_session"
  /\ \E gone \in SUBSET left :
       /\ left # {} => gone # {}
       /\ server_chains' = [c \in Chains |-> IF c \in gone THEN None ELSE server_chains[c]]
       /\ runtime_chains' = runtime_chains \ gone
  /\ undefined' = (undefined \/ left # {})
  /\ \/ /\ runtime_sessions' = runtime_sessions \ {s}
        /\ Replies(Message("ok", s, None, "color"))
     \/ left # {} /\ NoReply /\ UNCHANGED runtime_sessions
  /\ UNCHANGED <<app, client, exchange, up, server_sessions, calls, failures>>

TransportCloses ==
  /\ MayClose /\ up
  /\ up' = FALSE
  /\ UNCHANGED <<app, client, request, reply, exchange, tables, calls, failures>>

-----------------------------------------------------------------------------
Init ==
  /\ app = [a \in Apps |-> IdleCall]
  /\ open_sessions = {} /\ command_pool = [s \in Sessions |-> "none"]
  /\ client_chains = [c \in Chains |-> None] /\ imported = [c \in Chains |-> {}]
  /\ request = NoMessage /\ reply = NoMessage /\ exchange = <<>> /\ up = TRUE
  /\ server_sessions = {} /\ server_chains = [c \in Chains |-> None]
  /\ runtime_sessions = {} /\ runtime_chains = {}
  /\ undefined = FALSE /\ calls = 0 /\ failures = 0

\* Steps of a call in progress.
Proceeds(a) ==
  \/ CreateSessionDone(a) \/ CreateChainReply(a) \/ Import(a)
  \/ DestroyChainSend(a) \/ DestroyChainDone(a)
  \/ DestroySessionChain(a) \/ DestroySessionPool(a)
  \/ DestroySessionSend(a) \/ DestroySessionDone(a) \/ Throws(a)

Begins(a) ==
  \/ CreateSession(a)
  \/ \E s \in Sessions : DestroySession(a, s) \/ \E u \in Usages : CreateChain(a, s, u)
  \/ \E c \in Chains : DestroyChain(a, c)

Server == ServerCreateSession \/ ServerCreateChain \/ ServerDestroyChain \/ ServerDestroySession

\* The application makes no further call.
Finished == (\A a \in Apps : Idle(a)) /\ UNCHANGED vars

Next == (\E a \in Apps : Proceeds(a) \/ Begins(a)) \/ Server \/ TransportCloses \/ Finished

Spec == Init /\ [][Next]_vars

\* A call in progress and the server's handler go on; a thread that asks for the message
\* lock again and again gets it.
FairSpec == Spec /\ (\A a \in Apps : SF_vars(Proceeds(a))) /\ WF_vars(Server)

-----------------------------------------------------------------------------
(* Properties                                                              *)

TypeOK ==
  /\ app \in [Apps -> AppCalls]
  /\ open_sessions \subseteq Sessions /\ command_pool \in [Sessions -> PoolStates]
  /\ client_chains \in [Chains -> Sessions \cup {None}]
  /\ imported \in [Chains -> SUBSET Chains]
  /\ request \in Messages /\ reply \in Messages /\ exchange \in Seq(Chains) /\ up \in BOOLEAN
  /\ server_sessions \subseteq Sessions /\ server_chains \in [Chains -> Sessions \cup {None}]
  /\ runtime_sessions \subseteq Sessions /\ runtime_chains \subseteq Chains
  /\ undefined \in BOOLEAN
  /\ calls \in Nat /\ failures \in Nat

\* A swapchain that the client knows exists on the server, under the same session and in
\* the runtime, at every moment of every call and after any failure: the client creates
\* after the server and forgets before it.
ClientChainsExist ==
  \A c \in Chains : client_chains[c] # None =>
    server_chains[c] = client_chains[c] /\ c \in runtime_chains

\* The images of a swapchain that the client imported are those the server made for it,
\* although the handle exchange does not say whose an image is.
ImportsOwnImages == \A c \in Chains : client_chains[c] # None => imported[c] = {c}

\* While no call is in progress both tables hold the same swapchains and the handle
\* exchange is empty.
TablesAgree ==
  up /\ (\A a \in Apps : Idle(a)) => client_chains = server_chains /\ exchange = <<>>

\* Destroying a session destroys the swapchains left on the server; the loop that does it
\* never loses its place in the set.
LoopIsDefined == ~undefined

\* The command buffers of a new swapchain come from the pool created for its session.
PoolIsLive ==
  [][\A c \in Chains : client_chains[c] = None /\ client_chains'[c] # None =>
       command_pool[client_chains'[c]] = "live"]_vars

\* Every call returns: no handler leaves the client without an answer or without the
\* images that the answer announces.
EveryCallReturns == \A a \in Apps : ~Idle(a) ~> Idle(a)

=============================================================================
