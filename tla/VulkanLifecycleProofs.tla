------------------------ MODULE VulkanLifecycleProofs ------------------------
(***************************************************************************)
(* Proofs about VulkanLifecycle, for any number of threads, sessions,      *)
(* swapchains and images, and any bounds.                                  *)
(***************************************************************************)
EXTENDS VulkanLifecycle, SequenceTheorems, TLAPS

-----------------------------------------------------------------------------
(* Calls in progress                                                       *)

\* What a call in progress is made of.
LEMMA CallFields ==
  ASSUME NEW x \in AppCalls
  PROVE  /\ x.at \in {"idle", "create_session", "create_chain", "destroy_session",
                      "session_send", "session_answer", "import", "destroy_chain",
                      "chain_answer"}
         /\ x.at \in {"idle", "create_session"} => x.session = None /\ x.chain = None
         /\ x.at \in {"create_chain", "destroy_session", "session_send", "session_answer"} =>
              x.session \in Sessions /\ x.chain = None
         /\ x.at \in {"import", "destroy_chain", "chain_answer"} =>
              x.session \in Sessions /\ x.chain \in Chains
         /\ x.todo \subseteq Chains /\ x.whole \in BOOLEAN
         /\ x.usage \in {"color", "depth", "both", "neither"}
BY DEF AppCalls, Calls

\* A call made of its parts.
Record(l, s, c, u, td, w) ==
  [at |-> l, session |-> s, chain |-> c, usage |-> u, todo |-> td, whole |-> w]

\* Which parts make a call.
LEMMA RecordType ==
  ASSUME NEW l, NEW s, NEW c, NEW td \in SUBSET Chains, NEW w \in BOOLEAN,
         NEW u \in {"color", "depth", "both", "neither"},
         \/ l \in {"idle", "create_session"} /\ s = None /\ c = None
         \/ /\ l \in {"create_chain", "destroy_session", "session_send", "session_answer"}
            /\ s \in Sessions /\ c = None
         \/ l \in {"import", "destroy_chain", "chain_answer"} /\ s \in Sessions /\ c \in Chains
  PROVE  Record(l, s, c, u, td, w) \in AppCalls
BY DEF Record, AppCalls, Calls

\* The call of thread a, and no other, becomes one with these parts.
Becomes(a, l, s, c, u, td, w) ==
  /\ app' \in [Apps -> AppCalls]
  /\ app'[a].at = l /\ app'[a].session = s /\ app'[a].chain = c /\ app'[a].usage = u
  /\ app'[a].todo = td /\ app'[a].whole = w
  /\ \A b \in Apps : b # a => app'[b] = app[b]

\* A step of a thread that stores a call.
LEMMA StepBecomes ==
  ASSUME NEW a \in Apps, app \in [Apps -> AppCalls],
         NEW l, NEW s, NEW c, NEW td \in SUBSET Chains, NEW w \in BOOLEAN,
         NEW u \in {"color", "depth", "both", "neither"},
         \/ l \in {"idle", "create_session"} /\ s = None /\ c = None
         \/ /\ l \in {"create_chain", "destroy_session", "session_send", "session_answer"}
            /\ s \in Sessions /\ c = None
         \/ l \in {"import", "destroy_chain", "chain_answer"} /\ s \in Sessions /\ c \in Chains,
         app' = [app EXCEPT ![a] = Record(l, s, c, u, td, w)]
  PROVE  Becomes(a, l, s, c, u, td, w)
<1>1. Record(l, s, c, u, td, w) \in AppCalls
  BY RecordType
<1>2. app'[a] = Record(l, s, c, u, td, w)
  OBVIOUS
<1>3. app' \in [Apps -> AppCalls] /\ \A b \in Apps : b # a => app'[b] = app[b]
  BY <1>1
<1>4. QED
  BY <1>2, <1>3 DEF Becomes, Record

\* A call with some parts replaced.
LEMMA Replaced ==
  ASSUME NEW x \in AppCalls, NEW l, NEW c
  PROVE  /\ [x EXCEPT !.at = l] = Record(l, x.session, x.chain, x.usage, x.todo, x.whole)
         /\ [x EXCEPT !.at = l, !.chain = c] = Record(l, x.session, c, x.usage, x.todo, x.whole)
<1>1. PICK t, s, k, u, d, v : x = Record(t, s, k, u, d, v)
  BY DEF AppCalls, Calls, Record
<1>2. PICK y : y = [x EXCEPT !.at = l]
  OBVIOUS
<1>3. y = Record(l, s, k, u, d, v)
  BY <1>1, <1>2 DEF Record
<1>4. PICK z : z = [y EXCEPT !.chain = c]
  OBVIOUS
<1>5. z = Record(l, s, c, u, d, v)
  BY <1>3, <1>4 DEF Record
<1>6. [x EXCEPT !.at = l, !.chain = c] = z
  BY <1>2, <1>4, Zenon
<1>7. x.at = t /\ x.session = s /\ x.chain = k /\ x.usage = u /\ x.todo = d /\ x.whole = v
  BY <1>1 DEF Record
<1>8. QED
  BY <1>2, <1>3, <1>5, <1>6, <1>7

\* The call of thread a ends.
Ends(a) == Becomes(a, "idle", None, None, "color", {}, FALSE)
\* xrDestroySwapchainImpl of thread a returns.
Returns(a) ==
  IF app[a].whole
  THEN Becomes(a, "destroy_session", app[a].session, None, app[a].usage, app[a].todo, FALSE)
  ELSE Ends(a)

\* A thread that stores IdleCall or Back.
LEMMA EndsOrReturns ==
  ASSUME TypeOK, NEW a \in Apps
  PROVE  /\ SetCall(a, IdleCall) => Ends(a)
         /\ app[a].at \in {"destroy_chain", "chain_answer"} /\ SetCall(a, Back(a)) => Returns(a)
<1>1. app \in [Apps -> AppCalls] /\ app[a] \in AppCalls
  BY DEF TypeOK
<1>2. IdleCall = Record("idle", None, None, "color", {}, FALSE)
  BY DEF IdleCall, Call, Record
<1>3. SetCall(a, IdleCall) => Ends(a)
  BY <1>1, <1>2, StepBecomes DEF SetCall, Ends
<1>4. ASSUME app[a].at \in {"destroy_chain", "chain_answer"}, SetCall(a, Back(a)), app[a].whole
      PROVE  Returns(a)
  <2>1. Back(a) = Record("destroy_session", app[a].session, None, app[a].usage, app[a].todo, FALSE)
    <3>1. PICK x, w : x = app[a] /\ w = FALSE
      OBVIOUS
    <3>2. PICK t, s, k, u, d, v : x = Record(t, s, k, u, d, v)
      BY <1>1, <3>1 DEF AppCalls, Calls, Record
    <3>3. PICK y : y = [x EXCEPT !.at = "destroy_session"]
      OBVIOUS
    <3>4. y = Record("destroy_session", s, k, u, d, v)
      BY <3>2, <3>3 DEF Record
    <3>5. PICK z : z = [y EXCEPT !.whole = w]
      OBVIOUS
    <3>6. z = Record("destroy_session", s, k, u, d, w)
      BY <3>4, <3>5 DEF Record
    <3>7. [z EXCEPT !.chain = None] = Record("destroy_session", s, None, u, d, w)
      BY <3>6 DEF Record
    <3>8. [x EXCEPT !.at = "destroy_session", !.whole = w, !.chain = None] = [z EXCEPT !.chain = None]
      BY <3>3, <3>5, Zenon
    <3>9. Back(a) = [x EXCEPT !.at = "destroy_session", !.whole = w, !.chain = None]
      BY <1>4, <3>1 DEF Back
    <3>10. x.session = s /\ x.usage = u /\ x.todo = d
      BY <3>2 DEF Record
    <3>11. QED
      BY <3>1, <3>7, <3>8, <3>9, <3>10
  <2>2. /\ app[a].session \in Sessions /\ app[a].todo \in SUBSET Chains
        /\ app[a].usage \in {"color", "depth", "both", "neither"}
    BY <1>1, <1>4, CallFields
  <2>3. QED
    BY <1>1, <1>4, <2>1, <2>2, StepBecomes DEF SetCall, Returns
<1>5. QED
  BY <1>3, <1>4 DEF Back, Returns

\* The calls that start something.
LEMMA BeginMoves ==
  ASSUME TypeOK, NEW a \in Apps
  PROVE  /\ CreateSession(a) => Becomes(a, "create_session", None, None, "color", {}, FALSE)
         /\ \A s \in Sessions : \A u \in Usages :
              CreateChain(a, s, u) => Becomes(a, "create_chain", s, None, u, {}, FALSE)
         /\ \A c \in Chains : DestroyChain(a, c) =>
              Becomes(a, "destroy_chain", client_chains[c], c, "color", {}, FALSE)
         /\ \A s \in Sessions : DestroySession(a, s) =>
              Becomes(a, "destroy_session", s, None, "color", ChainsOf(client_chains, s), FALSE)
<1>1. app \in [Apps -> AppCalls] /\ app[a] \in AppCalls
  BY DEF TypeOK
<1>2. \A l, s, c, u : Call(l, s, c, u) = Record(l, s, c, u, {}, FALSE)
  BY DEF Call, Record
<1>3. CreateSession(a) => Becomes(a, "create_session", None, None, "color", {}, FALSE)
  <2> SUFFICES ASSUME CreateSession(a)
               PROVE  Becomes(a, "create_session", None, None, "color", {}, FALSE)
    OBVIOUS
  <2>1. app' = [app EXCEPT ![a] = Record("create_session", None, None, "color", {}, FALSE)]
    BY <1>2 DEF CreateSession, SetCall
  <2>2. QED
    BY <1>1, <2>1, StepBecomes
<1>4. ASSUME NEW s \in Sessions, NEW u \in Usages, CreateChain(a, s, u)
      PROVE  Becomes(a, "create_chain", s, None, u, {}, FALSE)
  <2>1. app' = [app EXCEPT ![a] = Record("create_chain", s, None, u, {}, FALSE)]
    BY <1>2, <1>4 DEF CreateChain, SetCall
  <2>2. u \in {"color", "depth", "both", "neither"}
    BY UsagesAssumption
  <2>3. QED
    BY <1>1, <2>1, <2>2, StepBecomes
<1>5. ASSUME NEW c \in Chains, DestroyChain(a, c)
      PROVE  Becomes(a, "destroy_chain", client_chains[c], c, "color", {}, FALSE)
  <2>1. app' = [app EXCEPT ![a] = Record("destroy_chain", client_chains[c], c, "color", {}, FALSE)]
    BY <1>2, <1>5 DEF DestroyChain, SetCall
  <2>2. client_chains[c] \in Sessions
    BY <1>5 DEF DestroyChain, TypeOK
  <2>3. QED
    BY <1>1, <2>1, <2>2, StepBecomes
<1>6. ASSUME NEW s \in Sessions, DestroySession(a, s)
      PROVE  Becomes(a, "destroy_session", s, None, "color", ChainsOf(client_chains, s), FALSE)
  <2>1. PICK x, td : x = Call("destroy_session", s, None, "color") /\ td = ChainsOf(client_chains, s)
    OBVIOUS
  <2>2. app' = [app EXCEPT ![a] = Record("destroy_session", s, None, "color", td, FALSE)]
    <3>1. app' = [app EXCEPT ![a] = [x EXCEPT !.todo = td]]
      BY <1>6, <2>1 DEF DestroySession, SetCall
    <3>2. PICK l, u, d, w : l = "destroy_session" /\ u = "color" /\ d = {} /\ w = FALSE
      OBVIOUS
    <3>3. x = Record(l, s, None, u, d, w)
      BY <2>1, <3>2 DEF Call, Record
    <3>4. [x EXCEPT !.todo = td] = Record(l, s, None, u, td, w)
      BY <3>3 DEF Record
    <3>5. QED
      BY <3>1, <3>2, <3>4
  <2>3. td \in SUBSET Chains
    BY <2>1 DEF ChainsOf
  <2>4. QED
    BY <1>1, <2>1, <2>2, <2>3, StepBecomes
<1>7. QED
  BY <1>3, <1>4, <1>5, <1>6

\* The calls that go on.
LEMMA ProceedMoves ==
  ASSUME TypeOK, NEW a \in Apps
  PROVE  /\ CreateSessionDone(a) \/ Import(a) \/ DestroySessionDone(a) => Ends(a)
         /\ CreateChainReply(a) /\ ~Accepts(a) => Ends(a)
         /\ CreateChainReply(a) /\ Accepts(a) /\ reply.chain \in Chains =>
              Becomes(a, "import", app[a].session, reply.chain, app[a].usage, app[a].todo,
                      app[a].whole)
         /\ DestroyChainSend(a) =>
              Becomes(a, "chain_answer", app[a].session, app[a].chain, app[a].usage,
                      app[a].todo, app[a].whole)
         /\ DestroyChainDone(a) => Returns(a)
         /\ DestroySessionPool(a) =>
              Becomes(a, "session_send", app[a].session, None, app[a].usage, app[a].todo,
                      app[a].whole)
         /\ DestroySessionSend(a) =>
              Becomes(a, "session_answer", app[a].session, None, app[a].usage, app[a].todo,
                      app[a].whole)
<1>1. app \in [Apps -> AppCalls] /\ app[a] \in AppCalls
  BY DEF TypeOK
<1>2. /\ app[a].todo \in SUBSET Chains /\ app[a].whole \in BOOLEAN
      /\ app[a].usage \in {"color", "depth", "both", "neither"}
  BY <1>1, CallFields
<1>3. CreateSessionDone(a) \/ Import(a) \/ DestroySessionDone(a) => Ends(a)
  BY EndsOrReturns DEF CreateSessionDone, Import, DestroySessionDone
<1>4. CreateChainReply(a) /\ ~Accepts(a) => Ends(a)
  BY EndsOrReturns DEF CreateChainReply
<1>5. ASSUME CreateChainReply(a), Accepts(a), reply.chain \in Chains
      PROVE  Becomes(a, "import", app[a].session, reply.chain, app[a].usage, app[a].todo,
                     app[a].whole)
  <2>1. app' = [app EXCEPT ![a] = Record("import", app[a].session, reply.chain, app[a].usage,
                                         app[a].todo, app[a].whole)]
    <3>1. app' = [app EXCEPT ![a] = [app[a] EXCEPT !.at = "import", !.chain = reply.chain]]
      BY <1>5 DEF CreateChainReply, SetCall
    <3>2. [app[a] EXCEPT !.at = "import", !.chain = reply.chain]
            = Record("import", app[a].session, reply.chain, app[a].usage, app[a].todo, app[a].whole)
      BY <1>1, Replaced, Zenon
    <3>3. QED
      BY <3>1, <3>2
  <2>2. app[a].session \in Sessions
    BY <1>1, <1>5, CallFields DEF CreateChainReply, Answered
  <2>3. QED
    BY <1>1, <1>2, <1>5, <2>1, <2>2, StepBecomes
<1>6. ASSUME DestroyChainSend(a)
      PROVE  Becomes(a, "chain_answer", app[a].session, app[a].chain, app[a].usage,
                     app[a].todo, app[a].whole)
  <2>1. app' = [app EXCEPT ![a] = Record("chain_answer", app[a].session, app[a].chain,
                                         app[a].usage, app[a].todo, app[a].whole)]
    BY <1>1, <1>6, Replaced DEF DestroyChainSend, MoveTo, SetCall
  <2>2. app[a].session \in Sessions /\ app[a].chain \in Chains
    BY <1>1, <1>6, CallFields DEF DestroyChainSend
  <2>3. QED
    BY <1>1, <1>2, <2>1, <2>2, StepBecomes
<1>7. DestroyChainDone(a) => Returns(a)
  BY EndsOrReturns DEF DestroyChainDone, Answered
<1>8. ASSUME DestroySessionPool(a)
      PROVE  Becomes(a, "session_send", app[a].session, None, app[a].usage, app[a].todo,
                     app[a].whole)
  <2>1. app[a].session \in Sessions /\ app[a].chain = None
    BY <1>1, <1>8, CallFields DEF DestroySessionPool
  <2>2. app' = [app EXCEPT ![a] = Record("session_send", app[a].session, None,
                                         app[a].usage, app[a].todo, app[a].whole)]
    BY <1>1, <1>8, <2>1, Replaced DEF DestroySessionPool, MoveTo, SetCall
  <2>3. QED
    BY <1>1, <1>2, <2>1, <2>2, StepBecomes
<1>9. ASSUME DestroySessionSend(a)
      PROVE  Becomes(a, "session_answer", app[a].session, None, app[a].usage, app[a].todo,
                     app[a].whole)
  <2>1. app[a].session \in Sessions /\ app[a].chain = None
    BY <1>1, <1>9, CallFields DEF DestroySessionSend
  <2>2. app' = [app EXCEPT ![a] = Record("session_answer", app[a].session, None,
                                         app[a].usage, app[a].todo, app[a].whole)]
    BY <1>1, <1>9, <2>1, Replaced DEF DestroySessionSend, MoveTo, SetCall
  <2>3. QED
    BY <1>1, <1>2, <2>1, <2>2, StepBecomes
<1>10. QED
  BY <1>3, <1>4, <1>5, <1>6, <1>7, <1>8, <1>9

\* xrDestroySessionImpl turns to one of the swapchains that are left.
LEMMA NextChainMoves ==
  ASSUME TypeOK, NEW a \in Apps, DestroySessionChain(a)
  PROVE  \E c \in app[a].todo :
           /\ Forget(c) /\ c \in Chains
           /\ Becomes(a, "destroy_chain", app[a].session, c, app[a].usage, app[a].todo \ {c}, TRUE)
<1>1. app \in [Apps -> AppCalls] /\ app[a] \in AppCalls
  BY DEF TypeOK
<1>2. PICK c \in app[a].todo :
        /\ Forget(c)
        /\ SetCall(a, [app[a] EXCEPT !.at = "destroy_chain", !.chain = c, !.whole = TRUE,
                                     !.todo = @ \ {c}])
  BY DEF DestroySessionChain
<1>3. /\ app[a].todo \in SUBSET Chains /\ app[a].session \in Sessions
      /\ app[a].usage \in {"color", "depth", "both", "neither"}
  BY <1>1, CallFields DEF DestroySessionChain
<1>4. [app[a] EXCEPT !.at = "destroy_chain", !.chain = c, !.whole = TRUE, !.todo = @ \ {c}]
        = [app[a] EXCEPT !.at = "destroy_chain", !.chain = c, !.whole = TRUE,
                         !.todo = app[a].todo \ {c}]
  OBVIOUS
<1>5. app' = [app EXCEPT ![a] = Record("destroy_chain", app[a].session, c, app[a].usage,
                                       app[a].todo \ {c}, TRUE)]
  <2>1. PICK x, w, td : x = app[a] /\ w = TRUE /\ td = app[a].todo \ {c}
    OBVIOUS
  <2>2. PICK t, s, k, u, d, v : x = Record(t, s, k, u, d, v)
    BY <1>1, <2>1 DEF AppCalls, Calls, Record
  <2>3. PICK y : y = [x EXCEPT !.at = "destroy_chain"]
    OBVIOUS
  <2>4. y = Record("destroy_chain", s, k, u, d, v)
    BY <2>2, <2>3 DEF Record
  <2>5. PICK z : z = [y EXCEPT !.chain = c]
    OBVIOUS
  <2>6. z = Record("destroy_chain", s, c, u, d, v)
    BY <2>4, <2>5 DEF Record
  <2>7. PICK z1 : z1 = [z EXCEPT !.whole = w]
    OBVIOUS
  <2>8. z1 = Record("destroy_chain", s, c, u, d, w)
    BY <2>6, <2>7 DEF Record
  <2>9. [z1 EXCEPT !.todo = td] = Record("destroy_chain", s, c, u, td, w)
    BY <2>8 DEF Record
  <2>10. [x EXCEPT !.at = "destroy_chain", !.chain = c, !.whole = w, !.todo = td]
           = [z1 EXCEPT !.todo = td]
    BY <2>3, <2>5, <2>7, Zenon
  <2>11. x.session = s /\ x.usage = u
    BY <2>2 DEF Record
  <2>12. app' = [app EXCEPT ![a] = [x EXCEPT !.at = "destroy_chain", !.chain = c, !.whole = w,
                                             !.todo = td]]
    BY <1>2, <1>4, <2>1 DEF SetCall
  <2>13. QED
    BY <2>1, <2>9, <2>10, <2>11, <2>12
<1>6. c \in Chains /\ app[a].todo \ {c} \in SUBSET Chains
  BY <1>3
<1>7. Becomes(a, "destroy_chain", app[a].session, c, app[a].usage, app[a].todo \ {c}, TRUE)
  BY <1>1, <1>3, <1>5, <1>6, StepBecomes
<1>8. QED
  BY <1>2, <1>6, <1>7

-----------------------------------------------------------------------------
(* One request at a time                                                   *)

\* Thread a holds the message lock, and waits for its answer or for the images.
Waits(a) == app[a].at \in Locking
Exclusive == \A a, b \in Apps : Waits(a) /\ Waits(b) => a = b

\* The messages under way belong to the call that holds the lock.
Talks(call, req, rep) ==
  /\ req.op # "none" => rep.op = "none"
  /\ call.at = "create_session" =>
       /\ req.op \in {"none", "create_session"} /\ rep.op \in {"none", "ok"}
       /\ rep.op = "ok" => rep.session \in Sessions
  /\ call.at = "create_chain" =>
       /\ req.op \in {"none", "create_chain"}
       /\ req.op = "create_chain" => req.session = call.session /\ req.usage = call.usage
       /\ rep.op = "ok" => rep.chain \in Chains
  /\ call.at = "import" => req.op = "none" /\ rep.op = "none"
  /\ call.at = "chain_answer" =>
       /\ req.op \in {"none", "destroy_chain"}
       /\ req.op = "destroy_chain" => req.chain = call.chain
  /\ call.at = "session_answer" =>
       /\ req.op \in {"none", "destroy_session"}
       /\ req.op = "destroy_session" => req.session = call.session

WellFormed(req) ==
  /\ req.op \notin {"ok", "error"}
  /\ req.op \in {"create_chain", "destroy_session"} => req.session \in Sessions
  /\ req.op = "destroy_chain" => req.chain \in Chains

\* A request without a caller is left only by a closed transport.
Protocol ==
  /\ Exclusive
  /\ WellFormed(request)
  /\ \A a \in Apps : Waits(a) => Talks(app[a], request, reply)
  /\ (\A a \in Apps : ~Waits(a)) => reply.op = "none" /\ (up => request.op = "none")

\* What a message is made of.
LEMMA MessageFields ==
  /\ \A o, s, c, u : /\ Message(o, s, c, u).op = o /\ Message(o, s, c, u).session = s
                     /\ Message(o, s, c, u).chain = c /\ Message(o, s, c, u).usage = u
  /\ NoMessage.op = "none" /\ NoMessage \in Messages
BY DEF Message, NoMessage, Messages

\* A thread sends its request: nobody else waits.
LEMMA SendProtocol ==
  ASSUME Protocol, NEW a \in Apps, CanSend, \A b \in Apps : b # a => app'[b] = app[b],
         WellFormed(request'), UNCHANGED <<reply, up>>,
         \A rep : rep.op = "none" => Talks(app'[a], request', rep), Waits(a)'
  PROVE  Protocol' /\ reply.op = "none"
<1>1. \A b \in Apps : ~Waits(b)
  BY DEF CanSend, Waits
<1>2. reply.op = "none"
  BY <1>1 DEF Protocol
<1>3. \A b \in Apps : Waits(b)' => b = a
  BY <1>1 DEF Waits
<1>4. QED
  BY <1>2, <1>3 DEF Protocol, Exclusive

\* The thread that waits takes its answer, or throws on a closed transport.
LEMMA TakeProtocol ==
  ASSUME Protocol, NEW a \in Apps, Waits(a), \A b \in Apps : b # a => app'[b] = app[b],
         reply'.op = "none", UNCHANGED <<request, up>>,
         \/ ~Waits(a)' /\ (up => request.op = "none")
         \/ app'[a].at = "import" /\ request.op = "none"
  PROVE  Protocol'
<1>1. \A b \in Apps : b # a => ~Waits(b) /\ ~Waits(b)'
  BY DEF Protocol, Exclusive, Waits
<1>2. CASE ~Waits(a)' /\ (up => request.op = "none")
  BY <1>1, <1>2 DEF Protocol, Exclusive
<1>3. CASE app'[a].at = "import" /\ request.op = "none"
  <2>1. Talks(app'[a], request', reply') /\ Waits(a)'
    BY <1>3 DEF Talks, Waits, Locking
  <2>2. QED
    BY <1>1, <2>1 DEF Protocol, Exclusive
<1>4. QED
  BY <1>2, <1>3

\* A step of a thread that neither holds the lock nor takes it.
LEMMA LocalProtocol ==
  ASSUME Protocol, NEW a \in Apps, ~Waits(a), ~Waits(a)',
         \A b \in Apps : b # a => app'[b] = app[b], UNCHANGED <<request, reply, up>>
  PROVE  Protocol'
<1>1. \A b \in Apps : (Waits(b)' <=> Waits(b)) /\ (Waits(b) => app'[b] = app[b])
  BY DEF Waits
<1>2. QED
  BY <1>1 DEF Protocol, Exclusive

\* The server takes the request, and answers while the transport is open.
LEMMA ServerProtocol ==
  ASSUME Protocol, request.op # "none", UNCHANGED <<app, up>>, NEW m, Replies(m) \/ NoReply,
         \A call : call.at \in Locking /\ Talks(call, request, reply) => Talks(call, NoMessage, m)
  PROVE  Protocol'
<1>1. request' = NoMessage /\ request'.op = "none" /\ (reply' = reply \/ (up /\ reply' = m))
  BY MessageFields DEF Replies, NoReply
<1>2. WellFormed(request')
  BY <1>1 DEF WellFormed
<1>3. Exclusive' /\ \A b \in Apps : Waits(b)' <=> Waits(b)
  BY DEF Protocol, Exclusive, Waits
<1>4. reply.op = "none"
  BY DEF Protocol, Talks
<1>5. CASE reply' = reply
  <2>1. \A call : call.at \in Locking /\ Talks(call, request, reply) =>
          Talks(call, request', reply')
    BY <1>1, <1>4, <1>5 DEF Talks
  <2>2. QED
    BY <1>1, <1>2, <1>3, <1>4, <1>5, <2>1 DEF Protocol, Waits
<1>6. CASE up /\ reply' = m
  <2>1. \E a \in Apps : Waits(a)
    BY <1>6 DEF Protocol
  <2>2. \A a \in Apps : Waits(a)' => Talks(app'[a], request', reply')
    BY <1>1, <1>3, <1>6 DEF Protocol, Waits
  <2>3. QED
    BY <1>2, <1>3, <2>1, <2>2 DEF Protocol
<1>7. QED
  BY <1>1, <1>5, <1>6

\* The first steps of the calls keep the types and the protocol.
LEMMA BeginProtocol ==
  ASSUME TypeOK, Protocol, NEW a \in Apps, Begins(a)
  PROVE  TypeOK' /\ Protocol'
<1>1. CASE CreateSession(a)
  <2>1. Becomes(a, "create_session", None, None, "color", {}, FALSE)
    BY <1>1, BeginMoves
  <2>2. request' = Message("create_session", None, None, "color") /\ request' \in Messages
    BY <1>1 DEF CreateSession, Message, Messages
  <2>3. TypeOK'
    BY <1>1, <2>1, <2>2 DEF TypeOK, CreateSession, Becomes, NewCall, client, tables
  <2>4. WellFormed(request') /\ \A rep : rep.op = "none" => Talks(app'[a], request', rep)
    BY <2>1, <2>2, MessageFields DEF Becomes, WellFormed, Talks
  <2>5. Protocol'
    BY <1>1, <2>1, <2>4, SendProtocol DEF CreateSession, Becomes, Waits, Locking
  <2>6. QED
    BY <2>3, <2>5
<1>2. ASSUME NEW s \in Sessions, NEW u \in Usages, CreateChain(a, s, u)
      PROVE  TypeOK' /\ Protocol'
  <2>1. Becomes(a, "create_chain", s, None, u, {}, FALSE)
    BY <1>2, BeginMoves
  <2>2. request' = Message("create_chain", s, None, u) /\ request' \in Messages
    BY <1>2, UsagesAssumption DEF CreateChain, Message, Messages
  <2>3. TypeOK'
    BY <1>2, <2>1, <2>2 DEF TypeOK, CreateChain, Becomes, NewCall, client, tables
  <2>4. WellFormed(request') /\ \A rep : rep.op = "none" => Talks(app'[a], request', rep)
    BY <2>1, <2>2, MessageFields DEF Becomes, WellFormed, Talks
  <2>5. Protocol'
    BY <1>2, <2>1, <2>4, SendProtocol DEF CreateChain, Becomes, Waits, Locking
  <2>6. QED
    BY <2>3, <2>5
<1>3. ASSUME NEW c \in Chains, DestroyChain(a, c) PROVE TypeOK' /\ Protocol'
  <2>1. Becomes(a, "destroy_chain", client_chains[c], c, "color", {}, FALSE)
    BY <1>3, BeginMoves
  <2>2. TypeOK'
    BY <1>3, <2>1 DEF TypeOK, DestroyChain, Becomes, Forget, tables
  <2>3. Protocol'
    BY <1>3, <2>1, LocalProtocol DEF DestroyChain, Becomes, Waits, Idle, Locking
  <2>4. QED
    BY <2>2, <2>3
<1>4. ASSUME NEW s \in Sessions, DestroySession(a, s) PROVE TypeOK' /\ Protocol'
  <2>1. Becomes(a, "destroy_session", s, None, "color", ChainsOf(client_chains, s), FALSE)
    BY <1>4, BeginMoves
  <2>2. TypeOK'
    BY <1>4, <2>1 DEF TypeOK, DestroySession, Becomes, client, tables
  <2>3. Protocol'
    BY <1>4, <2>1, LocalProtocol DEF DestroySession, Becomes, Waits, Idle, Locking
  <2>4. QED
    BY <2>2, <2>3
<1>5. QED
  BY <1>1, <1>2, <1>3, <1>4 DEF Begins

\* The answers keep the types and the protocol.
LEMMA AnswerProtocol ==
  ASSUME TypeOK, Protocol, NEW a \in Apps,
         CreateSessionDone(a) \/ CreateChainReply(a) \/ DestroyChainDone(a) \/ DestroySessionDone(a)
  PROVE  TypeOK' /\ Protocol'
<1>1. Waits(a) /\ reply.op # "none"
  BY DEF CreateSessionDone, CreateChainReply, DestroyChainDone, DestroySessionDone, Answered,
    Waits, Locking
<1>2. Talks(app[a], request, reply) /\ request.op = "none"
  BY <1>1 DEF Protocol, Talks
<1>3. reply' = NoMessage /\ UNCHANGED <<request, up>>
  BY DEF CreateSessionDone, CreateChainReply, DestroyChainDone, DestroySessionDone
<1>4. reply'.op = "none" /\ reply' \in Messages
  BY <1>3, MessageFields
<1>5. CASE CreateSessionDone(a)
  <2>1. Ends(a)
    BY <1>5, ProceedMoves
  <2>2. reply.session \in Sessions
    BY <1>1, <1>2, <1>5 DEF CreateSessionDone, Answered, Talks
  <2>3. /\ open_sessions' \subseteq Sessions /\ command_pool' \in [Sessions -> PoolStates]
        /\ failures' \in Nat
    BY <1>5, <2>2 DEF CreateSessionDone, StoreSession, Fails, TypeOK, PoolStates
  <2>4. TypeOK'
    BY <1>4, <1>5, <2>1, <2>3 DEF TypeOK, CreateSessionDone, Ends, Becomes, tables
  <2>5. Protocol'
    BY <1>1, <1>2, <1>3, <1>4, <2>1, TakeProtocol DEF Ends, Becomes, Waits, Locking
  <2>6. QED
    BY <2>4, <2>5
<1>6. CASE CreateChainReply(a)
  <2>1. CASE Accepts(a)
    <3>1. reply.chain \in Chains
      BY <1>2, <1>6, <2>1 DEF CreateChainReply, Answered, Accepts, Talks
    <3>2. Becomes(a, "import", app[a].session, reply.chain, app[a].usage, app[a].todo,
                  app[a].whole)
      BY <1>6, <2>1, <3>1, ProceedMoves
    <3>3. TypeOK'
      BY <1>4, <1>6, <3>2 DEF TypeOK, CreateChainReply, Becomes, client, tables
    <3>4. Protocol'
      BY <1>1, <1>2, <1>3, <1>4, <3>2, TakeProtocol DEF Becomes
    <3>5. QED
      BY <3>3, <3>4
  <2>2. CASE ~Accepts(a)
    <3>1. Ends(a)
      BY <1>6, <2>2, ProceedMoves
    <3>2. TypeOK'
      BY <1>4, <1>6, <3>1 DEF TypeOK, CreateChainReply, Ends, Becomes, client, tables
    <3>3. Protocol'
      BY <1>1, <1>2, <1>3, <1>4, <3>1, TakeProtocol DEF Ends, Becomes, Waits, Locking
    <3>4. QED
      BY <3>2, <3>3
  <2>3. QED
    BY <2>1, <2>2
<1>7. CASE DestroyChainDone(a)
  <2>1. Returns(a)
    BY <1>7, ProceedMoves
  <2>2. app' \in [Apps -> AppCalls] /\ ~Waits(a)' /\ \A b \in Apps : b # a => app'[b] = app[b]
    BY <2>1 DEF Returns, Ends, Becomes, Waits, Locking
  <2>3. TypeOK'
    BY <1>4, <1>7, <2>2 DEF TypeOK, DestroyChainDone, client, tables
  <2>4. Protocol'
    BY <1>1, <1>2, <1>3, <1>4, <2>2, TakeProtocol
  <2>5. QED
    BY <2>3, <2>4
<1>8. CASE DestroySessionDone(a)
  <2>1. Ends(a)
    BY <1>8, ProceedMoves
  <2>2. TypeOK'
    BY <1>4, <1>8, <2>1 DEF TypeOK, DestroySessionDone, Ends, Becomes, tables
  <2>3. Protocol'
    BY <1>1, <1>2, <1>3, <1>4, <2>1, TakeProtocol DEF Ends, Becomes, Waits, Locking
  <2>4. QED
    BY <2>2, <2>3
<1>9. QED
  BY <1>5, <1>6, <1>7, <1>8

\* What is left in the handle exchange after a read.
LEMMA UnreadType ==
  ASSUME TypeOK, NEW k \in 0 .. Len(exchange)
  PROVE  Unread(k) \in Seq(Chains)
<1>1. exchange \in Seq(Chains) /\ Len(exchange) \in Nat
  BY LenProperties DEF TypeOK
<1>2. QED
  BY <1>1, SubSeqProperties DEF Unread

\* import_images keeps the types and the protocol.
LEMMA ImportProtocol ==
  ASSUME TypeOK, Protocol, NEW a \in Apps, Import(a)
  PROVE  TypeOK' /\ Protocol'
<1>1. Waits(a) /\ app[a].at = "import" /\ app[a] \in AppCalls /\ Ends(a)
  BY ProceedMoves DEF Import, Waits, Locking, TypeOK
<1>2. app[a].chain \in Chains /\ app[a].session \in Sessions
  BY <1>1, CallFields
<1>3. exchange \in Seq(Chains) /\ Len(exchange) \in Nat /\ Len(exchange) >= N /\ N \in Nat
  BY LenProperties, ImagesAssumption DEF TypeOK, Import
<1>4. exchange' \in Seq(Chains)
  BY <1>3, UnreadType DEF Import
<1>5. \A k \in 1 .. N : exchange[k] \in Chains
  BY <1>3, ElementOfSeq
<1>6. /\ imported' \in [Chains -> SUBSET Chains]
      /\ client_chains' \in [Chains -> Sessions \cup {None}] /\ failures' \in Nat
  BY <1>2, <1>5 DEF Import, Fails, TypeOK
<1>7. TypeOK'
  BY <1>1, <1>4, <1>6 DEF TypeOK, Import, Ends, Becomes, tables
<1>8. request.op = "none" /\ reply.op = "none" /\ UNCHANGED <<request, reply, up>>
  BY <1>1 DEF Protocol, Talks, Import
<1>9. Protocol'
  BY <1>1, <1>8, TakeProtocol DEF Ends, Becomes, Waits, Locking
<1>10. QED
  BY <1>7, <1>9

\* The other steps of the destructions keep the types and the protocol.
LEMMA DestroyProtocol ==
  ASSUME TypeOK, Protocol, NEW a \in Apps,
         \/ DestroyChainSend(a) \/ DestroySessionChain(a) \/ DestroySessionPool(a)
         \/ DestroySessionSend(a)
  PROVE  TypeOK' /\ Protocol'
<1>0. app[a] \in AppCalls
  BY DEF TypeOK
<1>1. CASE DestroyChainSend(a)
  <2>1. Becomes(a, "chain_answer", app[a].session, app[a].chain, app[a].usage,
                app[a].todo, app[a].whole)
    BY <1>1, ProceedMoves
  <2>2. app[a].chain \in Chains
    BY <1>0, <1>1, CallFields DEF DestroyChainSend
  <2>3. request' = Message("destroy_chain", None, app[a].chain, "color") /\ request' \in Messages
    BY <1>1, <2>2 DEF DestroyChainSend, Message, Messages
  <2>4. TypeOK'
    BY <1>1, <2>1, <2>3 DEF TypeOK, DestroyChainSend, Becomes, client, tables
  <2>5. WellFormed(request') /\ \A rep : rep.op = "none" => Talks(app'[a], request', rep)
    BY <2>1, <2>2, <2>3, MessageFields DEF Becomes, WellFormed, Talks
  <2>6. Protocol'
    BY <1>1, <2>1, <2>5, SendProtocol DEF DestroyChainSend, Becomes, Waits, Locking
  <2>7. QED
    BY <2>4, <2>6
<1>2. CASE DestroySessionChain(a)
  <2>1. PICK c \in app[a].todo :
          /\ Forget(c) /\ c \in Chains
          /\ Becomes(a, "destroy_chain", app[a].session, c, app[a].usage, app[a].todo \ {c}, TRUE)
    BY <1>2, NextChainMoves
  <2>2. TypeOK'
    BY <1>2, <2>1 DEF TypeOK, DestroySessionChain, Becomes, Forget, tables
  <2>3. Protocol'
    BY <1>2, <2>1, LocalProtocol DEF DestroySessionChain, Becomes, Waits, Locking
  <2>4. QED
    BY <2>2, <2>3
<1>3. CASE DestroySessionPool(a)
  <2>1. Becomes(a, "session_send", app[a].session, None, app[a].usage, app[a].todo, app[a].whole)
    BY <1>3, ProceedMoves
  <2>2. TypeOK'
    BY <1>3, <2>1 DEF TypeOK, DestroySessionPool, Becomes, PoolStates, tables
  <2>3. Protocol'
    BY <1>3, <2>1, LocalProtocol DEF DestroySessionPool, Becomes, Waits, Locking
  <2>4. QED
    BY <2>2, <2>3
<1>4. CASE DestroySessionSend(a)
  <2>1. Becomes(a, "session_answer", app[a].session, None, app[a].usage, app[a].todo, app[a].whole)
    BY <1>4, ProceedMoves
  <2>2. app[a].session \in Sessions
    BY <1>0, <1>4, CallFields DEF DestroySessionSend
  <2>3. request' = Message("destroy_session", app[a].session, None, "color") /\ request' \in Messages
    BY <1>4, <2>2 DEF DestroySessionSend, Message, Messages
  <2>4. TypeOK'
    BY <1>4, <2>1, <2>3 DEF TypeOK, DestroySessionSend, Becomes, client, tables
  <2>5. WellFormed(request') /\ \A rep : rep.op = "none" => Talks(app'[a], request', rep)
    BY <2>1, <2>2, <2>3, MessageFields DEF Becomes, WellFormed, Talks
  <2>6. Protocol'
    BY <1>4, <2>1, <2>5, SendProtocol DEF DestroySessionSend, Becomes, Waits, Locking
  <2>7. QED
    BY <2>4, <2>6
<1>5. QED
  BY <1>1, <1>2, <1>3, <1>4

\* How a call ends that throws.
LEMMA ThrowsMoves ==
  ASSUME TypeOK, NEW a \in Apps, Throws(a)
  PROVE  /\ ~up
         /\ \/ /\ Ends(a)
               /\ app[a].at \in {"create_session", "create_chain", "session_send", "session_answer"}
            \/ Returns(a) /\ app[a].at \in {"destroy_chain", "chain_answer"}
BY EndsOrReturns DEF Throws

\* A closed transport keeps the types and the protocol.
LEMMA ThrowsProtocol ==
  ASSUME TypeOK, Protocol, NEW a \in Apps, Throws(a)
  PROVE  TypeOK' /\ Protocol'
<1>1. /\ app' \in [Apps -> AppCalls] /\ ~Waits(a)' /\ ~up
      /\ \A b \in Apps : b # a => app'[b] = app[b]
  BY ThrowsMoves DEF Returns, Ends, Becomes, Waits, Locking
<1>2. UNCHANGED <<request, up>> /\ reply' \in Messages
  BY MessageFields DEF Throws, TypeOK
<1>3. TypeOK'
  BY <1>1, <1>2 DEF TypeOK, Throws, client, tables
<1>4. CASE Waits(a)
  <2>1. reply'.op = "none"
    BY <1>4, MessageFields DEF Throws, Waits
  <2>2. QED
    BY <1>1, <1>2, <1>3, <1>4, <2>1, TakeProtocol
<1>5. CASE ~Waits(a)
  <2>1. reply' = reply
    BY <1>5 DEF Throws, Waits
  <2>2. QED
    BY <1>1, <1>2, <1>3, <1>5, <2>1, LocalProtocol
<1>6. QED
  BY <1>4, <1>5

\* A handler that ends without an answer keeps the protocol.
LEMMA NoReplyProtocol ==
  ASSUME TypeOK, Protocol, request.op # "none", UNCHANGED <<app, up>>, NoReply
  PROVE  Protocol' /\ request' \in Messages /\ reply' \in Messages
<1>1. \A call : Talks(call, NoMessage, NoMessage)
  BY MessageFields DEF Talks
<1>2. Protocol'
  BY <1>1, ServerProtocol
<1>3. QED
  BY <1>2, MessageFields DEF NoReply, TypeOK

\* So does one that answers the call that waits.
LEMMA RepliesProtocol ==
  ASSUME TypeOK, Protocol, request.op # "none", UNCHANGED <<app, up>>,
         NEW m \in Messages, Replies(m),
         \A call : call.at \in Locking /\ Talks(call, request, reply) => Talks(call, NoMessage, m)
  PROVE  Protocol' /\ request' \in Messages /\ reply' \in Messages
<1>1. Protocol'
  BY ServerProtocol
<1>2. QED
  BY <1>1, MessageFields DEF Replies, TypeOK

\* The images that the server writes to the handle exchange.
LEMMA ImagesType ==
  ASSUME TypeOK, NEW c \in Chains, NEW k \in 0 .. N
  PROVE  exchange \o Images(c, k) \in Seq(Chains)
<1>1. exchange \in Seq(Chains)
  BY DEF TypeOK
<1>2. Images(c, k) \in Seq(Chains)
  BY ImagesAssumption, IsASeq DEF Images
<1>3. QED
  BY <1>1, <1>2, ConcatProperties

\* The handlers of the server keep the types and the protocol.
LEMMA ServerKeepsProtocol ==
  ASSUME TypeOK, Protocol, Server
  PROVE  TypeOK' /\ Protocol'
<1>1. ASSUME ServerCreateSession PROVE TypeOK' /\ Protocol'
  <2>1. request.op = "create_session" /\ UNCHANGED <<app, up>>
    BY <1>1 DEF ServerCreateSession
  <2>2. Protocol' /\ request' \in Messages /\ reply' \in Messages
    <3>1. ASSUME NEW s \in Sessions, Replies(Message("ok", s, None, "color"))
          PROVE  Protocol' /\ request' \in Messages /\ reply' \in Messages
      <4>1. Message("ok", s, None, "color") \in Messages
        BY DEF Message, Messages
      <4>2. \A call : call.at \in Locking /\ Talks(call, request, reply) =>
              Talks(call, NoMessage, Message("ok", s, None, "color"))
        BY <2>1, MessageFields DEF Talks, Locking
      <4>3. QED
        BY <2>1, <3>1, <4>1, <4>2, RepliesProtocol
    <3>2. QED
      BY <1>1, <2>1, <3>1, NoReplyProtocol DEF ServerCreateSession
  <2>3. /\ runtime_sessions' \subseteq Sessions /\ server_sessions' \subseteq Sessions
        /\ failures' \in Nat
    BY <1>1 DEF ServerCreateSession, TypeOK, Fails
  <2>4. QED
    BY <1>1, <2>2, <2>3 DEF TypeOK, ServerCreateSession, client
<1>2. ASSUME ServerCreateChain PROVE TypeOK' /\ Protocol'
  <2>1. request.op = "create_chain" /\ UNCHANGED <<app, up>> /\ request.session \in Sessions
    BY <1>2 DEF ServerCreateChain, Protocol, WellFormed
  <2>2. ASSUME NEW o \in {"ok", "error"}, NEW c \in Chains \cup {None},
               o = "ok" => c \in Chains, Replies(Message(o, request.session, c, "color"))
        PROVE  Protocol' /\ request' \in Messages /\ reply' \in Messages
    <3>1. Message(o, request.session, c, "color") \in Messages
      BY <2>1 DEF Message, Messages
    <3>2. \A call : call.at \in Locking /\ Talks(call, request, reply) =>
            Talks(call, NoMessage, Message(o, request.session, c, "color"))
      BY <2>1, <2>2, MessageFields DEF Talks, Locking
    <3>3. QED
      BY <2>1, <2>2, <3>1, <3>2, RepliesProtocol
  <2>3. Protocol' /\ request' \in Messages /\ reply' \in Messages
    BY <1>2, <2>1, <2>2, NoReplyProtocol DEF ServerCreateChain
  <2>4. runtime_chains' \subseteq Chains
    BY <1>2 DEF ServerCreateChain, TypeOK
  <2>5. server_chains' \in [Chains -> Sessions \cup {None}]
    BY <1>2, <2>1 DEF ServerCreateChain, TypeOK
  <2>6. failures' \in Nat
    BY <1>2 DEF ServerCreateChain, TypeOK, Fails
  <2>7. exchange' \in Seq(Chains)
    <3>1. exchange \in Seq(Chains) /\ N \in 0 .. N /\ 0 .. N - 1 \subseteq 0 .. N
      BY ImagesAssumption DEF TypeOK
    <3>2. QED
      BY <1>2, <3>1, ImagesType DEF ServerCreateChain
  <2>8. QED
    BY <1>2, <2>3, <2>4, <2>5, <2>6, <2>7 DEF TypeOK, ServerCreateChain, client
<1>3. ASSUME ServerDestroyChain PROVE TypeOK' /\ Protocol'
  <2>1. request.op = "destroy_chain" /\ UNCHANGED <<app, up>> /\ request.chain \in Chains
    BY <1>3 DEF ServerDestroyChain, Protocol, WellFormed
  <2>2. Protocol' /\ request' \in Messages /\ reply' \in Messages
    <3>1. Message("ok", None, request.chain, "color") \in Messages
      BY <2>1 DEF Message, Messages
    <3>2. \A call : call.at \in Locking /\ Talks(call, request, reply) =>
            Talks(call, NoMessage, Message("ok", None, request.chain, "color"))
      BY <2>1, MessageFields DEF Talks, Locking
    <3>3. QED
      BY <1>3, <2>1, <3>1, <3>2, RepliesProtocol, NoReplyProtocol DEF ServerDestroyChain
  <2>3. server_chains' \in [Chains -> Sessions \cup {None}] /\ runtime_chains' \subseteq Chains
    BY <1>3, <2>1 DEF ServerDestroyChain, TypeOK
  <2>4. QED
    BY <1>3, <2>2, <2>3 DEF TypeOK, ServerDestroyChain, client
<1>4. ASSUME ServerDestroySession PROVE TypeOK' /\ Protocol'
  <2>1. request.op = "destroy_session" /\ UNCHANGED <<app, up>> /\ request.session \in Sessions
    BY <1>4 DEF ServerDestroySession, Protocol, WellFormed
  <2>2. Protocol' /\ request' \in Messages /\ reply' \in Messages
    <3>1. Message("ok", request.session, None, "color") \in Messages
      BY <2>1 DEF Message, Messages
    <3>2. \A call : call.at \in Locking /\ Talks(call, request, reply) =>
            Talks(call, NoMessage, Message("ok", request.session, None, "color"))
      BY <2>1, MessageFields DEF Talks, Locking
    <3>3. QED
      BY <1>4, <2>1, <3>1, <3>2, RepliesProtocol, NoReplyProtocol DEF ServerDestroySession
  <2>3. server_chains' \in [Chains -> Sessions \cup {None}] /\ runtime_chains' \subseteq Chains
    BY <1>4 DEF ServerDestroySession, TypeOK
  <2>4. runtime_sessions' \subseteq Sessions /\ undefined' \in BOOLEAN
    BY <1>4 DEF ServerDestroySession, TypeOK
  <2>5. QED
    BY <1>4, <2>2, <2>3, <2>4 DEF TypeOK, ServerDestroySession, client
<1>5. QED
  BY <1>1, <1>2, <1>3, <1>4 DEF Server

\* Every step keeps the types and the protocol.
LEMMA ProtocolStep ==
  ASSUME TypeOK, Protocol, [Next]_vars
  PROVE  TypeOK' /\ Protocol'
<1>1. ASSUME NEW a \in Apps, Proceeds(a) \/ Begins(a) PROVE TypeOK' /\ Protocol'
  BY <1>1, BeginProtocol, AnswerProtocol, ImportProtocol, DestroyProtocol, ThrowsProtocol
    DEF Proceeds
<1>2. CASE TransportCloses
  <2>1. TypeOK'
    BY <1>2 DEF TypeOK, TransportCloses, client, tables
  <2>2. UNCHANGED <<app, request, reply>> /\ up' = FALSE
    BY <1>2 DEF TransportCloses
  <2>3. Protocol'
    BY <2>2 DEF Protocol, Exclusive, Waits
  <2>4. QED
    BY <2>1, <2>3
<1>3. CASE Finished \/ UNCHANGED vars
  <2>1. UNCHANGED <<app, request, reply, up>>
    BY <1>3 DEF Finished, vars
  <2>2. TypeOK'
    BY <1>3 DEF Finished, vars, client, tables, TypeOK
  <2>3. Protocol'
    BY <2>1 DEF Protocol, Exclusive, Waits
  <2>4. QED
    BY <2>2, <2>3
<1>4. QED
  BY <1>1, <1>2, <1>3, ServerKeepsProtocol DEF Next

\* The types and the protocol hold in every state.
LEMMA ProtocolInvariant == Spec => [](TypeOK /\ Protocol)
<1>1. Init => TypeOK /\ Protocol
  <2> SUFFICES ASSUME Init PROVE TypeOK /\ Protocol
    OBVIOUS
  <2>1. IdleCall \in AppCalls /\ IdleCall.at = "idle"
    <3>1. IdleCall = Record("idle", None, None, "color", {}, FALSE)
      BY DEF IdleCall, Call, Record
    <3>2. QED
      BY <3>1, RecordType DEF Record
  <2>2. exchange \in Seq(Chains)
    BY DEF Init
  <2>3. TypeOK
    BY <2>1, <2>2, MessageFields DEF Init, TypeOK, PoolStates
  <2>4. Protocol
    BY <2>1, MessageFields DEF Init, Protocol, Exclusive, Waits, Locking, WellFormed
  <2>5. QED
    BY <2>3, <2>4
<1>2. QED
  BY <1>1, ProtocolStep, PTL DEF Spec

\* Type correctness, for any number of threads and handles: in particular a client stores
\* a session or imports a swapchain only under a handle that the server sent for its call.
THEOREM TypeCorrect == Spec => []TypeOK
BY ProtocolInvariant, PTL

-----------------------------------------------------------------------------
(* The destruction of a session                                            *)

\* A thread that destroys a session is the only one that uses it.
SessionInv ==
  /\ \A a \in Apps : app[a].whole => app[a].at \in {"destroy_chain", "chain_answer"}
  /\ \A a, b \in Apps : \A s \in Sessions : Destroys(b, s) /\ Uses(a, s) => a = b

\* Thread a goes on with its session, or ends.
Continues(a) ==
  \/ app'[a].at = "idle" /\ ~app'[a].whole
  \/ /\ app[a].at # "idle" /\ app'[a].session = app[a].session
     /\ app'[a].whole => app'[a].at \in {"destroy_chain", "chain_answer"}
     /\ app'[a].at \in {"destroy_session", "session_send", "session_answer"} \/ app'[a].whole =>
          app[a].at \in {"destroy_session", "session_send", "session_answer"} \/ app[a].whole

\* A call that goes on keeps to its session.
LEMMA ProceedContinues ==
  ASSUME TypeOK, Protocol, SessionInv, NEW a \in Apps, Proceeds(a)
  PROVE  Continues(a) /\ \A b \in Apps : b # a => app'[b] = app[b]
<1>1. app[a] \in AppCalls /\ (app[a].whole => app[a].at \in {"destroy_chain", "chain_answer"})
  BY DEF TypeOK, SessionInv
<1>2. CASE Ends(a)
  BY <1>2 DEF Ends, Becomes, Continues
<1>3. CASE Returns(a) /\ app[a].at \in {"destroy_chain", "chain_answer"}
  BY <1>3 DEF Returns, Ends, Becomes, Continues
<1>4. CASE CreateChainReply(a) /\ Accepts(a)
  <2>1. app[a].at = "create_chain" /\ reply.chain \in Chains
    BY <1>4 DEF CreateChainReply, Answered, Accepts, Protocol, Talks, Waits, Locking
  <2>2. Becomes(a, "import", app[a].session, reply.chain, app[a].usage, app[a].todo, app[a].whole)
    BY <1>4, <2>1, ProceedMoves
  <2>3. QED
    BY <1>1, <2>1, <2>2 DEF Becomes, Continues
<1>5. CASE DestroyChainSend(a)
  <2>1. Becomes(a, "chain_answer", app[a].session, app[a].chain, app[a].usage, app[a].todo,
                app[a].whole)
    BY <1>5, ProceedMoves
  <2>2. QED
    BY <1>5, <2>1 DEF DestroyChainSend, Becomes, Continues
<1>6. CASE DestroySessionChain(a)
  <2>1. PICK c \in app[a].todo :
          Becomes(a, "destroy_chain", app[a].session, c, app[a].usage, app[a].todo \ {c}, TRUE)
    BY <1>6, NextChainMoves
  <2>2. QED
    BY <1>6, <2>1 DEF DestroySessionChain, Becomes, Continues
<1>7. CASE DestroySessionPool(a)
  <2>1. Becomes(a, "session_send", app[a].session, None, app[a].usage, app[a].todo, app[a].whole)
    BY <1>7, ProceedMoves
  <2>2. QED
    BY <1>1, <1>7, <2>1 DEF DestroySessionPool, Becomes, Continues
<1>8. CASE DestroySessionSend(a)
  <2>1. Becomes(a, "session_answer", app[a].session, None, app[a].usage, app[a].todo, app[a].whole)
    BY <1>8, ProceedMoves
  <2>2. QED
    BY <1>1, <1>8, <2>1 DEF DestroySessionSend, Becomes, Continues
<1>9. QED
  BY <1>2, <1>3, <1>4, <1>5, <1>6, <1>7, <1>8, ProceedMoves, ThrowsMoves
    DEF Proceeds, DestroyChainDone, Answered

\* Every step keeps the sessions apart.
LEMMA SessionStep ==
  ASSUME TypeOK, Protocol, SessionInv, [Next]_vars
  PROVE  SessionInv'
<1>1. ASSUME NEW a \in Apps, Proceeds(a) PROVE SessionInv'
  <2>1. Continues(a) /\ \A b \in Apps : b # a => app'[b] = app[b]
    BY <1>1, ProceedContinues
  <2>2. \A b \in Apps : \A s \in Sessions :
          (Uses(b, s)' => Uses(b, s)) /\ (Destroys(b, s)' => Destroys(b, s))
    BY <2>1 DEF Continues, Uses, Destroys, Idle
  <2>3. QED
    BY <2>1, <2>2 DEF SessionInv, Continues
<1>2. ASSUME NEW a \in Apps, CreateSession(a) PROVE SessionInv'
  <2>1. Becomes(a, "create_session", None, None, "color", {}, FALSE)
    BY <1>2, BeginMoves
  <2>2. \A b \in Apps : \A s \in Sessions :
          (Uses(b, s)' => Uses(b, s)) /\ (Destroys(b, s)' => Destroys(b, s))
    BY <2>1, HandlesAssumption DEF Becomes, Uses, Destroys, Idle
  <2>3. QED
    BY <2>1, <2>2 DEF SessionInv, Becomes
<1>3. ASSUME NEW a \in Apps, NEW s \in Sessions, NEW l \in {"create_chain", "destroy_chain"},
             NEW c, NEW u, Becomes(a, l, s, c, u, {}, FALSE), \A b \in Apps : ~Destroys(b, s)
      PROVE  SessionInv'
  <2>1. \A b \in Apps : \A t \in Sessions : Destroys(b, t)' => Destroys(b, t) /\ t # s
    BY <1>3 DEF Becomes, Uses, Destroys, Idle
  <2>2. \A b \in Apps : \A t \in Sessions : Uses(b, t)' => Uses(b, t) \/ t = s
    BY <1>3 DEF Becomes, Uses, Idle
  <2>3. QED
    BY <1>3, <2>1, <2>2 DEF SessionInv, Becomes
<1>4. ASSUME NEW a \in Apps, NEW s \in Sessions, DestroySession(a, s) PROVE SessionInv'
  <2>1. Becomes(a, "destroy_session", s, None, "color", ChainsOf(client_chains, s), FALSE)
    BY <1>4, BeginMoves
  <2>2. \A b \in Apps : ~Uses(b, s)
    BY <1>4 DEF DestroySession
  <2>3. \A b \in Apps : \A t \in Sessions :
          /\ Uses(b, t)' => (Uses(b, t) /\ t # s) \/ (t = s /\ b = a)
          /\ Destroys(b, t)' => (Destroys(b, t) /\ t # s) \/ (t = s /\ b = a)
    BY <2>1, <2>2 DEF Becomes, Uses, Destroys, Idle
  <2>4. QED
    BY <2>1, <2>3 DEF SessionInv, Becomes
<1>5. ASSUME NEW a \in Apps, Begins(a) PROVE SessionInv'
  <2>1. ASSUME NEW c \in Chains, DestroyChain(a, c) PROVE SessionInv'
    <3>1. client_chains[c] \in Sessions /\ \A b \in Apps : ~Destroys(b, client_chains[c])
      BY <2>1 DEF DestroyChain, TypeOK
    <3>2. QED
      BY <1>3, <2>1, <3>1, BeginMoves
  <2>2. ASSUME NEW s \in Sessions, NEW u \in Usages, CreateChain(a, s, u) PROVE SessionInv'
    BY <1>3, <2>2, BeginMoves DEF CreateChain
  <2>3. QED
    BY <1>2, <1>4, <1>5, <2>1, <2>2 DEF Begins
<1>6. CASE Server \/ TransportCloses \/ Finished \/ UNCHANGED vars
  <2>1. app' = app
    BY <1>6 DEF Server, ServerCreateSession, ServerCreateChain, ServerDestroyChain,
      ServerDestroySession, TransportCloses, Finished, vars
  <2>2. QED
    BY <2>1 DEF SessionInv, Destroys, Uses, Idle
<1>7. QED
  BY <1>1, <1>5, <1>6 DEF Next

-----------------------------------------------------------------------------
(* Swapchains in the hands of a call                                       *)

\* The transport is open, or a call still waits for what was sent before it closed.
Live == up \/ \E a \in Apps : Waits(a)

\* Thread a is about to import swapchain c, or removes it.
Creates(a, c) ==
  \/ app[a].at = "import" /\ app[a].chain = c
  \/ app[a].at = "create_chain" /\ reply.op = "ok" /\ reply.chain = c
Removes(a, c) == app[a].at \in {"destroy_chain", "chain_answer"} /\ app[a].chain = c
Holds(a, c) == Creates(a, c) \/ Removes(a, c)

\* A swapchain in the hands of one call is not in the client's table nor in the hands of
\* another; the server has it until the client asks for its destruction.
HeldChains ==
  \A a \in Apps : \A c \in Chains : Holds(a, c) =>
    /\ client_chains[c] = None
    /\ \A b \in Apps : Holds(b, c) => b = a
    /\ Creates(a, c) \/ (Live /\ app[a].at = "destroy_chain") =>
         server_chains[c] = app[a].session /\ c \in runtime_chains

\* The swapchains that xrDestroySessionImpl still has to destroy are those that the client
\* has of the session, so that none is left when it asks the server to destroy the session.
ToDestroy(call) ==
  /\ call.at = "destroy_session" \/ call.whole => call.todo = ChainsOf(client_chains, call.session)
  /\ call.at \in {"session_send", "session_answer"} => ChainsOf(client_chains, call.session) = {}
AskedFor(req) ==
  /\ req.op = "destroy_session" => ChainsOf(client_chains, req.session) = {}
  /\ req.op = "destroy_chain" => client_chains[req.chain] = None

ChainInv ==
  /\ ClientChainsExist /\ HeldChains
  /\ \A a \in Apps : ToDestroy(app[a])
  /\ AskedFor(request)

\* No call takes a swapchain into its hands.
HandsKept ==
  \A b \in Apps : \A c \in Chains : Holds(b, c)' =>
    /\ Holds(b, c) /\ app'[b].session = app[b].session
    /\ Creates(b, c)' => Creates(b, c)
    /\ app'[b].at = "destroy_chain" => app[b].at = "destroy_chain"

\* While a request is under way, the call that sent it waits.
LEMMA Requester ==
  ASSUME Protocol, request.op # "none", Live
  PROVE  \E w \in Apps : Waits(w) /\ Talks(app[w], request, reply)
BY DEF Protocol, Live

\* A step that takes no swapchain and changes no table of them.
LEMMA QuietHands ==
  ASSUME HeldChains, HandsKept, Live' => Live,
         UNCHANGED <<client_chains, server_chains, runtime_chains>>
  PROVE  HeldChains'
BY DEF HeldChains, HandsKept

\* The first steps of the calls, except DestroyChain.
LEMMA BeginChains ==
  ASSUME TypeOK, Protocol, SessionInv, ChainInv, NEW a \in Apps,
         \/ CreateSession(a)
         \/ \E s \in Sessions : DestroySession(a, s) \/ \E u \in Usages : CreateChain(a, s, u)
  PROVE  ChainInv'
<1>1. /\ UNCHANGED <<client_chains, server_chains, runtime_chains, reply, up>>
      /\ app[a].at = "idle"
  BY DEF CreateSession, DestroySession, CreateChain, client, tables, Idle
<1>2. CASE CreateSession(a) \/ \E s \in Sessions : \E u \in Usages : CreateChain(a, s, u)
  <2>1. /\ app'[a].at \in {"create_session", "create_chain"} /\ ~app'[a].whole
        /\ \A b \in Apps : b # a => app'[b] = app[b]
    BY <1>2, BeginMoves DEF Becomes
  <2>2. up /\ reply.op = "none" /\ request'.op \in {"create_session", "create_chain"}
    BY <1>2, MessageFields DEF CreateSession, CreateChain, CanSend, Protocol, Waits
  <2>3. Live /\ HandsKept
    BY <1>1, <2>1, <2>2 DEF Live, HandsKept, Holds, Creates, Removes
  <2>4. HeldChains'
    BY <1>1, <2>3, QuietHands DEF ChainInv
  <2>5. ClientChainsExist' /\ AskedFor(request)' /\ \A b \in Apps : ToDestroy(app[b])'
    BY <1>1, <2>1, <2>2 DEF ChainInv, ClientChainsExist, AskedFor, ToDestroy
  <2>6. QED
    BY <2>4, <2>5 DEF ChainInv
<1>3. ASSUME NEW s \in Sessions, DestroySession(a, s) PROVE ChainInv'
  <2>1. Becomes(a, "destroy_session", s, None, "color", ChainsOf(client_chains, s), FALSE)
    BY <1>3, BeginMoves
  <2>2. (Live' => Live) /\ HandsKept /\ request' = request
    BY <1>1, <1>3, <2>1
      DEF DestroySession, Becomes, Live, Waits, Locking, HandsKept, Holds, Creates, Removes
  <2>3. HeldChains'
    BY <1>1, <2>2, QuietHands DEF ChainInv
  <2>4. ClientChainsExist' /\ AskedFor(request)' /\ \A b \in Apps : ToDestroy(app[b])'
    BY <1>1, <2>1, <2>2 DEF ChainInv, ClientChainsExist, AskedFor, ToDestroy, Becomes
  <2>5. QED
    BY <2>3, <2>4 DEF ChainInv
<1>4. QED
  BY <1>2, <1>3

\* A call forgets swapchain c and takes it into its hands.
LEMMA ForgetChains ==
  ASSUME TypeOK, Protocol, SessionInv, ChainInv, NEW a \in Apps, NEW s \in Sessions,
         NEW c \in Chains, NEW u, NEW td, NEW w, client_chains[c] = s, Forget(c),
         Becomes(a, "destroy_chain", s, c, u, td, w), w => td = ChainsOf(client_chains, s) \ {c},
         \A b \in Apps : Destroys(b, s) => b = a,
         app[a].at \in {"idle", "destroy_session"},
         UNCHANGED <<server_chains, runtime_chains, request, reply, up>>
  PROVE  ChainInv'
<1>1. s # None
  BY HandlesAssumption
<1>2. /\ client_chains' = [client_chains EXCEPT ![c] = None]
      /\ client_chains \in [Chains -> Sessions \cup {None}]
  BY DEF Forget, TypeOK
<1>3. client_chains'[c] = None /\ \A d \in Chains : d # c => client_chains'[d] = client_chains[d]
  BY <1>2
<1>4. \A t \in Sessions : ChainsOf(client_chains', t) = ChainsOf(client_chains, t) \ {c}
  BY <1>3, HandlesAssumption DEF ChainsOf
<1>5. \A t \in Sessions : t # s => ChainsOf(client_chains', t) = ChainsOf(client_chains, t)
  BY <1>4 DEF ChainsOf
<1>6. server_chains[c] = s /\ c \in runtime_chains /\ \A b \in Apps : ~Holds(b, c)
  BY <1>1 DEF ChainInv, ClientChainsExist, HeldChains
<1>7. ClientChainsExist'
  BY <1>3 DEF ChainInv, ClientChainsExist
<1>8. /\ app'[a].at = "destroy_chain" /\ app'[a].chain = c /\ app'[a].session = s
      /\ app'[a].todo = td /\ app'[a].whole = w
      /\ \A b \in Apps : b # a => app'[b] = app[b]
  BY DEF Becomes
<1>9. Live' => Live
  BY <1>8 DEF Live, Waits, Locking
<1>10. \A b \in Apps : \A d \in Chains : Holds(b, d)' <=> Holds(b, d) \/ (b = a /\ d = c)
  BY <1>8 DEF Holds, Creates, Removes
<1>11. \A b \in Apps : \A d \in Chains : Creates(b, d)' => Creates(b, d) /\ b # a
  BY <1>8 DEF Creates
<1>12. HeldChains'
  <2> SUFFICES ASSUME NEW b \in Apps, NEW d \in Chains, Holds(b, d)'
               PROVE  /\ client_chains'[d] = None
                      /\ \A e \in Apps : Holds(e, d)' => e = b
                      /\ Creates(b, d)' \/ (Live' /\ app'[b].at = "destroy_chain") =>
                           server_chains[d] = app'[b].session /\ d \in runtime_chains
    BY DEF HeldChains
  <2>1. CASE b = a
    <3>1. d = c
      BY <1>8, <2>1 DEF Holds, Creates, Removes
    <3>2. QED
      BY <1>3, <1>6, <1>8, <1>10, <2>1, <3>1
  <2>2. CASE b # a
    <3>1. Holds(b, d) /\ d # c /\ app'[b] = app[b]
      BY <1>6, <1>8, <1>10, <2>2
    <3>2. \A e \in Apps : Holds(e, d)' => e = b
      BY <1>10, <3>1 DEF ChainInv, HeldChains
    <3>3. QED
      BY <1>3, <1>9, <1>11, <3>1, <3>2 DEF ChainInv, HeldChains
  <2>3. QED
    BY <2>1, <2>2
<1>13. ASSUME NEW b \in Apps PROVE ToDestroy(app[b])'
  <2>1. CASE b = a
    BY <1>4, <1>8, <2>1 DEF ToDestroy
  <2>2. CASE b # a
    <3>1. app'[b] = app[b] /\ app[b] \in AppCalls /\ ToDestroy(app[b])
      BY <1>8, <2>2 DEF ChainInv, TypeOK
    <3>2. CASE Destroys(b, app[b].session) /\ app[b].session \in Sessions
      <4>1. app[b].session # s
        BY <2>2, <3>2
      <4>2. QED
        BY <1>5, <3>1, <3>2, <4>1 DEF ToDestroy
    <3>3. CASE ~Destroys(b, app[b].session) \/ app[b].session \notin Sessions
      <4>1. ~app[b].whole /\ app[b].at \notin {"destroy_session", "session_send", "session_answer"}
        BY <3>1, <3>3, CallFields DEF Destroys, Uses, Idle, SessionInv
      <4>2. QED
        BY <3>1, <4>1 DEF ToDestroy
    <3>4. QED
      BY <3>2, <3>3
  <2>3. QED
    BY <2>1, <2>2
<1>14. AskedFor(request)'
  <2>1. WellFormed(request) /\ AskedFor(request)
    BY DEF Protocol, ChainInv
  <2>2. request.op = "destroy_session" => ChainsOf(client_chains', request.session) = {}
    BY <1>4, <2>1 DEF WellFormed, AskedFor
  <2>3. request.op = "destroy_chain" => client_chains'[request.chain] = None
    BY <1>3, <2>1 DEF WellFormed, AskedFor
  <2>4. QED
    BY <2>2, <2>3 DEF AskedFor
<1>15. QED
  BY <1>7, <1>12, <1>13, <1>14 DEF ChainInv

\* The steps that leave the tables of swapchains alone.
LEMMA QuietChains ==
  ASSUME TypeOK, Protocol, SessionInv, ChainInv, NEW a \in Apps,
         \/ CreateSessionDone(a) \/ CreateChainReply(a) \/ DestroyChainDone(a)
         \/ DestroyChainSend(a) \/ DestroySessionPool(a) \/ DestroySessionSend(a)
         \/ DestroySessionDone(a) \/ Throws(a)
  PROVE  ChainInv'
<1>1. UNCHANGED <<client_chains, server_chains, runtime_chains, up>>
  BY DEF CreateSessionDone, CreateChainReply, DestroyChainDone, DestroyChainSend,
    DestroySessionPool, DestroySessionSend, DestroySessionDone, Throws, client, tables
<1>2. app[a] \in AppCalls /\ ToDestroy(app[a]) /\ AskedFor(request) /\ WellFormed(request)
  BY DEF TypeOK, ChainInv, Protocol
\* Another call may wait for its answer only if this one does not.
<1>3. /\ reply' = reply \/ (Waits(a) /\ reply'.op = "none")
      /\ request' = request \/ up
  BY MessageFields DEF CreateSessionDone, CreateChainReply, DestroyChainDone, DestroyChainSend,
    DestroySessionPool, DestroySessionSend, DestroySessionDone, Throws, Answered, Waits,
    Locking, CanSend
<1>4. ClientChainsExist'
  BY <1>1 DEF ChainInv, ClientChainsExist
<1>5. ASSUME \A b \in Apps : b # a => app'[b] = app[b],
             Waits(a)' => up \/ Waits(a),
             \A c \in Chains : Holds(a, c)' =>
               /\ Holds(a, c) /\ app'[a].session = app[a].session
               /\ Creates(a, c)' => Creates(a, c)
               /\ app'[a].at = "destroy_chain" => app[a].at = "destroy_chain",
             ToDestroy(app[a])', AskedFor(request)'
      PROVE  ChainInv'
  <2>1. Live' => Live
    BY <1>1, <1>5 DEF Live, Waits
  <2>2. HandsKept
    <3> SUFFICES ASSUME NEW b \in Apps, b # a, NEW c \in Chains, Holds(b, c)'
                 PROVE  Holds(b, c) /\ (Creates(b, c)' => Creates(b, c))
      BY <1>5 DEF HandsKept
    <3>1. QED
      BY <1>3, <1>5 DEF Holds, Creates, Removes
  <2>3. HeldChains'
    BY <1>1, <2>1, <2>2, QuietHands DEF ChainInv
  <2>4. \A b \in Apps : ToDestroy(app[b])'
    BY <1>1, <1>5 DEF ChainInv, ToDestroy
  <2>5. QED
    BY <1>4, <1>5, <2>3, <2>4 DEF ChainInv
<1>6. CASE Ends(a) /\ request' = request
  <2>1. /\ app'[a].at = "idle" /\ ~app'[a].whole
        /\ \A b \in Apps : b # a => app'[b] = app[b]
    BY <1>6 DEF Ends, Becomes
  <2>2. ToDestroy(app[a])' /\ AskedFor(request)'
    BY <1>1, <1>2, <1>6, <2>1 DEF ToDestroy, AskedFor
  <2>3. QED
    BY <1>5, <2>1, <2>2 DEF Waits, Locking, Holds, Creates, Removes
<1>7. CASE Returns(a) /\ app[a].at \in {"destroy_chain", "chain_answer"} /\ request' = request
  <2>1. CASE app[a].whole
    <3>1. /\ app'[a].at = "destroy_session" /\ app'[a].session = app[a].session
          /\ app'[a].todo = app[a].todo /\ ~app'[a].whole
          /\ \A b \in Apps : b # a => app'[b] = app[b]
      BY <1>7, <2>1 DEF Returns, Becomes
    <3>2. ToDestroy(app[a])' /\ AskedFor(request)'
      BY <1>1, <1>2, <1>7, <2>1, <3>1 DEF ToDestroy, AskedFor
    <3>3. QED
      BY <1>5, <3>1, <3>2 DEF Waits, Locking, Holds, Creates, Removes
  <2>2. CASE ~app[a].whole
    BY <1>6, <1>7, <2>2 DEF Returns
  <2>3. QED
    BY <2>1, <2>2
<1>8. CASE CreateChainReply(a) /\ Accepts(a)
  <2>1. /\ app[a].at = "create_chain" /\ reply.op = "ok" /\ reply.chain \in Chains
        /\ request' = request /\ Waits(a)
    BY <1>8 DEF CreateChainReply, Answered, Accepts, Protocol, Talks, Waits, Locking
  <2>2. Becomes(a, "import", app[a].session, reply.chain, app[a].usage, app[a].todo, app[a].whole)
    BY <1>8, <2>1, ProceedMoves
  <2>3. ~app[a].whole
    BY <2>1 DEF SessionInv
  <2>4. ToDestroy(app[a])' /\ AskedFor(request)'
    BY <1>1, <1>2, <2>1, <2>2, <2>3 DEF ToDestroy, AskedFor, Becomes
  <2>5. QED
    BY <1>5, <2>1, <2>2, <2>4 DEF Becomes, Holds, Creates, Removes
<1>9. CASE DestroyChainSend(a)
  <2>1. Becomes(a, "chain_answer", app[a].session, app[a].chain, app[a].usage, app[a].todo,
                app[a].whole)
    BY <1>9, ProceedMoves
  <2>2. app[a].at = "destroy_chain" /\ up /\ app[a].chain \in Chains
    BY <1>2, <1>9, CallFields DEF DestroyChainSend, CanSend
  <2>3. client_chains[app[a].chain] = None
    BY <2>2 DEF ChainInv, HeldChains, Holds, Removes
  <2>4. request'.op = "destroy_chain" /\ request'.chain = app[a].chain
    BY <1>9, MessageFields DEF DestroyChainSend
  <2>5. ToDestroy(app[a])' /\ AskedFor(request)'
    BY <1>1, <1>2, <2>1, <2>2, <2>3, <2>4 DEF ToDestroy, AskedFor, Becomes
  <2>6. QED
    BY <1>5, <2>1, <2>2, <2>5 DEF Becomes, Holds, Creates, Removes
<1>10. CASE DestroySessionPool(a)
  <2>1. Becomes(a, "session_send", app[a].session, None, app[a].usage, app[a].todo, app[a].whole)
    BY <1>10, ProceedMoves
  <2>2. app[a].at = "destroy_session" /\ app[a].todo = {} /\ request' = request /\ ~app[a].whole
    BY <1>10 DEF DestroySessionPool, DestroysChains, SessionInv
  <2>3. ToDestroy(app[a])' /\ AskedFor(request)'
    BY <1>1, <1>2, <2>1, <2>2 DEF ToDestroy, AskedFor, Becomes
  <2>4. QED
    BY <1>5, <2>1, <2>3 DEF Becomes, Waits, Locking, Holds, Creates, Removes
<1>11. CASE DestroySessionSend(a)
  <2>1. Becomes(a, "session_answer", app[a].session, None, app[a].usage, app[a].todo, app[a].whole)
    BY <1>11, ProceedMoves
  <2>2. app[a].at = "session_send" /\ up /\ ~app[a].whole
    BY <1>11 DEF DestroySessionSend, CanSend, SessionInv
  <2>3. request'.op = "destroy_session" /\ request'.session = app[a].session
    BY <1>11, MessageFields DEF DestroySessionSend
  <2>4. ToDestroy(app[a])' /\ AskedFor(request)'
    BY <1>1, <1>2, <2>1, <2>2, <2>3 DEF ToDestroy, AskedFor, Becomes
  <2>5. QED
    BY <1>5, <2>1, <2>2, <2>4 DEF Becomes, Waits, Locking, Holds, Creates, Removes
<1>12. QED
  BY <1>6, <1>7, <1>8, <1>9, <1>10, <1>11, ProceedMoves, ThrowsMoves
    DEF CreateSessionDone, CreateChainReply, DestroyChainDone, DestroySessionDone, Throws, Answered

\* import_images puts the swapchain into the client's table.
LEMMA ImportChains ==
  ASSUME TypeOK, Protocol, SessionInv, ChainInv, NEW a \in Apps, Import(a)
  PROVE  ChainInv'
<1>1. PICK c, s : c = app[a].chain /\ s = app[a].session
  OBVIOUS
<1>2. /\ app[a].at = "import" /\ Ends(a) /\ Waits(a) /\ c \in Chains /\ s \in Sessions
      /\ UNCHANGED <<server_chains, runtime_chains, request, reply, up>>
  BY <1>1, ProceedMoves, CallFields DEF Import, TypeOK, tables, Waits, Locking
<1>3. /\ app'[a].at = "idle" /\ ~app'[a].whole
      /\ \A b \in Apps : b # a => app'[b] = app[b]
  BY <1>2 DEF Ends, Becomes
<1>4. request.op = "none" /\ Live
  BY <1>2 DEF Protocol, Talks, Live
<1>5. AskedFor(request)'
  BY <1>2, <1>4 DEF AskedFor
<1>6. HandsKept /\ \A b \in Apps : \A d \in Chains : Holds(b, d)' => b # a
  BY <1>2, <1>3 DEF HandsKept, Holds, Creates, Removes
<1>7. CASE client_chains' = [client_chains EXCEPT ![c] = s]
  <2>1. Holds(a, c) /\ Creates(a, c)
    BY <1>1, <1>2 DEF Holds, Creates
  <2>2. /\ client_chains[c] = None /\ server_chains[c] = s /\ c \in runtime_chains
        /\ \A b \in Apps : Holds(b, c) => b = a
    BY <1>1, <1>2, <2>1 DEF ChainInv, HeldChains
  <2>3. client_chains'[c] = s /\ \A d \in Chains : d # c => client_chains'[d] = client_chains[d]
    BY <1>2, <1>7 DEF TypeOK
  <2>4. ClientChainsExist'
    BY <1>2, <2>2, <2>3 DEF ChainInv, ClientChainsExist
  <2>5. \A b \in Apps : \A d \in Chains : Holds(b, d)' => d # c
    BY <1>6, <2>2 DEF HandsKept
  <2>6. HeldChains'
    BY <1>2, <1>4, <1>6, <2>3, <2>5 DEF ChainInv, HeldChains, HandsKept
  <2>7. \A t \in Sessions : t # s => ChainsOf(client_chains', t) = ChainsOf(client_chains, t)
    BY <2>2, <2>3, HandlesAssumption DEF ChainsOf
  <2>8. ASSUME NEW b \in Apps PROVE ToDestroy(app[b])'
    <3>1. CASE b = a
      BY <1>3, <3>1 DEF ToDestroy
    <3>2. CASE b # a
      <4>1. app'[b] = app[b] /\ app[b] \in AppCalls /\ ToDestroy(app[b])
        BY <1>3, <3>2 DEF ChainInv, TypeOK
      <4>2. CASE Destroys(b, app[b].session) /\ app[b].session \in Sessions
        <5>1. app[b].session # s
          BY <1>1, <1>2, <3>2, <4>2 DEF SessionInv, Uses, Idle
        <5>2. QED
          BY <2>7, <4>1, <4>2, <5>1 DEF ToDestroy
      <4>3. CASE ~Destroys(b, app[b].session) \/ app[b].session \notin Sessions
        <5>1. ~app[b].whole /\ app[b].at \notin {"destroy_session", "session_send", "session_answer"}
          BY <4>1, <4>3, CallFields DEF Destroys, Uses, Idle, SessionInv
        <5>2. QED
          BY <4>1, <5>1 DEF ToDestroy
      <4>4. QED
        BY <4>2, <4>3
    <3>3. QED
      BY <3>1, <3>2
  <2>9. QED
    BY <1>5, <2>4, <2>6, <2>8 DEF ChainInv
<1>8. CASE client_chains' = client_chains
  <2>1. HeldChains'
    BY <1>2, <1>4, <1>6, <1>8, QuietHands DEF ChainInv
  <2>2. ClientChainsExist' /\ \A b \in Apps : ToDestroy(app[b])'
    BY <1>2, <1>3, <1>8 DEF ChainInv, ClientChainsExist, ToDestroy
  <2>3. QED
    BY <1>5, <2>1, <2>2 DEF ChainInv
<1>9. QED
  BY <1>1, <1>7, <1>8 DEF Import

\* What handle_create_swapchain leaves: new swapchains only, and in an answer only one of
\* them, for the call that waits.
LEMMA ServerCreatesNew ==
  ASSUME TypeOK, Protocol, ServerCreateChain
  PROVE  /\ runtime_chains \subseteq runtime_chains'
         /\ \A c \in runtime_chains : server_chains'[c] = server_chains[c]
         /\ \/ reply' = reply
            \/ up /\ reply'.op = "error"
            \/ /\ up /\ reply'.op = "ok" /\ reply'.chain \in Chains \ runtime_chains
               /\ reply'.chain \in runtime_chains' /\ request.usage # "neither"
               /\ server_chains'[reply'.chain] = request.session
         /\ request' = NoMessage
<1>1. CASE /\ Replies(Message("error", request.session, None, "color"))
           /\ UNCHANGED <<runtime_chains, server_chains>>
  BY <1>1, MessageFields DEF Replies
<1>2. ASSUME NEW c \in Chains \ runtime_chains, runtime_chains' = runtime_chains \cup {c},
             \/ server_chains' = [server_chains EXCEPT ![c] = request.session]
             \/ server_chains' = server_chains
      PROVE  /\ runtime_chains \subseteq runtime_chains' /\ c \in runtime_chains'
             /\ \A d \in runtime_chains : server_chains'[d] = server_chains[d]
  BY <1>2 DEF TypeOK
<1>3. ASSUME NEW c \in Chains \ runtime_chains, runtime_chains' = runtime_chains \cup {c},
             server_chains' = [server_chains EXCEPT ![c] = request.session],
             request.usage # "neither", Replies(Message("ok", request.session, c, "color"))
      PROVE  /\ \/ reply' = reply
                \/ /\ up /\ reply'.op = "ok" /\ reply'.chain \in Chains \ runtime_chains
                   /\ reply'.chain \in runtime_chains' /\ request.usage # "neither"
                   /\ server_chains'[reply'.chain] = request.session
             /\ request' = NoMessage
  BY <1>3, MessageFields DEF Replies, TypeOK
<1>4. ASSUME NEW c \in Chains \ runtime_chains, runtime_chains' = runtime_chains \cup {c},
             /\ request.usage # "neither"
             /\ server_chains' = [server_chains EXCEPT ![c] = request.session]
             /\ Replies(Message("ok", request.session, c, "color"))
      PROVE  /\ runtime_chains \subseteq runtime_chains'
             /\ \A d \in runtime_chains : server_chains'[d] = server_chains[d]
             /\ \/ reply' = reply
                \/ /\ up /\ reply'.op = "ok" /\ reply'.chain \in Chains \ runtime_chains
                   /\ reply'.chain \in runtime_chains' /\ request.usage # "neither"
                   /\ server_chains'[reply'.chain] = request.session
             /\ request' = NoMessage
  BY <1>2, <1>3, <1>4
<1>5. ASSUME NEW c \in Chains \ runtime_chains, runtime_chains' = runtime_chains \cup {c},
             \/ server_chains' = [server_chains EXCEPT ![c] = request.session]
             \/ server_chains' = server_chains,
             NoReply
      PROVE  /\ runtime_chains \subseteq runtime_chains'
             /\ \A d \in runtime_chains : server_chains'[d] = server_chains[d]
             /\ reply' = reply /\ request' = NoMessage
  BY <1>2, <1>5 DEF NoReply
<1>6. QED
  BY <1>1, <1>4, <1>5 DEF ServerCreateChain

\* The handlers of the server, for the swapchains that the client knows or has in hand.
LEMMA ServerChains ==
  ASSUME TypeOK, Protocol, SessionInv, ChainInv, Server
  PROVE  ChainInv'
<1>1. /\ UNCHANGED <<app, client_chains, up>> /\ request' = NoMessage /\ request'.op = "none"
      /\ request.op # "none" /\ WellFormed(request) /\ AskedFor(request)
  BY MessageFields DEF Server, ServerCreateSession, ServerCreateChain, ServerDestroyChain,
    ServerDestroySession, client, Replies, NoReply, Protocol, ChainInv
<1>2. AskedFor(request)' /\ (Live' <=> Live) /\ \A a \in Apps : ToDestroy(app[a])'
  BY <1>1 DEF AskedFor, Live, Waits, ChainInv, ToDestroy
<1>3. \A a \in Apps : \A c \in Chains : Removes(a, c)' <=> Removes(a, c)
  BY <1>1 DEF Removes
<1>4. CASE ServerCreateSession
  <2>1. UNCHANGED <<server_chains, runtime_chains>>
    BY <1>4 DEF ServerCreateSession
  <2>2. reply' = reply \/ reply'.chain \notin Chains
    BY <1>4, MessageFields, HandlesAssumption DEF ServerCreateSession, Replies, NoReply
  <2>3. HandsKept
    BY <1>1, <2>2 DEF HandsKept, Holds, Creates, Removes
  <2>4. HeldChains'
    BY <1>1, <1>2, <2>1, <2>3, QuietHands DEF ChainInv
  <2>5. QED
    BY <1>1, <1>2, <2>1, <2>4 DEF ChainInv, ClientChainsExist
<1>5. CASE ServerCreateChain
  <2>1. /\ runtime_chains \subseteq runtime_chains'
        /\ \A c \in runtime_chains : server_chains'[c] = server_chains[c]
        /\ \/ reply' = reply
           \/ up /\ reply'.op = "error"
           \/ /\ up /\ reply'.op = "ok" /\ reply'.chain \in Chains \ runtime_chains
              /\ reply'.chain \in runtime_chains'
              /\ server_chains'[reply'.chain] = request.session
    BY <1>5, ServerCreatesNew
  <2>2. ClientChainsExist'
    BY <1>1, <2>1 DEF ChainInv, ClientChainsExist
  <2>3. CASE reply' = reply \/ reply'.op = "error"
    <3>1. HandsKept
      BY <1>1, <2>3 DEF HandsKept, Holds, Creates, Removes
    <3>2. HeldChains'
      BY <1>1, <1>2, <2>1, <3>1 DEF ChainInv, HeldChains, HandsKept
    <3>3. QED
      BY <1>2, <2>2, <3>2 DEF ChainInv
  <2>4. CASE /\ up /\ reply'.op = "ok" /\ reply'.chain \in Chains \ runtime_chains
             /\ reply'.chain \in runtime_chains'
             /\ server_chains'[reply'.chain] = request.session
    <3>1. PICK n \in Chains : n = reply'.chain
      BY <2>4
    <3>2. request.op = "create_chain" /\ Live
      BY <1>5, <2>4 DEF ServerCreateChain, Live
    <3>3. PICK w \in Apps : Waits(w) /\ Talks(app[w], request, reply)
      BY <1>1, <3>2, Requester
    <3>4. /\ app[w].at = "create_chain" /\ request.session = app[w].session
          /\ \A b \in Apps : Waits(b) => b = w
      BY <3>2, <3>3 DEF Talks, Waits, Locking, Protocol, Exclusive
    <3>5. client_chains[n] = None
      BY <2>4, <3>1 DEF ChainInv, ClientChainsExist
    \* Nobody has the new swapchain in hand but the call that waits.
    <3>6. \A b \in Apps : ~Removes(b, n)
      <4> SUFFICES ASSUME NEW b \in Apps, Removes(b, n) PROVE FALSE
        OBVIOUS
      <4>1. app[b].at = "destroy_chain"
        BY <3>4 DEF Removes, Waits, Locking
      <4>2. n \in runtime_chains
        BY <3>2, <4>1 DEF ChainInv, HeldChains, Holds
      <4>3. QED
        BY <2>4, <3>1, <4>2
    <3>7. \A b \in Apps : \A c \in Chains : Creates(b, c)' => b = w /\ c = n
      <4> SUFFICES ASSUME NEW b \in Apps, NEW c \in Chains, Creates(b, c)' PROVE b = w /\ c = n
        OBVIOUS
      <4>1. b = w
        BY <1>1, <3>4 DEF Creates, Waits, Locking
      <4>2. QED
        BY <1>1, <3>1, <3>4, <4>1 DEF Creates
    <3>8. HeldChains'
      <4> SUFFICES ASSUME NEW b \in Apps, NEW c \in Chains, Holds(b, c)'
                   PROVE  /\ client_chains[c] = None
                          /\ \A e \in Apps : Holds(e, c)' => e = b
                          /\ Creates(b, c)' \/ (Live' /\ app[b].at = "destroy_chain") =>
                               server_chains'[c] = app[b].session /\ c \in runtime_chains'
        BY <1>1 DEF HeldChains
      <4>1. CASE Creates(b, c)'
        BY <1>3, <2>4, <3>1, <3>4, <3>5, <3>6, <3>7, <4>1 DEF Holds
      <4>2. CASE ~Creates(b, c)'
        <5>1. Removes(b, c) /\ c # n /\ Holds(b, c)
          BY <1>3, <3>6, <4>2 DEF Holds
        <5>2. \A e \in Apps : Holds(e, c)' => e = b
          BY <1>3, <3>7, <5>1 DEF ChainInv, HeldChains, Holds
        <5>3. QED
          BY <1>2, <2>1, <4>2, <5>1, <5>2 DEF ChainInv, HeldChains
      <4>3. QED
        BY <4>1, <4>2
    <3>9. QED
      BY <1>2, <2>2, <3>8 DEF ChainInv
  <2>5. QED
    BY <2>1, <2>3, <2>4
<1>6. CASE ServerDestroyChain \/ ServerDestroySession
  <2>1. request.op \in {"destroy_chain", "destroy_session"}
    BY <1>6 DEF ServerDestroyChain, ServerDestroySession
  \* The call that waits creates nothing.
  <2>2. \A b \in Apps : \A c \in Chains : ~Creates(b, c)'
    <3> SUFFICES ASSUME NEW b \in Apps, NEW c \in Chains, Creates(b, c)' PROVE FALSE
      OBVIOUS
    <3>1. app[b].at \in {"import", "create_chain"} /\ Waits(b)
      BY <1>1 DEF Creates, Waits, Locking
    <3>2. QED
      BY <2>1, <3>1 DEF Protocol, Talks
  <2>3. ASSUME NEW gone \in SUBSET Chains,
               \A c \in Chains : client_chains[c] # None => c \notin gone,
               \A b \in Apps : \A c \in Chains :
                 Removes(b, c) /\ Live /\ app[b].at = "destroy_chain" => c \notin gone,
               \A c \in Chains : c \notin gone => server_chains'[c] = server_chains[c],
               \A c \in Chains : c \notin gone /\ c \in runtime_chains => c \in runtime_chains'
        PROVE  ChainInv'
    <3>1. ClientChainsExist'
      BY <1>1, <2>3 DEF ChainInv, ClientChainsExist
    <3>2. HeldChains'
      <4> SUFFICES ASSUME NEW b \in Apps, NEW c \in Chains, Removes(b, c)
                   PROVE  /\ client_chains[c] = None
                          /\ \A e \in Apps : Removes(e, c) => e = b
                          /\ Live /\ app[b].at = "destroy_chain" =>
                               server_chains'[c] = app[b].session /\ c \in runtime_chains'
        BY <1>1, <1>2, <1>3, <2>2 DEF HeldChains, Holds
      <4>1. Holds(b, c) /\ \A e \in Apps : Removes(e, c) => Holds(e, c)
        BY DEF Holds
      <4>2. QED
        BY <2>3, <4>1 DEF ChainInv, HeldChains
    <3>3. QED
      BY <1>2, <3>1, <3>2 DEF ChainInv
  <2>4. CASE ServerDestroyChain
    <3>1. PICK d \in Chains : d = request.chain
      BY <1>1, <2>4 DEF ServerDestroyChain, WellFormed
    <3>2. /\ request.op = "destroy_chain" /\ server_chains' = [server_chains EXCEPT ![d] = None]
          /\ runtime_chains \ {d} \subseteq runtime_chains'
      BY <2>4, <3>1 DEF ServerDestroyChain
    <3>3. client_chains[d] = None
      BY <1>1, <3>1, <3>2 DEF AskedFor
    <3>4. \A b \in Apps : Removes(b, d) /\ Live => app[b].at # "destroy_chain"
      <4> SUFFICES ASSUME NEW b \in Apps, Removes(b, d), Live, app[b].at = "destroy_chain"
                   PROVE  FALSE
        OBVIOUS
      <4>1. PICK w \in Apps : Waits(w) /\ Talks(app[w], request, reply)
        BY <1>1, Requester
      <4>2. app[w].at = "chain_answer" /\ app[w].chain = d
        BY <3>1, <3>2, <4>1 DEF Talks, Waits, Locking
      <4>3. b = w
        BY <4>2 DEF ChainInv, HeldChains, Holds, Removes
      <4>4. QED
        BY <4>2, <4>3
    <3>5. /\ \A c \in Chains : client_chains[c] # None => c \notin {d}
          /\ \A b \in Apps : \A c \in Chains :
               Removes(b, c) /\ Live /\ app[b].at = "destroy_chain" => c \notin {d}
          /\ \A c \in Chains : c \notin {d} => server_chains'[c] = server_chains[c]
          /\ \A c \in Chains : c \notin {d} /\ c \in runtime_chains => c \in runtime_chains'
      BY <3>2, <3>3, <3>4 DEF TypeOK
    <3>6. QED
      BY <2>3, <3>5
  <2>5. CASE ServerDestroySession
    <3>1. PICK s \in Sessions : s = request.session
      BY <1>1, <2>5 DEF ServerDestroySession, WellFormed
    <3>2. PICK gone \in SUBSET ChainsOf(server_chains, s) :
            /\ server_chains' = [c \in Chains |-> IF c \in gone THEN None ELSE server_chains[c]]
            /\ runtime_chains' = runtime_chains \ gone
      BY <2>5, <3>1 DEF ServerDestroySession
    <3>3. \A c \in gone : c \in Chains /\ server_chains[c] = s
      BY <3>2 DEF ChainsOf
    <3>4. request.op = "destroy_session" /\ ChainsOf(client_chains, s) = {}
      BY <1>1, <2>5, <3>1 DEF ServerDestroySession, AskedFor
    <3>5. \A c \in Chains : client_chains[c] # None => c \notin gone
      BY <3>3, <3>4 DEF ChainInv, ClientChainsExist, ChainsOf
    <3>6. ASSUME NEW b \in Apps, NEW c \in Chains, Removes(b, c), Live,
                 app[b].at = "destroy_chain", c \in gone
          PROVE  FALSE
      <4>1. PICK w \in Apps : Waits(w) /\ Talks(app[w], request, reply)
        BY <1>1, <3>6, Requester
      <4>2. app[w].at = "session_answer" /\ app[w].session = s
        BY <3>1, <3>4, <4>1 DEF Talks, Waits, Locking
      <4>3. app[b].session = s
        BY <3>3, <3>6 DEF ChainInv, HeldChains, Holds
      <4>4. b = w
        BY <3>6, <4>2, <4>3 DEF SessionInv, Destroys, Uses, Idle
      <4>5. QED
        BY <3>6, <4>2, <4>4
    <3>7. /\ \A c \in Chains : c \notin gone => server_chains'[c] = server_chains[c]
          /\ \A c \in Chains : c \notin gone /\ c \in runtime_chains => c \in runtime_chains'
      BY <3>2
    <3>8. QED
      BY <2>3, <3>3, <3>5, <3>6, <3>7
  <2>6. QED
    BY <1>6, <2>4, <2>5
<1>7. QED
  BY <1>4, <1>5, <1>6 DEF Server

\* Every step keeps what the calls have in hand.
LEMMA ChainStep ==
  ASSUME TypeOK, Protocol, SessionInv, ChainInv, [Next]_vars
  PROVE  ChainInv'
<1>1. ASSUME NEW a \in Apps, NEW c \in Chains, DestroyChain(a, c) PROVE ChainInv'
  <2>1. PICK s \in Sessions : s = client_chains[c]
    BY <1>1 DEF DestroyChain, TypeOK
  <2>2. Becomes(a, "destroy_chain", s, c, "color", {}, FALSE)
    BY <1>1, <2>1, BeginMoves
  <2>3. /\ Forget(c) /\ app[a].at = "idle" /\ \A b \in Apps : ~Destroys(b, s)
        /\ UNCHANGED <<server_chains, runtime_chains, request, reply, up>>
    BY <1>1, <2>1 DEF DestroyChain, Idle, tables
  <2>4. QED
    BY <2>1, <2>2, <2>3, ForgetChains
<1>2. ASSUME NEW a \in Apps, DestroySessionChain(a) PROVE ChainInv'
  <2>1. PICK c \in app[a].todo :
          /\ Forget(c) /\ c \in Chains
          /\ Becomes(a, "destroy_chain", app[a].session, c, app[a].usage, app[a].todo \ {c}, TRUE)
    BY <1>2, NextChainMoves
  <2>2. app[a].at = "destroy_session" /\ app[a] \in AppCalls
    BY <1>2 DEF DestroySessionChain, TypeOK
  <2>3. PICK s \in Sessions : s = app[a].session
    BY <2>2, CallFields
  <2>4. app[a].todo = ChainsOf(client_chains, s)
    BY <2>2, <2>3 DEF ChainInv, ToDestroy
  <2>5. client_chains[c] = s
    BY <2>1, <2>4 DEF ChainsOf
  <2>6. \A b \in Apps : Destroys(b, s) => b = a
    BY <2>2, <2>3 DEF SessionInv, Uses, Idle
  <2>7. UNCHANGED <<server_chains, runtime_chains, request, reply, up>>
    BY <1>2 DEF DestroySessionChain, tables
  <2>8. PICK u, td : u = app[a].usage /\ td = app[a].todo \ {c}
    OBVIOUS
  <2>9. Becomes(a, "destroy_chain", s, c, u, td, TRUE) /\ td = ChainsOf(client_chains, s) \ {c}
    BY <2>1, <2>3, <2>4, <2>8
  <2>10. QED
    BY <2>1, <2>2, <2>5, <2>6, <2>7, <2>9, ForgetChains
<1>3. ASSUME NEW a \in Apps, Proceeds(a) \/ Begins(a) PROVE ChainInv'
  BY <1>1, <1>2, <1>3, BeginChains, QuietChains, ImportChains DEF Proceeds, Begins
<1>4. CASE TransportCloses \/ Finished \/ UNCHANGED vars
  <2>1. /\ UNCHANGED <<app, client_chains, request, reply, server_chains, runtime_chains>>
        /\ up' => up
    BY <1>4 DEF TransportCloses, Finished, vars, client, tables
  <2>2. (Live' => Live) /\ HandsKept
    BY <2>1 DEF Live, Waits, HandsKept, Holds, Creates, Removes
  <2>3. HeldChains'
    BY <2>1, <2>2, QuietHands DEF ChainInv
  <2>4. QED
    BY <2>1, <2>3 DEF ChainInv, ClientChainsExist, ToDestroy, AskedFor
<1>5. QED
  BY <1>3, <1>4, ServerChains DEF Next

\* The invariant of sessions and swapchains.
LEMMA LifecycleInvariant == Spec => [](TypeOK /\ Protocol /\ SessionInv /\ ChainInv)
<1>1. Init => SessionInv /\ ChainInv
  <2> SUFFICES ASSUME Init PROVE SessionInv /\ ChainInv
    OBVIOUS
  <2>1. /\ \A a \in Apps : app[a].at = "idle" /\ ~app[a].whole
        /\ request.op = "none" /\ \A c \in Chains : client_chains[c] = None
    BY MessageFields DEF Init, IdleCall, Call
  <2>2. QED
    BY <2>1 DEF SessionInv, Destroys, Uses, Idle, ChainInv, ClientChainsExist, HeldChains,
      Holds, Creates, Removes, ToDestroy, AskedFor
<1>2. QED
  BY <1>1, SessionStep, ChainStep, ProtocolInvariant, PTL DEF Spec

\* A swapchain that the client knows exists on the server, under the same session, and in
\* the runtime: at every moment of every call, for any number of threads, whatever fails,
\* whether or not the transport closes and whether or not the runtime reuses handles.
THEOREM ChainsExist == Spec => []ClientChainsExist
<1>1. ChainInv => ClientChainsExist
  BY DEF ChainInv
<1>2. QED
  BY <1>1, LifecycleInvariant, PTL

-----------------------------------------------------------------------------
(* The command pools                                                       *)

\* The state of a new session is stored under a handle that the client's table does not
\* hold; a pool is destroyed only by the thread that destroys its session.
PoolInv ==
  /\ \A s \in Sessions : s \notin server_sessions => command_pool[s] = "none"
  /\ \A a \in Apps : app[a].at = "create_session" /\ reply.op = "ok" =>
       command_pool[reply.session] = "none" /\ reply.session \in server_sessions
  /\ \A a \in Apps : app[a].session # None => command_pool[app[a].session] # "none"
  /\ \A s \in open_sessions : command_pool[s] # "none"
  /\ \A c \in Chains : client_chains[c] # None => command_pool[client_chains[c]] # "none"
  /\ \A a \in Apps : app[a].at \in {"create_chain", "import"} =>
       command_pool[app[a].session] = "live"
  /\ \A s \in open_sessions : up /\ command_pool[s] # "live" =>
       \E a \in Apps : app[a].at \in {"session_send", "session_answer"} /\ app[a].session = s

\* Every step keeps the pools, if the runtime does not reuse the handles of sessions.
LEMMA PoolStep ==
  ASSUME ~ReusesHandles, TypeOK, Protocol, SessionInv, ChainInv, PoolInv, [Next]_vars
  PROVE  PoolInv'
<1>1. ASSUME NEW a \in Apps, \A b \in Apps : b # a => app'[b] = app[b],
             UNCHANGED <<command_pool, server_sessions>>,
             open_sessions' \subseteq open_sessions,
             \A c \in Chains : client_chains'[c] # None => command_pool[client_chains'[c]] # "none",
             up' => up, reply' = reply \/ reply'.op = "none",
             app'[a].at = "create_session" => reply'.op = "none",
             app'[a].session # None => command_pool[app'[a].session] # "none",
             app'[a].at \in {"create_chain", "import"} => command_pool[app'[a].session] = "live",
             ~up \/ app[a].at \notin {"session_send", "session_answer"}
               \/ (app'[a].at = "session_answer" /\ app'[a].session = app[a].session)
               \/ app[a].session \notin open_sessions'
      PROVE  PoolInv'
  <2>1. \A s \in open_sessions' : up' /\ command_pool'[s] # "live" =>
          \E b \in Apps : app'[b].at \in {"session_send", "session_answer"} /\ app'[b].session = s
    <3> SUFFICES ASSUME NEW s \in open_sessions', up', command_pool[s] # "live"
                 PROVE  \E b \in Apps : /\ app'[b].at \in {"session_send", "session_answer"}
                                        /\ app'[b].session = s
      BY <1>1
    <3>1. PICK b \in Apps : app[b].at \in {"session_send", "session_answer"} /\ app[b].session = s
      BY <1>1 DEF PoolInv
    <3>2. CASE b # a
      BY <1>1, <3>1, <3>2
    <3>3. CASE b = a
      BY <1>1, <3>1, <3>3
    <3>4. QED
      BY <3>2, <3>3
  <2>2. \A b \in Apps : app'[b].at = "create_session" /\ reply'.op = "ok" =>
          command_pool[reply'.session] = "none" /\ reply'.session \in server_sessions
    BY <1>1 DEF PoolInv
  <2>3. \A b \in Apps :
          /\ app'[b].session # None => command_pool[app'[b].session] # "none"
          /\ app'[b].at \in {"create_chain", "import"} => command_pool[app'[b].session] = "live"
    BY <1>1 DEF PoolInv
  <2>4. QED
    BY <1>1, <2>1, <2>2, <2>3 DEF PoolInv
<1>2. ASSUME NEW a \in Apps, Begins(a) PROVE PoolInv'
  <2>1. /\ UNCHANGED <<command_pool, open_sessions, server_sessions, reply, up>>
        /\ app[a].at = "idle"
    BY <1>2 DEF Begins, CreateSession, CreateChain, DestroyChain, DestroySession, client,
      tables, Idle
  <2>2. CASE CreateSession(a)
    <3>1. Becomes(a, "create_session", None, None, "color", {}, FALSE)
      BY <2>2, BeginMoves
    <3>2. reply.op = "none" /\ client_chains' = client_chains
      BY <2>2 DEF CreateSession, CanSend, Protocol, Waits, client
    <3>3. \A c \in Chains : client_chains'[c] # None => command_pool[client_chains'[c]] # "none"
      BY <3>2 DEF PoolInv
    <3>4. QED
      BY <1>1, <2>1, <3>1, <3>2, <3>3 DEF Becomes
  <2>3. ASSUME NEW s \in Sessions, NEW u \in Usages, CreateChain(a, s, u) PROVE PoolInv'
    <3>1. Becomes(a, "create_chain", s, None, u, {}, FALSE)
      BY <2>3, BeginMoves
    <3>2. /\ up /\ s \in open_sessions /\ client_chains' = client_chains
          /\ \A b \in Apps : ~Destroys(b, s)
      BY <2>3 DEF CreateChain, CanSend, client
    <3>3. command_pool[s] = "live"
      <4>1. \A b \in Apps : ~(app[b].at \in {"session_send", "session_answer"} /\ app[b].session = s)
        BY <3>2 DEF Destroys, Uses, Idle
      <4>2. QED
        BY <3>2, <4>1 DEF PoolInv
    <3>4. \A c \in Chains : client_chains'[c] # None => command_pool[client_chains'[c]] # "none"
      BY <3>2 DEF PoolInv
    <3>5. QED
      BY <1>1, <2>1, <3>1, <3>3, <3>4 DEF Becomes
  <2>4. ASSUME NEW c \in Chains, DestroyChain(a, c) PROVE PoolInv'
    <3>1. Becomes(a, "destroy_chain", client_chains[c], c, "color", {}, FALSE)
      BY <2>4, BeginMoves
    <3>2. command_pool[client_chains[c]] # "none"
      BY <2>4 DEF DestroyChain, PoolInv
    <3>3. \A d \in Chains : client_chains'[d] # None => command_pool[client_chains'[d]] # "none"
      BY <2>4 DEF DestroyChain, Forget, PoolInv, TypeOK
    <3>4. QED
      BY <1>1, <2>1, <3>1, <3>2, <3>3 DEF Becomes
  <2>5. ASSUME NEW s \in Sessions, DestroySession(a, s) PROVE PoolInv'
    <3>1. Becomes(a, "destroy_session", s, None, "color", ChainsOf(client_chains, s), FALSE)
      BY <2>5, BeginMoves
    <3>2. command_pool[s] # "none" /\ client_chains' = client_chains
      BY <2>5 DEF DestroySession, PoolInv, client
    <3>3. \A d \in Chains : client_chains'[d] # None => command_pool[client_chains'[d]] # "none"
      BY <3>2 DEF PoolInv
    <3>4. QED
      BY <1>1, <2>1, <3>1, <3>2, <3>3 DEF Becomes
  <2>6. QED
    BY <1>2, <2>2, <2>3, <2>4, <2>5 DEF Begins
<1>3. ASSUME NEW a \in Apps, CreateSessionDone(a) PROVE PoolInv'
  <2>1. PICK s : s = reply.session
    OBVIOUS
  <2>2. /\ Ends(a) /\ app[a].at = "create_session" /\ reply.op = "ok" /\ s \in Sessions
        /\ Waits(a)
    BY <1>3, <2>1, ProceedMoves DEF CreateSessionDone, Answered, Protocol, Talks, Waits, Locking
  <2>3. command_pool[s] = "none" /\ s \in server_sessions
    BY <2>1, <2>2 DEF PoolInv
  <2>4. /\ UNCHANGED <<client_chains, server_sessions, up>> /\ reply'.op = "none"
    BY <1>3, MessageFields DEF CreateSessionDone, tables
  <2>5. \/ /\ command_pool' = [command_pool EXCEPT ![s] = "live"]
           /\ open_sessions' = open_sessions \cup {s}
        \/ UNCHANGED <<command_pool, open_sessions>>
    BY <1>3, <2>1, <2>3 DEF CreateSessionDone, StoreSession
  <2>6. /\ app'[a].at = "idle" /\ app'[a].session = None
        /\ \A b \in Apps : b # a => app'[b] = app[b]
    BY <2>2 DEF Ends, Becomes
  <2>7. CASE UNCHANGED <<command_pool, open_sessions>>
    <3>1. \A c \in Chains : client_chains'[c] # None => command_pool[client_chains'[c]] # "none"
      BY <2>4 DEF PoolInv
    <3>2. QED
      BY <1>1, <2>2, <2>4, <2>6, <2>7, <3>1
  <2>8. CASE /\ command_pool' = [command_pool EXCEPT ![s] = "live"]
             /\ open_sessions' = open_sessions \cup {s}
    <3>1. command_pool'[s] = "live" /\ \A t \in Sessions : t # s => command_pool'[t] = command_pool[t]
      BY <2>2, <2>8 DEF TypeOK
    <3>2. \A t \in Sessions : t \notin server_sessions' => command_pool'[t] = "none"
      BY <2>3, <2>4, <3>1 DEF PoolInv
    <3>3. \A b \in Apps : app'[b].at = "create_session" /\ reply'.op = "ok" =>
            command_pool'[reply'.session] = "none" /\ reply'.session \in server_sessions'
      BY <2>4
    <3>4. ASSUME NEW b \in Apps
          PROVE  /\ app'[b].session # None => command_pool'[app'[b].session] # "none"
                 /\ app'[b].at \in {"create_chain", "import"} => command_pool'[app'[b].session] = "live"
      <4>1. app[b] \in AppCalls
        BY DEF TypeOK
      <4>2. app[b].session \in Sessions \/ app[b].session = None
        BY <4>1, CallFields
      <4>3. app[b].at \in {"create_chain", "import"} => app[b].session \in Sessions
        BY <4>1, CallFields
      <4>4. QED
        BY <2>3, <2>6, <3>1, <4>2, <4>3 DEF PoolInv
    <3>5. \A t \in open_sessions' : command_pool'[t] # "none"
      BY <2>8, <3>1 DEF PoolInv, TypeOK
    <3>6. \A c \in Chains : client_chains'[c] # None => command_pool'[client_chains'[c]] # "none"
      BY <2>3, <2>4, <3>1 DEF PoolInv, TypeOK
    <3>7. ASSUME NEW t \in open_sessions', up', command_pool'[t] # "live"
          PROVE  \E b \in Apps : /\ app'[b].at \in {"session_send", "session_answer"}
                                 /\ app'[b].session = t
      <4>1. t \in open_sessions /\ up /\ command_pool[t] # "live"
        BY <2>4, <2>8, <3>1, <3>7 DEF TypeOK
      <4>2. PICK b \in Apps : app[b].at \in {"session_send", "session_answer"} /\ app[b].session = t
        BY <4>1 DEF PoolInv
      <4>3. QED
        BY <2>2, <2>6, <4>2
    <3>8. QED
      BY <3>2, <3>3, <3>4, <3>5, <3>6, <3>7 DEF PoolInv
  <2>9. QED
    BY <2>5, <2>7, <2>8
<1>4. ASSUME NEW a \in Apps, DestroySessionPool(a) PROVE PoolInv'
  <2>1. Becomes(a, "session_send", app[a].session, None, app[a].usage, app[a].todo, app[a].whole)
    BY <1>4, ProceedMoves
  <2>2. app[a].at = "destroy_session" /\ app[a] \in AppCalls
    BY <1>4 DEF DestroySessionPool, TypeOK
  <2>3. PICK s \in Sessions : s = app[a].session
    BY <2>2, CallFields
  <2>4. /\ command_pool' = [command_pool EXCEPT ![s] = "destroyed"]
        /\ UNCHANGED <<open_sessions, client_chains, server_sessions, reply, up>>
    BY <1>4, <2>3 DEF DestroySessionPool, tables
  <2>5. command_pool[s] # "none"
    BY <2>3, HandlesAssumption DEF PoolInv
  <2>6. command_pool'[s] = "destroyed" /\ \A t \in Sessions : t # s => command_pool'[t] = command_pool[t]
    BY <2>4 DEF TypeOK
  <2>7. \A t \in Sessions : t \notin server_sessions' => command_pool'[t] = "none"
    BY <2>4, <2>5, <2>6 DEF PoolInv
  <2>8. ASSUME NEW b \in Apps, app'[b].at = "create_session", reply'.op = "ok"
        PROVE  command_pool'[reply'.session] = "none" /\ reply'.session \in server_sessions'
    <3>1. app[b].at = "create_session" /\ reply.op = "ok"
      BY <2>1, <2>4, <2>8 DEF Becomes
    <3>2. reply.session \in Sessions
      BY <3>1 DEF Protocol, Talks, Waits, Locking
    <3>3. QED
      BY <2>4, <2>5, <2>6, <3>1, <3>2 DEF PoolInv
  <2>9. ASSUME NEW b \in Apps
        PROVE  /\ app'[b].session # None => command_pool'[app'[b].session] # "none"
               /\ app'[b].at \in {"create_chain", "import"} => command_pool'[app'[b].session] = "live"
    <3>1. CASE b = a
      BY <2>1, <2>3, <2>6, <3>1 DEF Becomes
    <3>2. CASE b # a
      <4>1. app'[b] = app[b] /\ app[b] \in AppCalls
        BY <2>1, <3>2 DEF Becomes, TypeOK
      <4>2. app[b].session \in Sessions \/ app[b].session = None
        BY <4>1, CallFields
      <4>3. app[b].at \in {"create_chain", "import"} =>
              app[b].session \in Sessions /\ app[b].session # s
        <5>1. app[b].at \in {"create_chain", "import"} => app[b].session \in Sessions
          BY <4>1, CallFields
        <5>2. Destroys(a, s)
          BY <2>2, <2>3 DEF Destroys, Uses, Idle
        <5>3. QED
          BY <3>2, <5>1, <5>2 DEF SessionInv, Uses, Idle
      <4>4. QED
        BY <2>6, <4>1, <4>2, <4>3 DEF PoolInv
    <3>3. QED
      BY <3>1, <3>2
  <2>10. \A t \in open_sessions' : command_pool'[t] # "none"
    BY <2>4, <2>6 DEF PoolInv, TypeOK
  <2>11. \A c \in Chains : client_chains'[c] # None => command_pool'[client_chains'[c]] # "none"
    BY <2>4, <2>6 DEF PoolInv, TypeOK
  <2>12. ASSUME NEW t \in open_sessions', up', command_pool'[t] # "live"
         PROVE  \E b \in Apps : /\ app'[b].at \in {"session_send", "session_answer"}
                                /\ app'[b].session = t
    <3>1. CASE t = s
      BY <2>1, <2>3, <3>1 DEF Becomes
    <3>2. CASE t # s
      <4>1. t \in open_sessions /\ up /\ command_pool[t] # "live"
        BY <2>4, <2>6, <2>12, <3>2 DEF TypeOK
      <4>2. PICK b \in Apps : app[b].at \in {"session_send", "session_answer"} /\ app[b].session = t
        BY <4>1 DEF PoolInv
      <4>3. QED
        BY <2>1, <2>2, <4>2 DEF Becomes
    <3>3. QED
      BY <3>1, <3>2
  <2>13. QED
    BY <2>7, <2>8, <2>9, <2>10, <2>11, <2>12 DEF PoolInv
<1>5. ASSUME NEW a \in Apps,
             \/ CreateChainReply(a) \/ DestroyChainSend(a) \/ DestroyChainDone(a)
             \/ DestroySessionChain(a) \/ DestroySessionSend(a) \/ DestroySessionDone(a)
             \/ Throws(a) \/ Import(a)
      PROVE  PoolInv'
  <2>1. Continues(a) /\ \A b \in Apps : b # a => app'[b] = app[b]
    BY <1>5, ProceedContinues DEF Proceeds
  <2>2. app[a] \in AppCalls /\ app'[a] \in AppCalls
    BY <1>5, ProtocolStep DEF TypeOK, Next, Proceeds
  <2>3. /\ UNCHANGED <<command_pool, server_sessions>> /\ open_sessions' \subseteq open_sessions
        /\ up' = up /\ (reply' = reply \/ reply'.op = "none")
    BY <1>5, MessageFields DEF CreateChainReply, DestroyChainSend, DestroyChainDone,
      DestroySessionChain, DestroySessionSend, DestroySessionDone, Throws, Import, client, tables
  <2>4. app'[a].session # None => command_pool[app'[a].session] # "none"
    BY <2>1, <2>2, CallFields DEF Continues, PoolInv
  <2>5. \A c \in Chains : client_chains'[c] # None => command_pool[client_chains'[c]] # "none"
    <3>1. CASE client_chains' = client_chains
      BY <3>1 DEF PoolInv
    <3>2. ASSUME Import(a), client_chains' = [client_chains EXCEPT ![app[a].chain] = app[a].session]
          PROVE  \A c \in Chains : client_chains'[c] # None => command_pool[client_chains'[c]] # "none"
      <4>1. command_pool[app[a].session] # "none"
        BY <3>2 DEF Import, PoolInv
      <4>2. QED
        BY <3>2, <4>1 DEF PoolInv, TypeOK
    <3>3. ASSUME NEW d, Forget(d)
          PROVE  \A c \in Chains : client_chains'[c] # None => command_pool[client_chains'[c]] # "none"
      BY <3>3 DEF Forget, PoolInv, TypeOK
    <3>4. QED
      BY <1>5, <3>1, <3>2, <3>3 DEF CreateChainReply, DestroyChainSend, DestroyChainDone,
        DestroySessionChain, DestroySessionSend, DestroySessionDone, Throws, Import, client
  <2>6. /\ app'[a].at # "create_session"
        /\ app'[a].at \in {"create_chain", "import"} => command_pool[app'[a].session] = "live"
    <3>1. CASE Ends(a) \/ Returns(a)
      BY <3>1 DEF Ends, Returns, Becomes
    <3>2. CASE CreateChainReply(a) /\ Accepts(a)
      <4>1. app[a].at = "create_chain" /\ reply.chain \in Chains
        BY <3>2 DEF CreateChainReply, Answered, Accepts, Protocol, Talks, Waits, Locking
      <4>2. Becomes(a, "import", app[a].session, reply.chain, app[a].usage, app[a].todo, app[a].whole)
        BY <3>2, <4>1, ProceedMoves
      <4>3. QED
        BY <4>1, <4>2 DEF Becomes, PoolInv
    <3>3. CASE DestroyChainSend(a) \/ DestroySessionChain(a) \/ DestroySessionSend(a)
      BY <3>3, ProceedMoves, NextChainMoves DEF Becomes
    <3>4. QED
      BY <1>5, <3>1, <3>2, <3>3, ProceedMoves, ThrowsMoves
  <2>7. \/ ~up \/ app[a].at \notin {"session_send", "session_answer"}
        \/ app'[a].at = "session_answer" /\ app'[a].session = app[a].session
        \/ app[a].session \notin open_sessions'
    <3>1. CASE DestroySessionSend(a)
      BY <3>1, ProceedMoves DEF Becomes
    <3>2. QED
      BY <1>5, <3>1 DEF CreateChainReply, DestroyChainSend, DestroyChainDone,
        DestroySessionChain, DestroySessionDone, Throws, Import, Answered
  <2>8. QED
    BY <1>1, <2>1, <2>3, <2>4, <2>5, <2>6, <2>7
<1>6. CASE Server
  <2>1. UNCHANGED <<app, command_pool, open_sessions, client_chains, up>>
    BY <1>6 DEF Server, ServerCreateSession, ServerCreateChain, ServerDestroyChain,
      ServerDestroySession, client
  <2>2. server_sessions \subseteq server_sessions' /\
        \A s \in Sessions : s \notin server_sessions' => command_pool[s] = "none"
    BY <1>6 DEF Server, ServerCreateSession, ServerCreateChain, ServerDestroyChain,
      ServerDestroySession, PoolInv
  <2>3. ASSUME NEW b \in Apps, app[b].at = "create_session", reply'.op = "ok"
        PROVE  command_pool[reply'.session] = "none" /\ reply'.session \in server_sessions'
    <3>1. request.op \in {"none", "create_session"}
      BY <2>3 DEF Protocol, Talks, Waits, Locking
    <3>2. ServerCreateSession
      BY <1>6, <3>1 DEF Server, ServerCreateChain, ServerDestroyChain, ServerDestroySession
    <3>3. CASE reply' = reply
      BY <2>2, <2>3, <3>3 DEF PoolInv
    <3>4. CASE reply' # reply
      <4>1. PICK s \in Sessions \ runtime_sessions :
              /\ s \notin server_sessions /\ server_sessions' = server_sessions \cup {s}
              /\ reply' = Message("ok", s, None, "color")
        BY <3>2, <3>4 DEF ServerCreateSession, Replies, NoReply
      <4>2. QED
        BY <4>1, MessageFields DEF PoolInv
    <3>5. QED
      BY <3>3, <3>4
  <2>4. QED
    BY <2>1, <2>2, <2>3 DEF PoolInv
<1>7. CASE TransportCloses \/ Finished \/ UNCHANGED vars
  <2>1. /\ UNCHANGED <<app, command_pool, open_sessions, client_chains, server_sessions, reply>>
        /\ up' => up
    BY <1>7 DEF TransportCloses, Finished, vars, client, tables
  <2>2. QED
    BY <2>1 DEF PoolInv
<1>8. QED
  BY <1>2, <1>3, <1>4, <1>5, <1>6, <1>7 DEF Next, Proceeds

\* The client's table gains a swapchain only in import_images.
LEMMA GainsByImport ==
  ASSUME TypeOK, [Next]_vars, NEW c \in Chains, client_chains[c] = None, client_chains'[c] # None
  PROVE  \E a \in Apps : app[a].at = "import" /\ client_chains'[c] = app[a].session
<1>1. client_chains' # client_chains
  OBVIOUS
<1>2. ASSUME NEW d, Forget(d) PROVE FALSE
  BY <1>2 DEF Forget, TypeOK
<1>3. PICK a \in Apps : Import(a)
  <2>1. ASSUME NEW a \in Apps, Begins(a) PROVE FALSE
    BY <1>1, <1>2, <2>1 DEF Begins, CreateSession, CreateChain, DestroyChain, DestroySession, client
  <2>2. ASSUME NEW a \in Apps, Proceeds(a) PROVE Import(a)
    <3>1. ~DestroySessionChain(a)
      BY <1>2, NextChainMoves
    <3>2. /\ ~CreateSessionDone(a) /\ ~CreateChainReply(a) /\ ~DestroyChainSend(a)
          /\ ~DestroyChainDone(a)
      BY <1>1 DEF CreateSessionDone, CreateChainReply, DestroyChainSend, DestroyChainDone, client
    <3>3. /\ ~DestroySessionPool(a) /\ ~DestroySessionSend(a) /\ ~DestroySessionDone(a)
          /\ ~Throws(a)
      BY <1>1 DEF DestroySessionPool, DestroySessionSend, DestroySessionDone, Throws, client
    <3>4. QED
      BY <2>2, <3>1, <3>2, <3>3 DEF Proceeds
  <2>3. ~Server
    BY <1>1 DEF Server, ServerCreateSession, ServerCreateChain, ServerDestroyChain,
      ServerDestroySession, client
  <2>4. ~TransportCloses /\ ~Finished /\ ~UNCHANGED vars
    BY <1>1 DEF TransportCloses, Finished, vars, client
  <2>5. QED
    BY <2>1, <2>2, <2>3, <2>4 DEF Next
<1>4. /\ app[a].at = "import"
      /\ client_chains' = [client_chains EXCEPT ![app[a].chain] = app[a].session]
  BY <1>1, <1>3 DEF Import
<1>5. QED
  BY <1>4 DEF TypeOK

\* No session has a pool at first.
LEMMA PoolInit == Init => PoolInv
<1> SUFFICES ASSUME Init PROVE PoolInv
  OBVIOUS
<1>1. \A a \in Apps : app[a].at = "idle" /\ app[a].session = None
  <2>1. IdleCall.at = "idle" /\ IdleCall.session = None
    BY DEF IdleCall, Call
  <2>2. \A a \in Apps : app[a] = IdleCall
    BY Zenon DEF Init
  <2>3. QED
    BY <2>1, <2>2, Zenon
<1>2. QED
  BY <1>1 DEF Init, PoolInv

\* The command buffers of a new swapchain come from the live pool of its session, for any
\* number of threads and whatever fails, if the runtime does not return the handle of a
\* destroyed session again: the client's table keeps the states of destroyed sessions, and
\* a state stored under the same handle would be dropped.
THEOREM PoolsAreLive ==
  ASSUME ~ReusesHandles
  PROVE  Spec => PoolIsLive
<1>1. TypeOK /\ Protocol /\ SessionInv /\ ChainInv /\ PoolInv /\ [Next]_vars => PoolInv'
  BY PoolStep
<1>2. TypeOK /\ PoolInv /\ [Next]_vars =>
        [\A c \in Chains : client_chains[c] = None /\ client_chains'[c] # None =>
           command_pool[client_chains'[c]] = "live"]_vars
  BY GainsByImport DEF PoolInv
<1>3. QED
  BY <1>1, <1>2, PoolInit, LifecycleInvariant, PTL DEF Spec, PoolIsLive

-----------------------------------------------------------------------------
(* Runs without failures                                                   *)

\* No call of Vulkan or of the runtime fails, and the application asks for usage flags that
\* both sides accept.  The rest of the module is about such runs; the transport may close.
Orderly == MaxFailures = 0 /\ Usages \subseteq {"color", "depth"}

Clean ==
  /\ failures = 0
  /\ request.op = "create_chain" => request.usage \in {"color", "depth"}
  /\ \A a \in Apps : app[a].at = "create_chain" =>
       app[a].usage \in {"color", "depth"} /\ reply.op \in {"none", "ok"}

\* The handle exchange holds the images of the swapchain that is about to be imported, all
\* of them and no others.
Exchanged ==
  /\ \A a \in Apps : \A c \in Chains : Creates(a, c) => exchange = Images(c, N)
  /\ up \/ request.op = "create_chain" =>
       exchange = <<>> \/ \E a \in Apps : \E c \in Chains : Creates(a, c)

\* The tables differ only in swapchains that a call has in hand; when the client asks for
\* the destruction of a session the server has none of its swapchains.
Keeps(a, c) == Holds(a, c) /\ (app[a].at = "chain_answer" => request.op = "destroy_chain")
InStep ==
  /\ up => \A c \in Chains : server_chains[c] # client_chains[c] => \E a \in Apps : Keeps(a, c)
  /\ request.op = "destroy_session" => ChainsOf(server_chains, request.session) = {}

CleanInv == Clean /\ Exchanged /\ InStep /\ ImportsOwnImages /\ LoopIsDefined

\* A swapchain is about to be imported only while no request is under way and somebody
\* holds the message lock.
LEMMA NobodyCreates ==
  ASSUME Protocol, request.op # "none" \/ CanSend
  PROVE  \A a \in Apps : \A c \in Chains : ~Creates(a, c)
<1> SUFFICES ASSUME NEW a \in Apps, NEW c \in Chains, Creates(a, c) PROVE FALSE
  OBVIOUS
<1>1. Waits(a)
  BY DEF Creates, Waits, Locking
<1>2. Talks(app[a], request, reply) /\ request.op # "none"
  BY <1>1 DEF Protocol, CanSend, Waits
<1>3. QED
  BY <1>2 DEF Talks, Creates

\* A new swapchain's images fill the empty exchange, and reading them empties it.
LEMMA ImagesFill ==
  ASSUME NEW c \in Chains
  PROVE  /\ <<>> \o Images(c, N) = Images(c, N)
         /\ Images(c, N) = exchange => Unread(N) = <<>> /\ {exchange[k] : k \in 1 .. N} = {c}
<1>1. Images(c, N) \in Seq(Chains) /\ Len(Images(c, N)) = N /\ N \in Nat \ {0}
  BY ImagesAssumption DEF Images
<1>2. <<>> \o Images(c, N) = Images(c, N)
  BY <1>1
<1>3. ASSUME Images(c, N) = exchange
      PROVE  Unread(N) = <<>> /\ {exchange[k] : k \in 1 .. N} = {c}
  <2>1. \A k \in 1 .. N : exchange[k] = c
    BY <1>3 DEF Images
  <2>2. {exchange[k] : k \in 1 .. N} = {c}
    BY <1>1, <2>1
  <2>3. SubSeq(exchange, N + 1, N) = <<>>
    BY <1>1, <1>3, SubSeqEmpty
  <2>4. QED
    BY <1>1, <1>3, <2>2, <2>3 DEF Unread
<1>4. QED
  BY <1>2, <1>3

\* Nothing fails, and the usage flags stay acceptable.
LEMMA CleanStep ==
  ASSUME Orderly, TypeOK, Protocol, Clean, [Next]_vars
  PROVE  Clean'
<1>1. ~Fails
  BY BoundsAssumption DEF Fails, Orderly, Clean
<1>2. ASSUME NEW a \in Apps, \A b \in Apps : b # a => app'[b] = app[b],
             failures' = failures, app'[a].at # "create_chain",
             request' = request \/ request'.op # "create_chain",
             reply' = reply \/ reply'.op = "none"
      PROVE  Clean'
  BY <1>2 DEF Clean
<1>3. ASSUME NEW a \in Apps, Begins(a) PROVE Clean'
  <2>1. CASE CreateSession(a)
    <3>1. Becomes(a, "create_session", None, None, "color", {}, FALSE)
      BY <2>1, BeginMoves
    <3>2. failures' = failures /\ reply' = reply /\ request'.op = "create_session"
      BY <2>1, MessageFields DEF CreateSession
    <3>3. QED
      BY <1>2, <3>1, <3>2 DEF Becomes
  <2>2. ASSUME NEW s \in Sessions, NEW u \in Usages, CreateChain(a, s, u) PROVE Clean'
    <3>1. Becomes(a, "create_chain", s, None, u, {}, FALSE)
      BY <2>2, BeginMoves
    <3>2. /\ failures' = failures /\ reply' = reply /\ CanSend
          /\ request'.op = "create_chain" /\ request'.usage = u
      BY <2>2, MessageFields DEF CreateChain
    <3>3. reply.op = "none" /\ u \in {"color", "depth"}
      BY <3>2 DEF CanSend, Protocol, Waits, Orderly
    <3>4. \A b \in Apps : b # a => app'[b].at # "create_chain"
      BY <3>1, <3>2 DEF Becomes, CanSend, Locking
    <3>5. QED
      BY <3>1, <3>2, <3>3, <3>4 DEF Clean, Becomes
  <2>3. ASSUME NEW c \in Chains, DestroyChain(a, c) PROVE Clean'
    <3>1. Becomes(a, "destroy_chain", client_chains[c], c, "color", {}, FALSE)
      BY <2>3, BeginMoves
    <3>2. UNCHANGED <<failures, reply, request>>
      BY <2>3 DEF DestroyChain
    <3>3. QED
      BY <1>2, <3>1, <3>2 DEF Becomes
  <2>4. ASSUME NEW s \in Sessions, DestroySession(a, s) PROVE Clean'
    <3>1. Becomes(a, "destroy_session", s, None, "color", ChainsOf(client_chains, s), FALSE)
      BY <2>4, BeginMoves
    <3>2. UNCHANGED <<failures, reply, request>>
      BY <2>4 DEF DestroySession
    <3>3. QED
      BY <1>2, <3>1, <3>2 DEF Becomes
  <2>5. QED
    BY <1>3, <2>1, <2>2, <2>3, <2>4 DEF Begins
<1>4. ASSUME NEW a \in Apps, Proceeds(a) PROVE Clean'
  <2>1. ASSUME DestroySessionChain(a) PROVE UNCHANGED <<failures, request, reply>>
    BY <2>1, Zenon DEF DestroySessionChain
  <2>2. /\ failures' = failures
        /\ request' = request \/ request'.op # "create_chain"
        /\ reply' = reply \/ reply'.op = "none"
    <3>1. CASE \/ CreateSessionDone(a) \/ CreateChainReply(a) \/ Import(a) \/ DestroyChainSend(a)
               \/ DestroyChainDone(a)
      BY <1>1, <3>1, MessageFields DEF CreateSessionDone, CreateChainReply, Import,
        DestroyChainSend, DestroyChainDone
    <3>2. CASE \/ DestroySessionPool(a) \/ DestroySessionSend(a) \/ DestroySessionDone(a)
               \/ Throws(a)
      BY <3>2, MessageFields DEF DestroySessionPool, DestroySessionSend, DestroySessionDone, Throws
    <3>3. QED
      BY <1>4, <2>1, <3>1, <3>2 DEF Proceeds
  <2>3. app'[a].at # "create_chain" /\ \A b \in Apps : b # a => app'[b] = app[b]
    <3>1. CASE Ends(a) \/ Returns(a)
      BY <3>1 DEF Ends, Returns, Becomes
    <3>2. CASE CreateChainReply(a) /\ Accepts(a)
      <4>1. reply.chain \in Chains
        BY <3>2 DEF CreateChainReply, Answered, Accepts, Protocol, Talks, Waits, Locking
      <4>2. Becomes(a, "import", app[a].session, reply.chain, app[a].usage, app[a].todo, app[a].whole)
        BY <3>2, <4>1, ProceedMoves
      <4>3. QED
        BY <4>2 DEF Becomes
    <3>3. CASE \/ DestroyChainSend(a) \/ DestroySessionChain(a) \/ DestroySessionSend(a)
               \/ DestroySessionPool(a)
      BY <3>3, ProceedMoves, NextChainMoves DEF Becomes
    <3>4. QED
      BY <1>4, <3>1, <3>2, <3>3, ProceedMoves, ThrowsMoves DEF Proceeds
  <2>4. QED
    BY <1>2, <2>2, <2>3
<1>5. CASE Server
  <2>1. UNCHANGED <<app, failures>> /\ request'.op = "none" /\ request.op # "none"
    BY <1>1, <1>5, MessageFields DEF Server, ServerCreateSession, ServerCreateChain,
      ServerDestroyChain, ServerDestroySession, Replies, NoReply
  <2>2. reply' = reply \/ reply'.op = "ok"
    BY <1>1, <1>5, MessageFields DEF Server, ServerCreateSession, ServerCreateChain,
      ServerDestroyChain, ServerDestroySession, Replies, NoReply
  <2>3. QED
    BY <2>1, <2>2 DEF Clean
<1>6. CASE TransportCloses \/ Finished \/ UNCHANGED vars
  <2>1. UNCHANGED <<app, request, reply, failures>>
    BY <1>6 DEF TransportCloses, Finished, vars
  <2>2. QED
    BY <2>1 DEF Clean
<1>7. QED
  BY <1>3, <1>4, <1>5, <1>6 DEF Next

\* The exchange stays as it is, and so does who is about to import.
LEMMA KeepExchange ==
  ASSUME Exchanged, exchange' = exchange,
         up' \/ request'.op = "create_chain" => up \/ request.op = "create_chain",
         \A a \in Apps : \A c \in Chains : Creates(a, c)' => Creates(a, c),
         \/ ~(up' \/ request'.op = "create_chain")
         \/ \A a \in Apps : \A c \in Chains : Creates(a, c) => \E b \in Apps : Creates(b, c)'
  PROVE  Exchanged'
BY DEF Exchanged

\* The tables stay as they are, and so do the calls that account for a difference.
LEMMA KeepInStep ==
  ASSUME InStep, up' => up, UNCHANGED <<server_chains, client_chains>>,
         request' = request \/ request'.op # "destroy_session",
         up' => \A a \in Apps : \A c \in Chains : Keeps(a, c) => Keeps(a, c)'
  PROVE  InStep'
BY DEF InStep

\* The steps that send a request.
LEMMA SendClean ==
  ASSUME TypeOK, Protocol, SessionInv, ChainInv, CleanInv, NEW a \in Apps,
         \/ CreateSession(a) \/ DestroyChainSend(a) \/ DestroySessionSend(a)
         \/ \E s \in Sessions : \E u \in Usages : CreateChain(a, s, u)
  PROVE  Exchanged' /\ InStep' /\ ImportsOwnImages' /\ LoopIsDefined'
<1>1. /\ UNCHANGED <<client_chains, imported, server_chains, undefined, exchange, reply, up>>
      /\ CanSend /\ up
  BY DEF CreateSession, DestroyChainSend, DestroySessionSend, CreateChain, client, tables, CanSend
<1>2. reply.op = "none" /\ \A b \in Apps : \A c \in Chains : ~Creates(b, c)
  BY <1>1, NobodyCreates DEF CanSend, Protocol, Waits
<1>3. /\ \A b \in Apps : b # a => app'[b] = app[b]
      /\ app'[a].at # "import"
      /\ \/ app[a].at = "destroy_chain" /\ app'[a].at = "chain_answer"
            /\ app'[a].chain = app[a].chain /\ request'.op = "destroy_chain"
         \/ app[a].at = "idle" /\ request'.op # "destroy_session"
         \/ app[a].at = "session_send" /\ request'.op = "destroy_session"
            /\ request'.session = app[a].session
  <2>1. CASE CreateSession(a)
    <3>1. Becomes(a, "create_session", None, None, "color", {}, FALSE)
      BY <2>1, BeginMoves
    <3>2. app[a].at = "idle" /\ request'.op = "create_session"
      BY <2>1, MessageFields DEF CreateSession, Idle
    <3>3. QED
      BY <3>1, <3>2 DEF Becomes
  <2>2. ASSUME NEW s \in Sessions, NEW u \in Usages, CreateChain(a, s, u)
        PROVE  /\ \A b \in Apps : b # a => app'[b] = app[b]
               /\ app'[a].at # "import" /\ app[a].at = "idle" /\ request'.op = "create_chain"
    <3>1. Becomes(a, "create_chain", s, None, u, {}, FALSE)
      BY <2>2, BeginMoves
    <3>2. app[a].at = "idle" /\ request'.op = "create_chain"
      BY <2>2, MessageFields DEF CreateChain, Idle
    <3>3. QED
      BY <3>1, <3>2 DEF Becomes
  <2>3. CASE DestroyChainSend(a)
    BY <2>3, ProceedMoves, MessageFields DEF DestroyChainSend, Becomes
  <2>4. CASE DestroySessionSend(a)
    BY <2>4, ProceedMoves, MessageFields DEF DestroySessionSend, Becomes
  <2>5. QED
    BY <2>1, <2>2, <2>3, <2>4
<1>4. \A b \in Apps : \A c \in Chains : ~Creates(b, c)'
  BY <1>1, <1>2, <1>3 DEF Creates
<1>5. Exchanged'
  BY <1>1, <1>2, <1>4 DEF CleanInv, Exchanged
<1>6. ASSUME NEW b \in Apps, NEW c \in Chains, Keeps(b, c) PROVE Keeps(b, c)'
  <2>1. Removes(b, c) /\ app[b].at = "destroy_chain"
    BY <1>1, <1>2, <1>6 DEF Keeps, Holds, Removes, CanSend, Locking
  <2>2. CASE b = a
    BY <1>3, <2>1, <2>2 DEF Keeps, Holds, Removes
  <2>3. CASE b # a
    BY <1>3, <2>1, <2>3 DEF Keeps, Holds, Removes
  <2>4. QED
    BY <2>2, <2>3
<1>7. InStep'
  <2>1. CASE request'.op # "destroy_session"
    BY <1>1, <1>6, <2>1, KeepInStep DEF CleanInv
  <2>2. CASE request'.op = "destroy_session"
    <3>1. PICK s : s = app[a].session
      OBVIOUS
    <3>2. app[a].at = "session_send" /\ request'.session = s
      BY <1>3, <2>2, <3>1
    <3>3. app[a] \in AppCalls
      BY DEF TypeOK
    <3>4. s \in Sessions /\ ChainsOf(client_chains, s) = {} /\ Destroys(a, s)
      BY <3>1, <3>2, <3>3, CallFields DEF ChainInv, ToDestroy, Destroys, Uses, Idle
    <3>5. ASSUME NEW c \in Chains, server_chains[c] = s PROVE FALSE
      <4>1. server_chains[c] # client_chains[c]
        BY <3>4, <3>5 DEF ChainsOf
      <4>2. PICK b \in Apps : Keeps(b, c)
        BY <1>1, <4>1 DEF CleanInv, InStep
      <4>3. app[b].at = "destroy_chain" /\ Holds(b, c)
        BY <1>1, <1>2, <4>2 DEF Keeps, Holds, Removes, CanSend, Locking
      <4>4. app[b].session = s
        BY <1>1, <3>5, <4>3 DEF ChainInv, HeldChains, Live
      <4>5. b = a
        BY <3>4, <4>3, <4>4 DEF SessionInv, Uses, Idle
      <4>6. QED
        BY <3>2, <4>3, <4>5
    <3>6. ChainsOf(server_chains, s) = {}
      BY <3>5 DEF ChainsOf
    <3>7. \A c \in Chains : server_chains[c] # client_chains[c] => \E b \in Apps : Keeps(b, c)'
      BY <1>1, <1>6 DEF CleanInv, InStep
    <3>8. QED
      BY <1>1, <3>2, <3>6, <3>7 DEF InStep
  <2>3. QED
    BY <2>1, <2>2
<1>8. QED
  BY <1>1, <1>5, <1>7 DEF CleanInv, ImportsOwnImages, LoopIsDefined

\* The steps that take an answer, throw, or begin or go on with the destruction of a
\* session.
LEMMA QuietClean ==
  ASSUME TypeOK, Protocol, SessionInv, ChainInv, CleanInv, NEW a \in Apps,
         \/ CreateSessionDone(a) \/ CreateChainReply(a) \/ DestroyChainDone(a)
         \/ DestroySessionDone(a) \/ Throws(a) \/ DestroySessionPool(a)
         \/ \E s \in Sessions : DestroySession(a, s)
  PROVE  Exchanged' /\ InStep' /\ ImportsOwnImages' /\ LoopIsDefined'
<1>1. UNCHANGED <<client_chains, imported, server_chains, undefined, exchange, request, up>>
  <2>1. CASE \E s \in Sessions : DestroySession(a, s)
    BY <2>1, Zenon DEF DestroySession, client, tables
  <2>2. CASE CreateSessionDone(a) \/ CreateChainReply(a) \/ DestroyChainDone(a)
    BY <2>2 DEF CreateSessionDone, CreateChainReply, DestroyChainDone, client, tables
  <2>3. CASE DestroySessionDone(a) \/ Throws(a) \/ DestroySessionPool(a)
    BY <2>3 DEF DestroySessionDone, Throws, DestroySessionPool, client, tables
  <2>4. QED
    BY <2>1, <2>2, <2>3
<1>2. ASSUME \A b \in Apps : \A c \in Chains : Creates(b, c)' => Creates(b, c),
             \/ ~(up \/ request.op = "create_chain")
             \/ \A b \in Apps : \A c \in Chains : Creates(b, c) => \E d \in Apps : Creates(d, c)',
             up => \A b \in Apps : \A c \in Chains : Keeps(b, c) => Keeps(b, c)'
      PROVE  Exchanged' /\ InStep' /\ ImportsOwnImages' /\ LoopIsDefined'
  <2>1. Exchanged'
    BY <1>1, <1>2, KeepExchange DEF CleanInv
  <2>2. InStep'
    BY <1>1, <1>2, KeepInStep DEF CleanInv
  <2>3. QED
    BY <1>1, <2>1, <2>2 DEF CleanInv, ImportsOwnImages, LoopIsDefined
<1>3. CASE /\ app[a].at \in {"create_session", "chain_answer", "session_answer"}
           /\ reply.op # "none"
           /\ reply' = NoMessage /\ \A b \in Apps : b # a => app'[b] = app[b]
           /\ app'[a].at \in {"idle", "destroy_session"}
  <2>1. Waits(a) /\ request.op = "none"
    BY <1>3 DEF Protocol, Talks, Waits, Locking
  <2>2. \A b \in Apps : \A c \in Chains : ~Creates(b, c) /\ ~Creates(b, c)'
    BY <1>3, <2>1, MessageFields DEF Creates, Protocol, Exclusive, Waits, Locking
  <2>3. \A b \in Apps : \A c \in Chains : Keeps(b, c) => b # a /\ app[b].at = "destroy_chain"
    BY <1>3, <2>1, <2>2 DEF Keeps, Holds, Removes, Protocol, Exclusive, Waits, Locking
  <2>4. \A b \in Apps : \A c \in Chains : Keeps(b, c) => Keeps(b, c)'
    BY <1>3, <2>2, <2>3 DEF Keeps, Holds, Removes
  <2>5. QED
    BY <1>2, <2>2, <2>4
<1>4. CASE CreateChainReply(a)
  <2>1. /\ Answered(a, "create_chain") /\ reply'.op = "none" /\ Accepts(a)
    BY <1>4, MessageFields DEF CreateChainReply, Answered, Accepts, CleanInv, Clean
  <2>2. app[a].at = "create_chain" /\ reply.op = "ok" /\ Waits(a) /\ request.op = "none"
    BY <2>1 DEF Answered, Accepts, Waits, Locking, Protocol, Talks
  <2>3. reply.chain \in Chains
    BY <2>2 DEF Protocol, Talks
  <2>4. Becomes(a, "import", app[a].session, reply.chain, app[a].usage, app[a].todo, app[a].whole)
    BY <1>4, <2>1, <2>3, ProceedMoves
  <2>5. \A b \in Apps : b # a => ~Waits(b) /\ app'[b] = app[b]
    BY <2>2, <2>4 DEF Protocol, Exclusive, Becomes
  <2>6. \A b \in Apps : \A c \in Chains : Creates(b, c)' <=> Creates(b, c)
    BY <2>1, <2>2, <2>4, <2>5 DEF Creates, Waits, Locking, Becomes
  <2>7. \A b \in Apps : \A c \in Chains : Keeps(b, c) => Keeps(b, c)'
    BY <1>1, <2>2, <2>4, <2>5, <2>6 DEF Keeps, Holds, Removes, Becomes
  <2>8. QED
    BY <1>2, <2>6, <2>7
<1>5. CASE Throws(a)
  <2>1. ~up /\ (reply' = reply \/ (Waits(a) /\ reply'.op = "none"))
    BY <1>5, MessageFields DEF Throws, Waits
  <2>2. app'[a].at \in {"idle", "destroy_session"} /\ \A b \in Apps : b # a => app'[b] = app[b]
    BY <1>5, ThrowsMoves DEF Ends, Returns, Becomes
  <2>3. \A b \in Apps : \A c \in Chains : Creates(b, c)' => Creates(b, c)
    BY <2>1, <2>2 DEF Creates
  <2>4. request.op = "create_chain" => \A b \in Apps : \A c \in Chains : ~Creates(b, c)
    BY NobodyCreates
  <2>5. QED
    BY <1>2, <2>1, <2>3, <2>4
<1>6. CASE DestroySessionPool(a) \/ \E s \in Sessions : DestroySession(a, s)
  <2>1. /\ app[a].at \in {"idle", "destroy_session"} /\ reply' = reply
        /\ app'[a].at \in {"destroy_session", "session_send"}
        /\ \A b \in Apps : b # a => app'[b] = app[b]
    <3>1. CASE DestroySessionPool(a)
      BY <3>1, ProceedMoves DEF DestroySessionPool, Becomes
    <3>2. ASSUME NEW s \in Sessions, DestroySession(a, s)
          PROVE  /\ app[a].at = "idle" /\ reply' = reply /\ app'[a].at = "destroy_session"
                 /\ \A b \in Apps : b # a => app'[b] = app[b]
      <4>1. Becomes(a, "destroy_session", s, None, "color", ChainsOf(client_chains, s), FALSE)
        BY <3>2, BeginMoves
      <4>2. reply' = reply /\ app[a].at = "idle"
        BY <3>2, Zenon DEF DestroySession, Idle
      <4>3. QED
        BY <4>1, <4>2 DEF Becomes
    <3>3. QED
      BY <1>6, <3>1, <3>2
  <2>2. \A b \in Apps : \A c \in Chains : Creates(b, c)' <=> Creates(b, c)
    BY <2>1 DEF Creates
  <2>3. \A b \in Apps : \A c \in Chains : Keeps(b, c) => Keeps(b, c)'
    BY <1>1, <2>1, <2>2 DEF Keeps, Holds, Removes
  <2>4. QED
    BY <1>2, <2>2, <2>3
<1>7. QED
  BY <1>3, <1>4, <1>5, <1>6, ProceedMoves
    DEF CreateSessionDone, DestroyChainDone, DestroySessionDone, Answered, Ends, Returns, Becomes

\* A call forgets swapchain c and takes it into its hands.
LEMMA ForgetClean ==
  ASSUME TypeOK, ChainInv, CleanInv, NEW a \in Apps, NEW c \in Chains,
         client_chains[c] # None, Forget(c), app[a].at \in {"idle", "destroy_session"},
         app'[a].at = "destroy_chain", app'[a].chain = c,
         \A b \in Apps : b # a => app'[b] = app[b],
         UNCHANGED <<server_chains, undefined, exchange, request, reply, up>>
  PROVE  Exchanged' /\ InStep' /\ ImportsOwnImages' /\ LoopIsDefined'
<1>1. /\ client_chains'[c] = None /\ \A d \in Chains : d # c => client_chains'[d] = client_chains[d]
      /\ \A d \in Chains : d # c => imported'[d] = imported[d]
  BY DEF Forget, TypeOK
<1>2. \A b \in Apps : \A d \in Chains : Creates(b, d)' <=> Creates(b, d)
  BY DEF Creates
<1>3. Exchanged'
  BY <1>2, KeepExchange DEF CleanInv
<1>4. Keeps(a, c)' /\ \A b \in Apps : \A d \in Chains : Keeps(b, d) => Keeps(b, d)'
  BY <1>2 DEF Keeps, Holds, Removes, Creates
<1>5. InStep'
  <2>1. ASSUME up, NEW d \in Chains, server_chains[d] # client_chains'[d]
        PROVE  \E b \in Apps : Keeps(b, d)'
    <3>1. CASE d = c
      BY <1>4, <3>1
    <3>2. CASE d # c
      BY <1>1, <1>4, <2>1, <3>2 DEF CleanInv, InStep
    <3>3. QED
      BY <3>1, <3>2
  <2>2. QED
    BY <2>1 DEF CleanInv, InStep
<1>6. ImportsOwnImages'
  BY <1>1 DEF CleanInv, ImportsOwnImages
<1>7. QED
  BY <1>3, <1>5, <1>6 DEF CleanInv, LoopIsDefined

\* import_images reads the images of the swapchain it was called for.
LEMMA ImportClean ==
  ASSUME Orderly, TypeOK, Protocol, SessionInv, ChainInv, CleanInv, NEW a \in Apps, Import(a)
  PROVE  Exchanged' /\ InStep' /\ ImportsOwnImages' /\ LoopIsDefined'
<1>1. PICK c, s : c = app[a].chain /\ s = app[a].session
  OBVIOUS
<1>2. ~Fails
  BY BoundsAssumption DEF Fails, Orderly, CleanInv, Clean
<1>3. /\ app[a].at = "import" /\ Ends(a) /\ Waits(a) /\ c \in Chains /\ s \in Sessions
      /\ UNCHANGED <<server_chains, undefined, request, reply, up>>
  BY <1>1, ProceedMoves, CallFields DEF Import, TypeOK, tables, Waits, Locking
<1>4. /\ exchange' = Unread(N) /\ client_chains' = [client_chains EXCEPT ![c] = s]
      /\ imported' = [imported EXCEPT ![c] = {exchange[k] : k \in 1 .. N}]
  BY <1>1, <1>2 DEF Import
<1>5. Creates(a, c) /\ Holds(a, c)
  BY <1>1, <1>3 DEF Creates, Holds
<1>6. exchange = Images(c, N) /\ server_chains[c] = s
  BY <1>1, <1>3, <1>5 DEF CleanInv, Exchanged, ChainInv, HeldChains
<1>7. exchange' = <<>> /\ imported'[c] = {c} /\ \A d \in Chains : d # c => imported'[d] = imported[d]
  <2>1. Unread(N) = <<>> /\ {exchange[k] : k \in 1 .. N} = {c}
    BY <1>3, <1>6, ImagesFill
  <2>2. QED
    BY <1>3, <1>4, <2>1 DEF TypeOK
<1>8. client_chains'[c] = s /\ \A d \in Chains : d # c => client_chains'[d] = client_chains[d]
  BY <1>3, <1>4 DEF TypeOK
<1>9. /\ app'[a].at = "idle" /\ \A b \in Apps : b # a => app'[b] = app[b]
      /\ \A b \in Apps : b # a => ~Waits(b)
  BY <1>3 DEF Ends, Becomes, Protocol, Exclusive
<1>10. request.op = "none" /\ reply.op = "none"
  BY <1>3 DEF Protocol, Talks
<1>11. \A b \in Apps : \A d \in Chains : ~Creates(b, d)'
  BY <1>3, <1>9 DEF Creates, Waits, Locking
<1>12. Exchanged'
  BY <1>7, <1>11 DEF Exchanged
<1>13. InStep'
  <2>1. ASSUME up, NEW d \in Chains, server_chains[d] # client_chains'[d]
        PROVE  \E b \in Apps : Keeps(b, d)'
    <3>1. d # c
      BY <1>6, <1>8, <2>1
    <3>2. PICK b \in Apps : Keeps(b, d)
      BY <1>8, <2>1, <3>1 DEF CleanInv, InStep
    <3>3. b # a
      BY <1>1, <1>3, <3>1, <3>2 DEF Keeps, Holds, Creates, Removes
    <3>4. QED
      BY <1>3, <1>9, <3>2, <3>3 DEF Keeps, Holds, Creates, Removes
  <2>2. QED
    BY <1>3, <1>10, <2>1 DEF InStep
<1>14. ImportsOwnImages'
  BY <1>7, <1>8 DEF CleanInv, ImportsOwnImages
<1>15. QED
  BY <1>3, <1>12, <1>13, <1>14 DEF CleanInv, LoopIsDefined

\* The handlers of the server.
LEMMA ServerClean ==
  ASSUME Orderly, TypeOK, Protocol, SessionInv, ChainInv, CleanInv, Server
  PROVE  Exchanged' /\ InStep' /\ ImportsOwnImages' /\ LoopIsDefined'
<1>1. ~Fails
  BY BoundsAssumption DEF Fails, Orderly, CleanInv, Clean
<1>2. /\ UNCHANGED <<app, client_chains, imported, up>> /\ request'.op = "none"
      /\ request.op # "none" /\ WellFormed(request) /\ AskedFor(request)
  BY MessageFields DEF Server, ServerCreateSession, ServerCreateChain, ServerDestroyChain,
    ServerDestroySession, client, Replies, NoReply, Protocol, ChainInv
<1>3. ImportsOwnImages'
  BY <1>2 DEF CleanInv, ImportsOwnImages
<1>4. \A a \in Apps : \A c \in Chains : ~Creates(a, c)
  BY <1>2, NobodyCreates
<1>5. \A a \in Apps : \A c \in Chains : Removes(a, c)' <=> Removes(a, c)
  BY <1>2 DEF Removes
\* A call that has not yet asked for the destruction of its swapchain.
<1>6. \A a \in Apps : \A c \in Chains : Removes(a, c) /\ app[a].at = "destroy_chain" => Keeps(a, c)'
  BY <1>2, <1>5 DEF Keeps, Holds
<1>7. ASSUME request.op # "destroy_chain"
      PROVE  \A a \in Apps : \A c \in Chains : Keeps(a, c) => Keeps(a, c)'
  BY <1>4, <1>6, <1>7 DEF Keeps, Holds, Removes
<1>8. ASSUME request.op # "create_chain", exchange' = exchange PROVE Exchanged'
  <2>1. \A a \in Apps : app[a].at \notin {"create_chain", "import"}
    BY <1>2, <1>8 DEF Protocol, Talks, Waits, Locking
  <2>2. \A a \in Apps : \A c \in Chains : ~Creates(a, c)'
    BY <1>2, <2>1 DEF Creates
  <2>3. QED
    BY <1>2, <1>4, <1>8, <2>2, KeepExchange DEF CleanInv
<1>9. CASE ServerCreateSession
  <2>1. /\ UNCHANGED <<server_chains, exchange, undefined>> /\ request.op = "create_session"
    BY <1>9 DEF ServerCreateSession
  <2>2. InStep'
    BY <1>2, <1>7, <2>1, KeepInStep DEF CleanInv
  <2>3. QED
    BY <1>3, <1>8, <2>1, <2>2 DEF CleanInv, LoopIsDefined
<1>10. CASE ServerCreateChain
  <2>1. request.op = "create_chain" /\ request.usage # "neither" /\ undefined' = undefined
    BY <1>10 DEF ServerCreateChain, CleanInv, Clean
  <2>2. PICK n \in Chains :
          /\ server_chains' = [server_chains EXCEPT ![n] = request.session]
          /\ exchange' = exchange \o Images(n, N)
          /\ Replies(Message("ok", request.session, n, "color"))
    BY <1>1, <1>10, <2>1 DEF ServerCreateChain
  <2>3. exchange' = Images(n, N)
    BY <1>4, <2>1, <2>2, ImagesFill DEF CleanInv, Exchanged
  <2>4. up => reply'.op = "ok" /\ reply'.chain = n
    BY <2>2, MessageFields DEF Replies
  <2>5. ~up => reply' = reply
    BY <2>2 DEF Replies
  <2>6. \A a \in Apps : app[a].at # "import"
    BY <1>2 DEF Protocol, Talks, Waits, Locking
  <2>7. \A a \in Apps : \A c \in Chains : Creates(a, c)' => c = n
    <3> SUFFICES ASSUME NEW a \in Apps, NEW c \in Chains, Creates(a, c)' PROVE c = n
      OBVIOUS
    <3>1. CASE up
      BY <1>2, <2>4, <2>6, <3>1 DEF Creates
    <3>2. CASE ~up
      BY <1>2, <1>4, <2>5, <2>6, <3>2 DEF Creates
    <3>3. QED
      BY <3>1, <3>2
  <2>8. up => \E a \in Apps : Creates(a, n)'
    <3>1. ASSUME up PROVE \E a \in Apps : Creates(a, n)'
      <4>1. PICK w \in Apps : Waits(w) /\ Talks(app[w], request, reply)
        BY <1>2, <3>1, Requester DEF Live
      <4>2. app[w].at = "create_chain"
        BY <2>1, <4>1 DEF Talks, Waits, Locking
      <4>3. Creates(w, n)'
        BY <1>2, <2>4, <3>1, <4>2 DEF Creates
      <4>4. QED
        BY <4>3
    <3>2. QED
      BY <3>1
  <2>9. Exchanged'
    BY <1>2, <2>3, <2>7, <2>8 DEF Exchanged
  <2>10. InStep'
    <3>1. ASSUME up, NEW c \in Chains, server_chains'[c] # client_chains[c]
          PROVE  \E a \in Apps : Keeps(a, c)'
      <4>1. CASE c = n
        <5>1. PICK a \in Apps : Creates(a, n)'
          BY <2>8, <3>1
        <5>2. app'[a].at # "chain_answer"
          BY <5>1 DEF Creates
        <5>3. QED
          BY <4>1, <5>1, <5>2 DEF Keeps, Holds
      <4>2. CASE c # n
        <5>1. server_chains'[c] = server_chains[c]
          BY <2>2, <4>2 DEF TypeOK
        <5>2. QED
          BY <1>7, <2>1, <3>1, <5>1 DEF CleanInv, InStep
      <4>3. QED
        BY <4>1, <4>2
    <3>2. QED
      BY <1>2, <3>1 DEF InStep
  <2>11. QED
    BY <1>3, <2>1, <2>9, <2>10 DEF CleanInv, LoopIsDefined
<1>11. CASE ServerDestroyChain
  <2>1. PICK d \in Chains : d = request.chain
    BY <1>2, <1>11 DEF ServerDestroyChain, WellFormed
  <2>2. /\ request.op = "destroy_chain" /\ server_chains' = [server_chains EXCEPT ![d] = None]
        /\ UNCHANGED <<exchange, undefined>>
    BY <1>11, <2>1 DEF ServerDestroyChain
  <2>3. client_chains[d] = None
    BY <1>2, <2>1, <2>2 DEF AskedFor
  <2>4. InStep'
    <3>1. ASSUME up, NEW c \in Chains, server_chains'[c] # client_chains[c]
          PROVE  \E a \in Apps : Keeps(a, c)'
      <4>1. c # d /\ server_chains'[c] = server_chains[c]
        BY <2>2, <2>3, <3>1 DEF TypeOK
      <4>2. PICK a \in Apps : Keeps(a, c)
        BY <3>1, <4>1 DEF CleanInv, InStep
      <4>3. Removes(a, c)
        BY <1>4, <4>2 DEF Keeps, Holds
      \* The call that waits asked for another swapchain.
      <4>4. app[a].at # "chain_answer"
        BY <2>1, <2>2, <4>1, <4>3 DEF Removes, Protocol, Talks, Waits, Locking
      <4>5. QED
        BY <1>6, <4>3, <4>4 DEF Removes
    <3>2. QED
      BY <1>2, <3>1 DEF InStep
  <2>5. QED
    BY <1>3, <1>8, <2>2, <2>4 DEF CleanInv, LoopIsDefined
<1>12. CASE ServerDestroySession
  <2>1. request.op = "destroy_session" /\ exchange' = exchange
    BY <1>12 DEF ServerDestroySession
  <2>2. ChainsOf(server_chains, request.session) = {}
    BY <2>1 DEF CleanInv, InStep
  <2>3. undefined' = undefined
    BY <1>12, <2>2 DEF ServerDestroySession, CleanInv, LoopIsDefined, TypeOK
  <2>4. server_chains' = [c \in Chains |-> IF c \in {} THEN None ELSE server_chains[c]]
    <3>1. PICK gone \in SUBSET ChainsOf(server_chains, request.session) :
            server_chains' = [c \in Chains |-> IF c \in gone THEN None ELSE server_chains[c]]
      BY <1>12 DEF ServerDestroySession
    <3>2. gone = {}
      BY <2>2, <3>1
    <3>3. QED
      BY <3>1, <3>2
  <2>5. server_chains' = server_chains
    BY <2>4 DEF TypeOK
  <2>6. InStep'
    BY <1>2, <1>7, <2>1, <2>5, KeepInStep DEF CleanInv
  <2>7. QED
    BY <1>3, <1>8, <2>1, <2>3, <2>6 DEF CleanInv, LoopIsDefined
<1>13. QED
  BY <1>9, <1>10, <1>11, <1>12 DEF Server

\* Every step keeps the two sides in step.
LEMMA CleanInvStep ==
  ASSUME Orderly, TypeOK, Protocol, SessionInv, ChainInv, CleanInv, [Next]_vars
  PROVE  CleanInv'
<1>1. Clean'
  BY CleanStep DEF CleanInv
<1>2. ASSUME NEW a \in Apps, NEW c \in Chains, DestroyChain(a, c)
      PROVE  Exchanged' /\ InStep' /\ ImportsOwnImages' /\ LoopIsDefined'
  <2>1. Becomes(a, "destroy_chain", client_chains[c], c, "color", {}, FALSE)
    BY <1>2, BeginMoves
  <2>2. /\ client_chains[c] # None /\ Forget(c) /\ app[a].at = "idle"
        /\ UNCHANGED <<server_chains, undefined, exchange, request, reply, up>>
    BY <1>2 DEF DestroyChain, Idle, tables
  <2>3. /\ app'[a].at = "destroy_chain" /\ app'[a].chain = c
        /\ \A b \in Apps : b # a => app'[b] = app[b]
    BY <2>1 DEF Becomes
  <2>4. QED
    BY <2>2, <2>3, ForgetClean
<1>3. ASSUME NEW a \in Apps, DestroySessionChain(a)
      PROVE  Exchanged' /\ InStep' /\ ImportsOwnImages' /\ LoopIsDefined'
  <2>1. PICK c \in app[a].todo :
          /\ Forget(c) /\ c \in Chains
          /\ Becomes(a, "destroy_chain", app[a].session, c, app[a].usage, app[a].todo \ {c}, TRUE)
    BY <1>3, NextChainMoves
  <2>2. /\ app[a].at = "destroy_session" /\ app[a] \in AppCalls
        /\ UNCHANGED <<server_chains, undefined, exchange, request, reply, up>>
    BY <1>3, Zenon DEF DestroySessionChain, TypeOK, tables
  <2>3. client_chains[c] # None
    <3>1. app[a].session \in Sessions /\ app[a].todo = ChainsOf(client_chains, app[a].session)
      BY <2>2, CallFields DEF ChainInv, ToDestroy
    <3>2. QED
      BY <2>1, <3>1, HandlesAssumption DEF ChainsOf
  <2>4. /\ app'[a].at = "destroy_chain" /\ app'[a].chain = c
        /\ \A b \in Apps : b # a => app'[b] = app[b]
    BY <2>1 DEF Becomes
  <2>5. QED
    BY <2>1, <2>2, <2>3, <2>4, ForgetClean
<1>4. ASSUME NEW a \in Apps, Proceeds(a) \/ Begins(a)
      PROVE  Exchanged' /\ InStep' /\ ImportsOwnImages' /\ LoopIsDefined'
  BY <1>2, <1>3, <1>4, SendClean, QuietClean, ImportClean DEF Proceeds, Begins
<1>5. CASE TransportCloses \/ Finished \/ UNCHANGED vars
  <2>1. /\ UNCHANGED <<app, client_chains, imported, server_chains, undefined, exchange,
                       request, reply>>
        /\ up' => up
    BY <1>5 DEF TransportCloses, Finished, vars, client, tables
  <2>2. \A b \in Apps : \A c \in Chains :
          (Creates(b, c)' <=> Creates(b, c)) /\ (Keeps(b, c)' <=> Keeps(b, c))
    BY <2>1 DEF Creates, Keeps, Holds, Removes
  <2>3. Exchanged' /\ InStep'
    BY <2>1, <2>2, KeepExchange, KeepInStep DEF CleanInv
  <2>4. QED
    BY <1>1, <2>1, <2>3 DEF CleanInv, ImportsOwnImages, LoopIsDefined
<1>6. CASE Server
  BY <1>1, <1>6, ServerClean DEF CleanInv
<1>7. QED
  BY <1>1, <1>4, <1>5, <1>6 DEF Next, CleanInv

\* Nothing is under way at first.
LEMMA CleanInit == Init => CleanInv
<1> SUFFICES ASSUME Init PROVE CleanInv
  OBVIOUS
<1>1. \A a \in Apps : app[a].at = "idle"
  <2>1. IdleCall.at = "idle"
    BY DEF IdleCall, Call
  <2>2. \A a \in Apps : app[a] = IdleCall
    BY Zenon DEF Init
  <2>3. QED
    BY <2>1, <2>2, Zenon
<1>2. request.op = "none" /\ failures = 0 /\ exchange = <<>> /\ ~undefined
  BY MessageFields, Zenon DEF Init
<1>3. \A c \in Chains : client_chains[c] = None /\ server_chains[c] = None
  BY DEF Init
<1>4. Clean /\ Exchanged
  BY <1>1, <1>2 DEF Clean, Exchanged, Creates
<1>5. InStep /\ ImportsOwnImages /\ LoopIsDefined
  BY <1>2, <1>3 DEF InStep, ImportsOwnImages, LoopIsDefined
<1>6. QED
  BY <1>4, <1>5 DEF CleanInv

\* The invariant of runs without failures, whether or not the transport closes.
LEMMA CleanInvariant ==
  ASSUME Orderly
  PROVE  Spec => [](TypeOK /\ CleanInv)
<1>1. TypeOK /\ Protocol /\ SessionInv /\ ChainInv /\ CleanInv /\ [Next]_vars => CleanInv'
  BY CleanInvStep
<1>2. QED
  BY <1>1, CleanInit, LifecycleInvariant, PTL DEF Spec

\* The images that the client imports for a swapchain are those the server made for it, for
\* any number of threads, swapchains and images: the message lock, held from the request
\* until the images are read, is what keeps the images of two swapchains apart, since the
\* handle exchange does not say whose an image is.  It takes runs in which no call of Vulkan
\* or of the runtime fails: images that a failed creation leaves behind are read for the
\* next swapchain.
THEOREM ImagesAreOwn ==
  ASSUME MaxFailures = 0, Usages \subseteq {"color", "depth"}
  PROVE  Spec => []ImportsOwnImages
<1>1. Orderly
  BY DEF Orderly
<1>2. CleanInv => ImportsOwnImages
  BY DEF CleanInv
<1>3. QED
  BY <1>1, <1>2, CleanInvariant, PTL

\* While no call is in progress on an open transport both tables hold the same swapchains
\* and the handle exchange is empty, in runs without failures, for any number of threads.
THEOREM TablesAgreeAtRest ==
  ASSUME MaxFailures = 0, Usages \subseteq {"color", "depth"}
  PROVE  Spec => []TablesAgree
<1>1. Orderly
  BY DEF Orderly
<1>2. TypeOK /\ CleanInv => TablesAgree
  <2> SUFFICES ASSUME TypeOK, CleanInv, up, \A a \in Apps : Idle(a)
               PROVE  client_chains = server_chains /\ exchange = <<>>
    BY DEF TablesAgree
  <2>1. \A a \in Apps : \A c \in Chains : ~Holds(a, c) /\ ~Creates(a, c)
    BY DEF Idle, Holds, Creates, Removes
  <2>2. \A c \in Chains : server_chains[c] = client_chains[c]
    BY <2>1 DEF CleanInv, InStep, Keeps
  <2>3. client_chains = server_chains
    BY <2>2 DEF TypeOK
  <2>4. QED
    BY <2>1, <2>3 DEF CleanInv, Exchanged
<1>3. QED
  BY <1>1, <1>2, CleanInvariant, PTL

\* The server never iterates over a session's swapchains while erasing them, in runs without
\* failures: the client destroys them one by one before it asks for the destruction of the
\* session, and no call can add one meanwhile.
THEOREM LoopKeepsItsPlace ==
  ASSUME MaxFailures = 0, Usages \subseteq {"color", "depth"}
  PROVE  Spec => []LoopIsDefined
<1>1. Orderly
  BY DEF Orderly
<1>2. CleanInv => LoopIsDefined
  BY DEF CleanInv
<1>3. QED
  BY <1>1, <1>2, CleanInvariant, PTL

=============================================================================
