-------------------------- MODULE ClockSyncProofs --------------------------
(***************************************************************************)
(* Proofs about ClockSync: the accuracy of the offset, and what a call     *)
(* that skips its own synchronization may rely on, for any threads, clock  *)
(* difference, interval and number of rounds.                              *)
(***************************************************************************)
EXTENDS ClockSync, TLAPS

-----------------------------------------------------------------------------
(* Types.                                                                  *)

\* The initial records are of their types.
LEMMA InitialTypes == Idle \in ThreadType /\ NoSync \in SyncType
  BY ClockAssumption DEF Idle, NoSync, ThreadType, SyncType

\* A thread's record is replaced by another.
LEMMA ThreadUpdate ==
  ASSUME thread \in [Threads -> ThreadType], NEW t \in Threads, NEW r \in ThreadType,
         thread' = [thread EXCEPT ![t] = r]
  PROVE  thread' \in [Threads -> ThreadType]
  OBVIOUS

\* The initial states are of their types.
LEMMA InitTypeOK == Init => TypeOK
<1> SUFFICES ASSUME Init PROVE TypeOK
  OBVIOUS
<1>1. time_offset \in Offsets /\ last_sync \in Offsets
  BY ClockAssumption DEF Init, Offsets
<1>2. wire \in [kind : {"none", "request", "response"}, t : Int]
  BY DEF Init, Nothing
<1>3. thread \in [Threads -> ThreadType] /\ sync \in SyncType /\ mutex \in Threads \cup {Free}
  BY InitialTypes DEF Init
<1>4. now \in Nat /\ now <= MaxTime /\ rtts \in SUBSET Int
  BY ClockAssumption DEF Init
<1>5. instance \in BOOLEAN /\ enabled \in BOOLEAN /\ open \in BOOLEAN
  BY Zenon DEF Init
<1> QED
  BY <1>1, <1>2, <1>3, <1>4, <1>5 DEF TypeOK

\* Every step keeps the types.
LEMMA NextTypeOK == TypeOK /\ [Next]_vars => TypeOK'
<1> SUFFICES ASSUME TypeOK, [Next]_vars PROVE TypeOK'
  OBVIOUS
<1> USE ClockAssumption
<1>1. ASSUME NEW t \in Threads, Enter(t) PROVE TypeOK'
  <2>1. [Idle EXCEPT !.at = "check", !.time = now] \in ThreadType
    BY InitialTypes DEF TypeOK, ThreadType
  <2>2. [thread[t] EXCEPT !.at = "ready", !.got = time_offset, !.time = 0, !.loaded = Unread] \in ThreadType
    BY DEF TypeOK, ThreadType
  <2>3. thread' \in [Threads -> ThreadType]
    BY <1>1, <2>1, <2>2 DEF TypeOK, Enter, Got
  <2> QED
    BY <1>1, <2>3 DEF TypeOK, Enter, clocks, globals
<1>2. ASSUME NEW t \in Threads, LoadEarly(t) PROVE TypeOK'
  <2>1. thread' \in [Threads -> ThreadType]
    <3>1. thread \in [Threads -> ThreadType] /\ time_offset \in Offsets
      BY DEF TypeOK
    <3>2. [thread[t] EXCEPT !.loaded = time_offset] \in ThreadType
      BY <3>1 DEF ThreadType
    <3>3. thread' = [thread EXCEPT ![t] = [thread[t] EXCEPT !.loaded = time_offset]]
      BY <1>2 DEF LoadEarly
    <3> QED
      BY <3>1, <3>2, <3>3, ThreadUpdate
  <2> QED
    BY <1>2, <2>1 DEF TypeOK, LoadEarly, clocks, globals
<1>3. ASSUME NEW t \in Threads, CheckFresh(t) PROVE TypeOK'
  <2>1. [thread[t] EXCEPT !.at = "skip", !.skip = last_sync.of] \in ThreadType
    <3>1. thread[t] \in ThreadType /\ last_sync \in Offsets
      BY DEF TypeOK
    <3>2. last_sync.of \in Nat
      BY <3>1 DEF Offsets
    <3> QED
      BY <3>1, <3>2 DEF ThreadType
  <2>2. thread' \in [Threads -> ThreadType]
    BY <1>3, <2>1 DEF TypeOK, CheckFresh
  <2> QED
    BY <1>3, <2>2 DEF TypeOK, CheckFresh, clocks, globals
<1>4. ASSUME NEW t \in Threads, CheckStale(t) PROVE TypeOK'
  <2>1. [Idle EXCEPT !.at = "lock"] \in ThreadType
    BY InitialTypes DEF ThreadType
  <2>2. thread' \in [Threads -> ThreadType]
    BY <1>4, <2>1 DEF TypeOK, CheckStale
  <2> QED
    BY <1>4, <2>2 DEF TypeOK, CheckStale, clocks, globals
<1>5. ASSUME NEW t \in Threads, Return(t) PROVE TypeOK'
  <2> DEFINE o == IF At(t, "skip") /\ thread[t].loaded # Unread THEN thread[t].loaded ELSE time_offset
  <2>1. thread[t] \in ThreadType /\ time_offset \in Offsets
    BY DEF TypeOK
  <2>2. thread[t].loaded \in Offsets \cup {Unread}
    BY <2>1 DEF ThreadType
  <2>3. o \in Offsets \cup {Unread}
    BY <2>1, <2>2
  <2>4. [thread[t] EXCEPT !.at = "ready", !.got = o, !.time = 0, !.loaded = Unread] \in ThreadType
    <3> HIDE DEF o
    <3> QED BY <2>1, <2>3 DEF ThreadType
  <2>5. thread' \in [Threads -> ThreadType]
    BY <1>5, <2>4 DEF TypeOK, Return, Got
  <2> QED
    BY <1>5, <2>5 DEF TypeOK, Return, clocks, globals
<1>6. ASSUME NEW t \in Threads, Acquire(t) PROVE TypeOK'
  <2>1. thread' \in [Threads -> ThreadType]
    BY <1>6 DEF TypeOK, ThreadType, Acquire, Go
  <2>2. sync' \in SyncType
    BY <1>6, InitialTypes DEF SyncType, Acquire
  <2> QED
    BY <1>6, <2>1, <2>2 DEF TypeOK, Acquire, clocks, globals
<1>7. ASSUME NEW t \in Threads, Request(t) PROVE TypeOK'
  <2>1. thread' \in [Threads -> ThreadType]
    BY <1>7 DEF TypeOK, ThreadType, Request, Go
  <2>2. sync' \in SyncType
    <3>1. sync \in SyncType /\ now \in Nat /\ sync.left > 0
      BY <1>7 DEF TypeOK, Request
    <3>2. sync.left - 1 \in Nat
      BY <3>1 DEF SyncType
    <3> QED
      BY <1>7, <3>1, <3>2 DEF SyncType, Request
  <2>3. wire' \in [kind : {"none", "request", "response"}, t : Int]
    BY <1>7 DEF TypeOK, Request
  <2> QED
    BY <1>7, <2>1, <2>2, <2>3 DEF TypeOK, Request, clocks, globals
<1>8. ASSUME NEW t \in Threads, Response(t) PROVE TypeOK'
  <2>1. thread' \in [Threads -> ThreadType]
    BY <1>8 DEF TypeOK, ThreadType, Response, Go
  <2>2. sync' \in SyncType
    <3> DEFINE rtt == now - sync.t1
               seen == [sync EXCEPT !.seen = @ \cup {rtt}]
    <3>1. sync \in SyncType /\ now \in Nat /\ wire.t \in Int
      BY DEF TypeOK
    <3>2. rtt \in Int /\ sync.t1 \in Nat
      BY <3>1 DEF SyncType
    <3>3. seen \in SyncType
      BY <3>1, <3>2 DEF SyncType
    <3>4. [seen EXCEPT !.min_rtt = rtt, !.min_t1 = sync.t1, !.min_t2 = wire.t] \in SyncType
      <4> HIDE DEF rtt, seen
      <4> QED BY <3>1, <3>2, <3>3 DEF SyncType
    <3> QED
      BY <1>8, <3>3, <3>4 DEF Response
  <2>3. wire' \in [kind : {"none", "request", "response"}, t : Int]
    BY <1>8 DEF Response, Nothing
  <2> QED
    BY <1>8, <2>1, <2>2, <2>3 DEF TypeOK, Response, clocks, globals
<1>9. ASSUME NEW t \in Threads, SetOffset(t) PROVE TypeOK'
  <2>1. thread' \in [Threads -> ThreadType]
    <3> DEFINE New(u) == [thread[u] EXCEPT !.at = IF u = t THEN "stamp" ELSE @,
                                           !.raced = IF thread[u].at \in {"check", "skip"} THEN TRUE ELSE @]
    <3>1. ASSUME NEW u \in Threads PROVE New(u) \in ThreadType
      <4> DEFINE a == IF u = t THEN "stamp" ELSE thread[u].at
                 b == IF thread[u].at \in {"check", "skip"} THEN TRUE ELSE thread[u].raced
      <4>1. thread[u] \in ThreadType
        BY DEF TypeOK
      <4>2. a \in {"idle", "check", "skip", "lock", "round", "await", "stamp", "synced", "ready", "calling"}
        BY <4>1 DEF ThreadType
      <4>3. b \in BOOLEAN
        BY <4>1 DEF ThreadType
      <4>4. [thread[u] EXCEPT !.at = a, !.raced = b] \in ThreadType
        <5> HIDE DEF a, b
        <5> QED BY <4>1, <4>2, <4>3 DEF ThreadType
      <4> QED
        BY <4>4
    <3>2. thread' = [u \in Threads |-> New(u)]
      BY <1>9 DEF SetOffset
    <3> HIDE DEF New
    <3> QED
      BY <3>1, <3>2
  <2>2. time_offset' \in Offsets
    <3>1. /\ sync.min_rtt \in Int /\ sync.min_t1 \in Int /\ sync.min_t2 \in Int
          /\ time_offset.of \in Nat
      BY DEF TypeOK, SyncType, Offsets
    <3>2. sync.min_t1 + (sync.min_rtt \div 2) - sync.min_t2 \in Int /\ time_offset.of + 1 \in Nat
      BY <3>1
    <3> QED
      BY <1>9, <3>2 DEF Offsets, SetOffset
  <2>3. rtts' \in SUBSET Int /\ sync' \in SyncType
    BY <1>9, InitialTypes DEF TypeOK, SyncType, SetOffset
  <2> QED
    BY <1>9, <2>1, <2>2, <2>3 DEF TypeOK, SetOffset, clocks
<1>10. ASSUME NEW t \in Threads, SetLastSync(t) PROVE TypeOK'
  <2>1. thread' \in [Threads -> ThreadType]
    BY <1>10 DEF TypeOK, ThreadType, SetLastSync, Go
  <2>2. last_sync' \in Offsets
    BY <1>10 DEF TypeOK, Offsets, SetLastSync
  <2> QED
    BY <1>10, <2>1, <2>2 DEF TypeOK, SetLastSync, clocks
<1>11. ASSUME NEW t \in Threads, Abort(t) PROVE TypeOK'
  <2>1. thread' \in [Threads -> ThreadType]
    BY <1>11, InitialTypes DEF TypeOK, Abort
  <2>2. sync' \in SyncType /\ mutex' \in Threads \cup {Free}
    BY <1>11, InitialTypes DEF TypeOK, Abort
  <2>3. wire' \in [kind : {"none", "request", "response"}, t : Int]
    BY <1>11 DEF TypeOK, Abort, Nothing
  <2> QED
    BY <1>11, <2>1, <2>2, <2>3 DEF TypeOK, Abort, clocks, globals
<1>12. ASSUME NEW t \in Threads, BeginCall(t) PROVE TypeOK'
  <2>1. [Idle EXCEPT !.at = "calling"] \in ThreadType
    BY InitialTypes DEF ThreadType
  <2>2. thread' \in [Threads -> ThreadType]
    BY <1>12, <2>1 DEF TypeOK, BeginCall
  <2> QED
    BY <1>12, <2>2 DEF TypeOK, BeginCall, clocks, globals
<1>13. ASSUME NEW t \in Threads, EndCall(t) PROVE TypeOK'
  BY <1>13, InitialTypes DEF TypeOK, EndCall, clocks, globals
<1>14. CASE AnswerSync
  <2>1. wire' \in [kind : {"none", "request", "response"}, t : Int]
    BY <1>14 DEF TypeOK, AnswerSync
  <2> QED
    BY <1>14, <2>1 DEF TypeOK, AnswerSync, clocks, globals
<1>15. CASE CreateInstance \/ EnableSynchronization \/ DestroyInstance \/ Close
  BY <1>15 DEF TypeOK, CreateInstance, EnableSynchronization, DestroyInstance, Close, globals
<1>16. CASE Tick
  BY <1>16 DEF TypeOK, Tick, globals
<1>17. CASE UNCHANGED vars
  BY <1>17 DEF TypeOK, vars
<1> QED
  BY <1>1, <1>2, <1>3, <1>4, <1>5, <1>6, <1>7, <1>8, <1>9, <1>10, <1>11, <1>12, <1>13, <1>14, <1>15, <1>16, <1>17
  DEF Next, Work

-----------------------------------------------------------------------------
(* The inductive invariant.                                                *)

\* A thread in the middle of a synchronization or of its call has the mutex.
MutexInv ==
  \A t \in Threads : thread[t].at \in {"round", "await", "stamp", "calling"} => mutex = t

\* Nothing was synchronized before the instance exists.
EnabledInv ==
  ~enabled => /\ time_offset.of = 0
              /\ \A t \in Threads : thread[t].at \in {"idle", "ready", "calling"}

\* The server's clock in an answer was read during the round it answers.
WireInv ==
  \A t \in Threads : At(t, "await") =>
    /\ sync.t1 <= now
    /\ instance /\ wire.kind = "response" => sync.t1 <= wire.t + Theta /\ wire.t + Theta <= now

\* The round that is kept is the fastest so far, and the server's clock was read in it.
RoundInv ==
  \A t \in Threads : thread[t].at \in {"round", "await"} =>
    /\ \A rtt \in sync.seen : sync.min_rtt <= rtt
    /\ sync.seen = {} => sync.min_rtt = Infinite
    /\ At(t, "round") /\ sync.left < Iterations => sync.seen # {}
    /\ instance /\ sync.seen # {} =>
         /\ sync.min_t1 <= sync.min_t2 + Theta
         /\ sync.min_t2 + Theta <= sync.min_t1 + sync.min_rtt

\* Only the thread that holds the mutex enters or leaves these places.
LEMMA NextMutexInv ==
  TypeOK /\ MutexInv /\ [Next]_vars => MutexInv'
<1> SUFFICES ASSUME TypeOK, MutexInv, [Next]_vars PROVE MutexInv'
  OBVIOUS
<1> USE ClockAssumption DEF TypeOK, ThreadType, MutexInv
<1>1. ASSUME NEW t \in Threads, Enter(t) PROVE MutexInv'
  <2>1. \/ enabled /\ thread' = [thread EXCEPT ![t] = [Idle EXCEPT !.at = "check", !.time = now]]
        \/ ~enabled /\ Got(t, time_offset)
    BY <1>1, Zenon DEF Enter
  <2>2. At(t, "idle") /\ UNCHANGED <<clocks, globals, mutex, sync, wire>>
    BY <1>1 DEF Enter
  <2>3. CASE enabled /\ thread' = [thread EXCEPT ![t] = [Idle EXCEPT !.at = "check", !.time = now]]
    BY <2>2, <2>3 DEF At, clocks, globals, Idle
  <2>4. CASE ~enabled /\ Got(t, time_offset)
    BY <2>2, <2>4 DEF At, clocks, globals, Got
  <2> QED
    BY <2>1, <2>3, <2>4, Zenon
<1>2. ASSUME NEW t \in Threads, LoadEarly(t) PROVE MutexInv'
  BY <1>2 DEF LoadEarly, At, clocks, globals
<1>3. ASSUME NEW t \in Threads, CheckFresh(t) PROVE MutexInv'
  BY <1>3 DEF CheckFresh, At, clocks, globals
<1>4. ASSUME NEW t \in Threads, CheckStale(t) PROVE MutexInv'
  BY <1>4 DEF CheckStale, At, clocks, globals, Idle
<1>5. ASSUME NEW t \in Threads, Return(t) PROVE MutexInv'
  BY <1>5 DEF Return, At, clocks, globals, Got
<1>6. ASSUME NEW t \in Threads, Acquire(t) PROVE MutexInv'
  BY <1>6 DEF Acquire, At, clocks, globals, Go, NoSync
<1>7. ASSUME NEW t \in Threads, Request(t) PROVE MutexInv'
  BY <1>7 DEF Request, At, clocks, globals, Go
<1>8. ASSUME NEW t \in Threads, Response(t) PROVE MutexInv'
  BY <1>8 DEF Response, At, clocks, globals, Go, Nothing
<1>9. ASSUME NEW t \in Threads, SetOffset(t) PROVE MutexInv'
  BY <1>9 DEF SetOffset, At, clocks, globals, NoSync
<1>10. ASSUME NEW t \in Threads, SetLastSync(t) PROVE MutexInv'
  BY <1>10 DEF SetLastSync, At, clocks, globals, Go
<1>11. ASSUME NEW t \in Threads, Abort(t) PROVE MutexInv'
  BY <1>11 DEF Abort, At, clocks, globals, Idle, NoSync, Nothing
<1>12. ASSUME NEW t \in Threads, BeginCall(t) PROVE MutexInv'
  BY <1>12 DEF BeginCall, At, clocks, globals, Idle
<1>13. ASSUME NEW t \in Threads, EndCall(t) PROVE MutexInv'
  BY <1>13 DEF EndCall, At, clocks, globals, Idle
<1>14. CASE AnswerSync
  BY <1>14 DEF AnswerSync, clocks, globals, At
<1>15. CASE CreateInstance
  BY <1>15 DEF CreateInstance, clocks, globals, At
<1>16. CASE EnableSynchronization
  BY <1>16 DEF EnableSynchronization, clocks, globals, At
<1>17. CASE DestroyInstance
  BY <1>17 DEF DestroyInstance, clocks, globals, At
<1>18. CASE Tick
  BY <1>18 DEF Tick, clocks, globals, At
<1>19. CASE Close
  BY <1>19 DEF Close, clocks, globals, At
<1>20. CASE UNCHANGED vars
  BY <1>20 DEF vars, At
<1> QED
  BY <1>1, <1>2, <1>3, <1>4, <1>5, <1>6, <1>7, <1>8, <1>9, <1>10, <1>11, <1>12, <1>13, <1>14, <1>15, <1>16, <1>17, <1>18, <1>19, <1>20 DEF Next, Work

\* A synchronization begins only once it is enabled.
LEMMA NextEnabledInv ==
  TypeOK /\ MutexInv /\ EnabledInv /\ [Next]_vars => EnabledInv'
<1> SUFFICES ASSUME TypeOK, MutexInv, EnabledInv, [Next]_vars PROVE EnabledInv'
  OBVIOUS
<1> USE ClockAssumption DEF TypeOK, ThreadType, Offsets, MutexInv, EnabledInv
<1>1. ASSUME NEW t \in Threads, Enter(t) PROVE EnabledInv'
  <2>1. \/ enabled /\ thread' = [thread EXCEPT ![t] = [Idle EXCEPT !.at = "check", !.time = now]]
        \/ ~enabled /\ Got(t, time_offset)
    BY <1>1, Zenon DEF Enter
  <2>2. At(t, "idle") /\ UNCHANGED <<clocks, globals, mutex, sync, wire>>
    BY <1>1 DEF Enter
  <2>3. CASE enabled /\ thread' = [thread EXCEPT ![t] = [Idle EXCEPT !.at = "check", !.time = now]]
    BY <2>2, <2>3 DEF At, clocks, globals, Idle
  <2>4. CASE ~enabled /\ Got(t, time_offset)
    BY <2>2, <2>4 DEF At, clocks, globals, Got
  <2> QED
    BY <2>1, <2>3, <2>4, Zenon
<1>2. ASSUME NEW t \in Threads, LoadEarly(t) PROVE EnabledInv'
  BY <1>2 DEF LoadEarly, At, clocks, globals
<1>3. ASSUME NEW t \in Threads, CheckFresh(t) PROVE EnabledInv'
  BY <1>3 DEF CheckFresh, At, clocks, globals
<1>4. ASSUME NEW t \in Threads, CheckStale(t) PROVE EnabledInv'
  BY <1>4 DEF CheckStale, At, clocks, globals, Idle
<1>5. ASSUME NEW t \in Threads, Return(t) PROVE EnabledInv'
  BY <1>5 DEF Return, At, clocks, globals, Got
<1>6. ASSUME NEW t \in Threads, Acquire(t) PROVE EnabledInv'
  BY <1>6 DEF Acquire, At, clocks, globals, Go, NoSync
<1>7. ASSUME NEW t \in Threads, Request(t) PROVE EnabledInv'
  BY <1>7 DEF Request, At, clocks, globals, Go
<1>8. ASSUME NEW t \in Threads, Response(t) PROVE EnabledInv'
  BY <1>8 DEF Response, At, clocks, globals, Go, Nothing
<1>9. ASSUME NEW t \in Threads, SetOffset(t) PROVE EnabledInv'
  BY <1>9 DEF SetOffset, At, clocks, globals, NoSync
<1>10. ASSUME NEW t \in Threads, SetLastSync(t) PROVE EnabledInv'
  BY <1>10 DEF SetLastSync, At, clocks, globals, Go
<1>11. ASSUME NEW t \in Threads, Abort(t) PROVE EnabledInv'
  BY <1>11 DEF Abort, At, clocks, globals, Idle, NoSync, Nothing
<1>12. ASSUME NEW t \in Threads, BeginCall(t) PROVE EnabledInv'
  BY <1>12 DEF BeginCall, At, clocks, globals, Idle
<1>13. ASSUME NEW t \in Threads, EndCall(t) PROVE EnabledInv'
  BY <1>13 DEF EndCall, At, clocks, globals, Idle
<1>14. CASE AnswerSync
  BY <1>14 DEF AnswerSync, clocks, globals, At
<1>15. CASE CreateInstance
  BY <1>15 DEF CreateInstance, clocks, globals, At
<1>16. CASE EnableSynchronization
  BY <1>16 DEF EnableSynchronization, clocks, globals, At
<1>17. CASE DestroyInstance
  BY <1>17 DEF DestroyInstance, clocks, globals, At
<1>18. CASE Tick
  BY <1>18 DEF Tick, clocks, globals, At
<1>19. CASE Close
  BY <1>19 DEF Close, clocks, globals, At
<1>20. CASE UNCHANGED vars
  BY <1>20 DEF vars, At
<1> QED
  BY <1>1, <1>2, <1>3, <1>4, <1>5, <1>6, <1>7, <1>8, <1>9, <1>10, <1>11, <1>12, <1>13, <1>14, <1>15, <1>16, <1>17, <1>18, <1>19, <1>20 DEF Next, Work

\* The answer is made between the request and its arrival.
LEMMA NextWireInv ==
  TypeOK /\ MutexInv /\ EnabledInv /\ WireInv /\ [Next]_vars => WireInv'
<1> SUFFICES ASSUME TypeOK, MutexInv, EnabledInv, WireInv, [Next]_vars PROVE WireInv'
  OBVIOUS
<1> USE ClockAssumption DEF TypeOK, ThreadType, SyncType, MutexInv, EnabledInv, WireInv, At
<1>1. ASSUME NEW t \in Threads, Enter(t) PROVE WireInv'
  <2>1. \/ enabled /\ thread' = [thread EXCEPT ![t] = [Idle EXCEPT !.at = "check", !.time = now]]
        \/ ~enabled /\ Got(t, time_offset)
    BY <1>1, Zenon DEF Enter
  <2>2. At(t, "idle") /\ UNCHANGED <<clocks, globals, mutex, sync, wire>>
    BY <1>1 DEF Enter
  <2>3. CASE enabled /\ thread' = [thread EXCEPT ![t] = [Idle EXCEPT !.at = "check", !.time = now]]
    BY <2>2, <2>3 DEF clocks, globals, Idle
  <2>4. CASE ~enabled /\ Got(t, time_offset)
    BY <2>2, <2>4 DEF clocks, globals, Got
  <2> QED
    BY <2>1, <2>3, <2>4, Zenon
<1>2. ASSUME NEW t \in Threads, LoadEarly(t) PROVE WireInv'
  BY <1>2 DEF LoadEarly, clocks, globals
<1>3. ASSUME NEW t \in Threads, CheckFresh(t) PROVE WireInv'
  BY <1>3 DEF CheckFresh, clocks, globals
<1>4. ASSUME NEW t \in Threads, CheckStale(t) PROVE WireInv'
  BY <1>4 DEF CheckStale, clocks, globals, Idle
<1>5. ASSUME NEW t \in Threads, Return(t) PROVE WireInv'
  BY <1>5 DEF Return, clocks, globals, Got
<1>6. ASSUME NEW t \in Threads, Acquire(t) PROVE WireInv'
  BY <1>6 DEF Acquire, clocks, globals, Go, NoSync
<1>7. ASSUME NEW t \in Threads, Request(t) PROVE WireInv'
  BY <1>7 DEF Request, clocks, globals, Go
<1>8. ASSUME NEW t \in Threads, Response(t) PROVE WireInv'
  BY <1>8 DEF Response, clocks, globals, Go, Nothing
<1>9. ASSUME NEW t \in Threads, SetOffset(t) PROVE WireInv'
  BY <1>9 DEF SetOffset, clocks, globals, NoSync
<1>10. ASSUME NEW t \in Threads, SetLastSync(t) PROVE WireInv'
  BY <1>10 DEF SetLastSync, clocks, globals, Go
<1>11. ASSUME NEW t \in Threads, Abort(t) PROVE WireInv'
  BY <1>11 DEF Abort, clocks, globals, Idle, NoSync, Nothing
<1>12. ASSUME NEW t \in Threads, BeginCall(t) PROVE WireInv'
  BY <1>12 DEF BeginCall, clocks, globals, Idle
<1>13. ASSUME NEW t \in Threads, EndCall(t) PROVE WireInv'
  BY <1>13 DEF EndCall, clocks, globals, Idle
<1>14. CASE AnswerSync
  BY <1>14 DEF AnswerSync, clocks, globals
<1>15. CASE CreateInstance
  BY <1>15 DEF CreateInstance, clocks, globals
<1>16. CASE EnableSynchronization
  BY <1>16 DEF EnableSynchronization, clocks, globals
<1>17. CASE DestroyInstance
  BY <1>17 DEF DestroyInstance, clocks, globals
<1>18. CASE Tick
  BY <1>18 DEF Tick, clocks, globals
<1>19. CASE Close
  BY <1>19 DEF Close, clocks, globals
<1>20. CASE UNCHANGED vars
  BY <1>20 DEF vars
<1> QED
  BY <1>1, <1>2, <1>3, <1>4, <1>5, <1>6, <1>7, <1>8, <1>9, <1>10, <1>11, <1>12, <1>13, <1>14, <1>15, <1>16, <1>17, <1>18, <1>19, <1>20 DEF Next, Work

\* A round replaces the kept one only if it was faster.
LEMMA NextRoundInv ==
  TypeOK /\ MutexInv /\ EnabledInv /\ WireInv /\ RoundInv /\ [Next]_vars => RoundInv'
<1> SUFFICES ASSUME TypeOK, MutexInv, EnabledInv, WireInv, RoundInv, [Next]_vars PROVE RoundInv'
  OBVIOUS
<1> USE ClockAssumption DEF TypeOK, ThreadType, SyncType, MutexInv, EnabledInv, WireInv, RoundInv
<1>1. ASSUME NEW t \in Threads, Enter(t) PROVE RoundInv'
  <2>1. \/ enabled /\ thread' = [thread EXCEPT ![t] = [Idle EXCEPT !.at = "check", !.time = now]]
        \/ ~enabled /\ Got(t, time_offset)
    BY <1>1, Zenon DEF Enter
  <2>2. At(t, "idle") /\ UNCHANGED <<clocks, globals, mutex, sync, wire>>
    BY <1>1 DEF Enter
  <2>3. CASE enabled /\ thread' = [thread EXCEPT ![t] = [Idle EXCEPT !.at = "check", !.time = now]]
    BY <2>2, <2>3 DEF At, clocks, globals, Idle
  <2>4. CASE ~enabled /\ Got(t, time_offset)
    BY <2>2, <2>4 DEF At, clocks, globals, Got
  <2> QED
    BY <2>1, <2>3, <2>4, Zenon
<1>2. ASSUME NEW t \in Threads, LoadEarly(t) PROVE RoundInv'
  BY <1>2 DEF LoadEarly, At, clocks, globals
<1>3. ASSUME NEW t \in Threads, CheckFresh(t) PROVE RoundInv'
  BY <1>3 DEF CheckFresh, At, clocks, globals
<1>4. ASSUME NEW t \in Threads, CheckStale(t) PROVE RoundInv'
  BY <1>4 DEF CheckStale, At, clocks, globals, Idle
<1>5. ASSUME NEW t \in Threads, Return(t) PROVE RoundInv'
  BY <1>5 DEF Return, At, clocks, globals, Got
<1>6. ASSUME NEW t \in Threads, Acquire(t) PROVE RoundInv'
  BY <1>6 DEF Acquire, At, clocks, globals, Go, NoSync
<1>7. ASSUME NEW t \in Threads, Request(t) PROVE RoundInv'
  BY <1>7 DEF Request, At, clocks, globals, Go
<1>8. ASSUME NEW t \in Threads, Response(t) PROVE RoundInv'
  BY <1>8 DEF Response, At, clocks, globals, Go, Nothing
<1>9. ASSUME NEW t \in Threads, SetOffset(t) PROVE RoundInv'
  BY <1>9 DEF SetOffset, At, clocks, globals, NoSync
<1>10. ASSUME NEW t \in Threads, SetLastSync(t) PROVE RoundInv'
  BY <1>10 DEF SetLastSync, At, clocks, globals, Go
<1>11. ASSUME NEW t \in Threads, Abort(t) PROVE RoundInv'
  BY <1>11 DEF Abort, At, clocks, globals, Idle, NoSync, Nothing
<1>12. ASSUME NEW t \in Threads, BeginCall(t) PROVE RoundInv'
  BY <1>12 DEF BeginCall, At, clocks, globals, Idle
<1>13. ASSUME NEW t \in Threads, EndCall(t) PROVE RoundInv'
  BY <1>13 DEF EndCall, At, clocks, globals, Idle
<1>14. CASE AnswerSync
  BY <1>14 DEF AnswerSync, clocks, globals, At
<1>15. CASE CreateInstance
  BY <1>15 DEF CreateInstance, clocks, globals, At
<1>16. CASE EnableSynchronization
  BY <1>16 DEF EnableSynchronization, clocks, globals, At
<1>17. CASE DestroyInstance
  BY <1>17 DEF DestroyInstance, clocks, globals, At
<1>18. CASE Tick
  BY <1>18 DEF Tick, clocks, globals, At
<1>19. CASE Close
  BY <1>19 DEF Close, clocks, globals, At
<1>20. CASE UNCHANGED vars
  BY <1>20 DEF vars, At
<1> QED
  BY <1>1, <1>2, <1>3, <1>4, <1>5, <1>6, <1>7, <1>8, <1>9, <1>10, <1>11, <1>12, <1>13, <1>14, <1>15, <1>16, <1>17, <1>18, <1>19, <1>20 DEF Next, Work

\* The offset is set from the fastest round.
LEMMA NextAccurate ==
  TypeOK /\ MutexInv /\ EnabledInv /\ RoundInv /\ OffsetAccurate /\ [Next]_vars => OffsetAccurate'
<1> SUFFICES ASSUME TypeOK, MutexInv, EnabledInv, RoundInv, OffsetAccurate, [Next]_vars PROVE OffsetAccurate'
  OBVIOUS
<1> USE ClockAssumption DEF TypeOK, ThreadType, SyncType, Offsets, MutexInv, EnabledInv, RoundInv, OffsetAccurate
<1>1. ASSUME NEW t \in Threads, Enter(t) PROVE OffsetAccurate'
  BY <1>1 DEF Enter, At, clocks, globals, Got, Idle
<1>2. ASSUME NEW t \in Threads, LoadEarly(t) PROVE OffsetAccurate'
  BY <1>2 DEF LoadEarly, At, clocks, globals
<1>3. ASSUME NEW t \in Threads, CheckFresh(t) PROVE OffsetAccurate'
  BY <1>3 DEF CheckFresh, At, clocks, globals
<1>4. ASSUME NEW t \in Threads, CheckStale(t) PROVE OffsetAccurate'
  BY <1>4 DEF CheckStale, At, clocks, globals, Idle
<1>5. ASSUME NEW t \in Threads, Return(t) PROVE OffsetAccurate'
  BY <1>5 DEF Return, At, clocks, globals, Got
<1>6. ASSUME NEW t \in Threads, Acquire(t) PROVE OffsetAccurate'
  BY <1>6 DEF Acquire, At, clocks, globals, Go, NoSync
<1>7. ASSUME NEW t \in Threads, Request(t) PROVE OffsetAccurate'
  BY <1>7 DEF Request, At, clocks, globals, Go
<1>8. ASSUME NEW t \in Threads, Response(t) PROVE OffsetAccurate'
  BY <1>8 DEF Response, At, clocks, globals, Go, Nothing
<1>9. ASSUME NEW t \in Threads, SetOffset(t) PROVE OffsetAccurate'
  <2> SUFFICES ASSUME instance
               PROVE  LET twice == 2 * (time_offset'.value - Theta) IN
                      \A rtt \in rtts' : twice <= rtt /\ 0 - twice <= rtt + 1
    BY <1>9 DEF SetOffset, clocks
  <2> DEFINE delay == sync.min_rtt \div 2
             twice == 2 * (sync.min_t1 + delay - sync.min_t2 - Theta)
  <2>1. /\ sync.min_rtt \in Int /\ sync.min_t1 \in Int /\ sync.min_t2 \in Int
        /\ sync.seen \in SUBSET Int
    OBVIOUS
  <2>2. /\ sync.seen # {}
        /\ \A rtt \in sync.seen : sync.min_rtt <= rtt
        /\ sync.min_t1 <= sync.min_t2 + Theta
        /\ sync.min_t2 + Theta <= sync.min_t1 + sync.min_rtt
    <3>0. At(t, "round") /\ sync.left = 0
      BY <1>9 DEF SetOffset
    <3>1. At(t, "round") /\ sync.left < Iterations
      BY <3>0
    <3>2. /\ \A rtt \in sync.seen : sync.min_rtt <= rtt
          /\ sync.seen # {}
      BY <3>1 DEF At
    <3> QED
      BY <3>1, <3>2 DEF At
  <2>3. delay \in Int /\ 2 * delay <= sync.min_rtt /\ sync.min_rtt <= 2 * delay + 1
    BY <2>1
  <2>4. twice <= sync.min_rtt /\ 0 - twice <= sync.min_rtt + 1
    <3> HIDE DEF delay
    <3> QED BY <2>1, <2>2, <2>3
  <2>5. rtts' = sync.seen /\ 2 * (time_offset'.value - Theta) = twice
    <3>1. rtts' = sync.seen /\ time_offset'.value = sync.min_t1 + delay - sync.min_t2
      BY <1>9 DEF SetOffset
    <3> HIDE DEF delay
    <3> QED BY <3>1, <2>1, <2>3
  <2>6. twice \in Int
    BY <2>1, <2>3
  <2> HIDE DEF twice
  <2> QED
    BY <2>1, <2>2, <2>4, <2>5, <2>6
<1>10. ASSUME NEW t \in Threads, SetLastSync(t) PROVE OffsetAccurate'
  BY <1>10 DEF SetLastSync, At, clocks, globals, Go
<1>11. ASSUME NEW t \in Threads, Abort(t) PROVE OffsetAccurate'
  BY <1>11 DEF Abort, At, clocks, globals, Idle, NoSync, Nothing
<1>12. ASSUME NEW t \in Threads, BeginCall(t) PROVE OffsetAccurate'
  BY <1>12 DEF BeginCall, At, clocks, globals, Idle
<1>13. ASSUME NEW t \in Threads, EndCall(t) PROVE OffsetAccurate'
  BY <1>13 DEF EndCall, At, clocks, globals, Idle
<1>14. CASE AnswerSync
  BY <1>14 DEF AnswerSync, clocks, globals, At
<1>15. CASE CreateInstance
  BY <1>15 DEF CreateInstance, clocks, globals, At
<1>16. CASE EnableSynchronization
  BY <1>16 DEF EnableSynchronization, clocks, globals, At
<1>17. CASE DestroyInstance
  BY <1>17 DEF DestroyInstance, clocks, globals, At
<1>18. CASE Tick
  BY <1>18 DEF Tick, clocks, globals, At
<1>19. CASE Close
  BY <1>19 DEF Close, clocks, globals, At
<1>20. CASE UNCHANGED vars
  BY <1>20 DEF vars, At
<1> QED
  BY <1>1, <1>2, <1>3, <1>4, <1>5, <1>6, <1>7, <1>8, <1>9, <1>10, <1>11, <1>12, <1>13, <1>14, <1>15, <1>16, <1>17, <1>18, <1>19, <1>20 DEF Next, Work

-----------------------------------------------------------------------------
(* What a call that skips its synchronization relies on.                   *)

\* last_sync is never ahead of time_offset, nor is what a thread has seen of it; and an
\* offset that was read early is the current one until another thread sets it.
SkipInv ==
  /\ last_sync.of <= time_offset.of
  /\ \A t \in Threads :
       /\ thread[t].skip <= time_offset.of
       /\ thread[t].at \in {"check", "skip"} /\ thread[t].loaded # Unread =>
            thread[t].loaded.of = time_offset.of \/ thread[t].raced

\* time_offset is set before last_sync, and both under the mutex.
LEMMA NextSkipInv ==
  TypeOK /\ SkipInv /\ [Next]_vars => SkipInv'
<1> SUFFICES ASSUME TypeOK, SkipInv, [Next]_vars PROVE SkipInv'
  OBVIOUS
<1> USE ClockAssumption DEF TypeOK, ThreadType, Offsets, SkipInv
<1>1. ASSUME NEW t \in Threads, Enter(t) PROVE SkipInv'
  <2>1. \/ enabled /\ thread' = [thread EXCEPT ![t] = [Idle EXCEPT !.at = "check", !.time = now]]
        \/ ~enabled /\ Got(t, time_offset)
    BY <1>1, Zenon DEF Enter
  <2>2. At(t, "idle") /\ UNCHANGED <<clocks, globals, mutex, sync, wire>>
    BY <1>1 DEF Enter
  <2>3. CASE enabled /\ thread' = [thread EXCEPT ![t] = [Idle EXCEPT !.at = "check", !.time = now]]
    BY <2>2, <2>3 DEF At, clocks, globals, Idle
  <2>4. CASE ~enabled /\ Got(t, time_offset)
    BY <2>2, <2>4 DEF At, clocks, globals, Got
  <2> QED
    BY <2>1, <2>3, <2>4, Zenon
<1>2. ASSUME NEW t \in Threads, LoadEarly(t) PROVE SkipInv'
  BY <1>2 DEF LoadEarly, At, clocks, globals
<1>3. ASSUME NEW t \in Threads, CheckFresh(t) PROVE SkipInv'
  BY <1>3 DEF CheckFresh, At, clocks, globals
<1>4. ASSUME NEW t \in Threads, CheckStale(t) PROVE SkipInv'
  BY <1>4 DEF CheckStale, At, clocks, globals, Idle
<1>5. ASSUME NEW t \in Threads, Return(t) PROVE SkipInv'
  BY <1>5 DEF Return, At, clocks, globals, Got
<1>6. ASSUME NEW t \in Threads, Acquire(t) PROVE SkipInv'
  BY <1>6 DEF Acquire, At, clocks, globals, Go, NoSync
<1>7. ASSUME NEW t \in Threads, Request(t) PROVE SkipInv'
  BY <1>7 DEF Request, At, clocks, globals, Go
<1>8. ASSUME NEW t \in Threads, Response(t) PROVE SkipInv'
  BY <1>8 DEF Response, At, clocks, globals, Go, Nothing
<1>9. ASSUME NEW t \in Threads, SetOffset(t) PROVE SkipInv'
  <2>1. time_offset'.of = time_offset.of + 1 /\ last_sync' = last_sync
    BY <1>9 DEF SetOffset
  <2>2. ASSUME NEW u \in Threads
        PROVE  /\ thread'[u].skip = thread[u].skip /\ thread'[u].loaded = thread[u].loaded
               /\ thread'[u].got = thread[u].got
               /\ thread'[u].at = IF u = t THEN "stamp" ELSE thread[u].at
    BY <1>9 DEF SetOffset
  <2>3. ASSUME NEW u \in Threads
        PROVE  /\ thread[u].at \in {"check", "skip"} => thread'[u].raced
               /\ thread[u].raced => thread'[u].raced
    <3>1. thread[u] \in ThreadType
      OBVIOUS
    <3>2. CASE thread[u].at \in {"check", "skip"}
      <4>1. thread'[u].raced = TRUE
        BY <1>9, <3>1, <3>2 DEF SetOffset
      <4> QED BY <4>1
    <3>3. CASE thread[u].at \notin {"check", "skip"}
      <4>1. thread'[u].raced = thread[u].raced
        BY <1>9, <3>1, <3>3 DEF SetOffset
      <4> QED BY <4>1, <3>3, Zenon
    <3> QED
      BY <3>2, <3>3
  <2> QED
    BY <2>1, <2>2, <2>3 DEF At
<1>10. ASSUME NEW t \in Threads, SetLastSync(t) PROVE SkipInv'
  BY <1>10 DEF SetLastSync, At, clocks, globals, Go
<1>11. ASSUME NEW t \in Threads, Abort(t) PROVE SkipInv'
  BY <1>11 DEF Abort, At, clocks, globals, Idle, NoSync, Nothing
<1>12. ASSUME NEW t \in Threads, BeginCall(t) PROVE SkipInv'
  BY <1>12 DEF BeginCall, At, clocks, globals, Idle
<1>13. ASSUME NEW t \in Threads, EndCall(t) PROVE SkipInv'
  BY <1>13 DEF EndCall, At, clocks, globals, Idle
<1>14. CASE AnswerSync
  BY <1>14 DEF AnswerSync, clocks, globals, At
<1>15. CASE CreateInstance
  BY <1>15 DEF CreateInstance, clocks, globals, At
<1>16. CASE EnableSynchronization
  BY <1>16 DEF EnableSynchronization, clocks, globals, At
<1>17. CASE DestroyInstance
  BY <1>17 DEF DestroyInstance, clocks, globals, At
<1>18. CASE Tick
  BY <1>18 DEF Tick, clocks, globals, At
<1>19. CASE Close
  BY <1>19 DEF Close, clocks, globals, At
<1>20. CASE UNCHANGED vars
  BY <1>20 DEF vars, At
<1> QED
  BY <1>1, <1>2, <1>3, <1>4, <1>5, <1>6, <1>7, <1>8, <1>9, <1>10, <1>11, <1>12, <1>13, <1>14, <1>15, <1>16, <1>17, <1>18, <1>19, <1>20 DEF Next, Work

\* The offset a call returns with is at least as new as the reason to skip.
LEMMA NextSkipsForNewer ==
  TypeOK /\ SkipInv /\ SkipsForNewer /\ [Next]_vars => SkipsForNewer'
<1> SUFFICES ASSUME TypeOK, SkipInv, SkipsForNewer, [Next]_vars PROVE SkipsForNewer'
  OBVIOUS
<1> USE ClockAssumption DEF TypeOK, ThreadType, Offsets, SkipInv, SkipsForNewer
<1>1. ASSUME NEW t \in Threads, Enter(t) PROVE SkipsForNewer'
  <2>1. \/ enabled /\ thread' = [thread EXCEPT ![t] = [Idle EXCEPT !.at = "check", !.time = now]]
        \/ ~enabled /\ Got(t, time_offset)
    BY <1>1, Zenon DEF Enter
  <2>2. At(t, "idle") /\ UNCHANGED <<clocks, globals, mutex, sync, wire>>
    BY <1>1 DEF Enter
  <2>3. CASE enabled /\ thread' = [thread EXCEPT ![t] = [Idle EXCEPT !.at = "check", !.time = now]]
    BY <2>2, <2>3 DEF At, clocks, globals, Idle
  <2>4. CASE ~enabled /\ Got(t, time_offset)
    BY <2>2, <2>4 DEF At, clocks, globals, Got
  <2> QED
    BY <2>1, <2>3, <2>4, Zenon
<1>2. ASSUME NEW t \in Threads, LoadEarly(t) PROVE SkipsForNewer'
  BY <1>2 DEF LoadEarly, At, clocks, globals
<1>3. ASSUME NEW t \in Threads, CheckFresh(t) PROVE SkipsForNewer'
  BY <1>3 DEF CheckFresh, At, clocks, globals
<1>4. ASSUME NEW t \in Threads, CheckStale(t) PROVE SkipsForNewer'
  BY <1>4 DEF CheckStale, At, clocks, globals, Idle
<1>5. ASSUME NEW t \in Threads, Return(t) PROVE SkipsForNewer'
  BY <1>5 DEF Return, At, clocks, globals, Got
<1>6. ASSUME NEW t \in Threads, Acquire(t) PROVE SkipsForNewer'
  BY <1>6 DEF Acquire, At, clocks, globals, Go, NoSync
<1>7. ASSUME NEW t \in Threads, Request(t) PROVE SkipsForNewer'
  BY <1>7 DEF Request, At, clocks, globals, Go
<1>8. ASSUME NEW t \in Threads, Response(t) PROVE SkipsForNewer'
  BY <1>8 DEF Response, At, clocks, globals, Go, Nothing
<1>9. ASSUME NEW t \in Threads, SetOffset(t) PROVE SkipsForNewer'
  <2>1. time_offset'.of = time_offset.of + 1 /\ last_sync' = last_sync
    BY <1>9 DEF SetOffset
  <2>2. ASSUME NEW u \in Threads
        PROVE  /\ thread'[u].skip = thread[u].skip /\ thread'[u].loaded = thread[u].loaded
               /\ thread'[u].got = thread[u].got
               /\ thread'[u].at = IF u = t THEN "stamp" ELSE thread[u].at
    BY <1>9 DEF SetOffset
  <2>3. ASSUME NEW u \in Threads
        PROVE  /\ thread[u].at \in {"check", "skip"} => thread'[u].raced
               /\ thread[u].raced => thread'[u].raced
    <3>1. thread[u] \in ThreadType
      OBVIOUS
    <3>2. CASE thread[u].at \in {"check", "skip"}
      <4>1. thread'[u].raced = TRUE
        BY <1>9, <3>1, <3>2 DEF SetOffset
      <4> QED BY <4>1
    <3>3. CASE thread[u].at \notin {"check", "skip"}
      <4>1. thread'[u].raced = thread[u].raced
        BY <1>9, <3>1, <3>3 DEF SetOffset
      <4> QED BY <4>1, <3>3, Zenon
    <3> QED
      BY <3>2, <3>3
  <2> QED
    BY <2>1, <2>2, <2>3 DEF At
<1>10. ASSUME NEW t \in Threads, SetLastSync(t) PROVE SkipsForNewer'
  BY <1>10 DEF SetLastSync, At, clocks, globals, Go
<1>11. ASSUME NEW t \in Threads, Abort(t) PROVE SkipsForNewer'
  BY <1>11 DEF Abort, At, clocks, globals, Idle, NoSync, Nothing
<1>12. ASSUME NEW t \in Threads, BeginCall(t) PROVE SkipsForNewer'
  BY <1>12 DEF BeginCall, At, clocks, globals, Idle
<1>13. ASSUME NEW t \in Threads, EndCall(t) PROVE SkipsForNewer'
  BY <1>13 DEF EndCall, At, clocks, globals, Idle
<1>14. CASE AnswerSync
  BY <1>14 DEF AnswerSync, clocks, globals, At
<1>15. CASE CreateInstance
  BY <1>15 DEF CreateInstance, clocks, globals, At
<1>16. CASE EnableSynchronization
  BY <1>16 DEF EnableSynchronization, clocks, globals, At
<1>17. CASE DestroyInstance
  BY <1>17 DEF DestroyInstance, clocks, globals, At
<1>18. CASE Tick
  BY <1>18 DEF Tick, clocks, globals, At
<1>19. CASE Close
  BY <1>19 DEF Close, clocks, globals, At
<1>20. CASE UNCHANGED vars
  BY <1>20 DEF vars, At
<1> QED
  BY <1>1, <1>2, <1>3, <1>4, <1>5, <1>6, <1>7, <1>8, <1>9, <1>10, <1>11, <1>12, <1>13, <1>14, <1>15, <1>16, <1>17, <1>18, <1>19, <1>20 DEF Next, Work

-----------------------------------------------------------------------------
(* Theorems.                                                               *)

IInv ==
  /\ TypeOK /\ MutexInv /\ EnabledInv /\ WireInv /\ RoundInv /\ OffsetAccurate
  /\ SkipInv /\ SkipsForNewer

\* The invariant holds at first.
LEMMA InitIInv == Init => IInv
<1> SUFFICES ASSUME Init PROVE IInv
  OBVIOUS
<1>1. TypeOK
  BY InitTypeOK
<1>2. MutexInv /\ EnabledInv /\ WireInv /\ RoundInv /\ OffsetAccurate
  BY DEF Init, Idle, At, MutexInv, EnabledInv, WireInv, RoundInv, OffsetAccurate
<1>3. SkipInv /\ SkipsForNewer
  BY DEF Init, Idle, At, SkipInv, SkipsForNewer
<1> QED
  BY <1>1, <1>2, <1>3 DEF IInv

\* The invariant is inductive.
LEMMA InductiveIInv == Spec => []IInv
<1>1. IInv /\ [Next]_vars => IInv'
  BY NextTypeOK, NextMutexInv, NextEnabledInv, NextWireInv, NextRoundInv, NextAccurate,
     NextSkipInv, NextSkipsForNewer DEF IInv
<1> QED
  BY InitIInv, <1>1, PTL DEF Spec

\* Types: see TypeOK.
THEOREM TypeCorrect == Spec => []TypeOK
<1>1. IInv => TypeOK
  BY DEF IInv
<1> QED
  BY <1>1, InductiveIInv, PTL

\* While the instance lives, the offset of synchronization.cpp is off by no more than half
\* of the fastest round trip, for any number of threads and rounds.
THEOREM Accuracy == Spec => []OffsetAccurate
<1>1. IInv => OffsetAccurate
  BY DEF IInv
<1> QED
  BY <1>1, InductiveIInv, PTL

\* A call of get_time_offset that skips synchronization returns an offset at least as new
\* as the one that made it skip, unless another thread synchronized during the call.
THEOREM SkippingIsSafe == Spec => []SkipsForNewer
<1>1. IInv => SkipsForNewer
  BY DEF IInv
<1> QED
  BY <1>1, InductiveIInv, PTL
=============================================================================
