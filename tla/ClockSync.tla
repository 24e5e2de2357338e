----------------------------- MODULE ClockSync -----------------------------
(***************************************************************************)
(* The clock offset of the client: synchronization.cpp, the handler of     *)
(* XRTP_MSG_SYNCHRONIZATION_REQUEST in server.cpp, and the stubs that ask  *)
(* for the offset before they take the message mutex.                      *)
(*                                                                         *)
(* time_offset and last_sync are plain globals.  The mutex orders the      *)
(* threads that synchronize; a thread that finds the offset fresh reads    *)
(* both globals without it, and nothing orders its two reads.              *)
(***************************************************************************)
EXTENDS Integers

CONSTANTS
  Threads,      \* threads of the application
  Theta,        \* the client's clock minus the runtime's
  Interval,     \* sync_interval
  Iterations,   \* sync_iterations
  Never,        \* INT64_MIN
  Infinite,     \* INT64_MAX
  MaxTime,      \* bound: time passes until then
  MayClose,     \* may the connection close?
  Free,         \* no thread
  Unread        \* no offset

ASSUME ClockAssumption ==
  /\ Theta \in Int /\ Interval \in Nat /\ Iterations \in Nat \ {0}
  /\ MaxTime \in Nat /\ Infinite \in Nat /\ MaxTime < Infinite
  /\ Never \in Int /\ Never + Interval < 0
  /\ MayClose \in BOOLEAN /\ Free \notin Threads

VARIABLES
  now,          \* the client's clock
  instance,     \* does the server have an XrInstance?
  enabled,      \* synchronization_enabled
  time_offset,  \* its value, and of: history, the synchronization that set it
  last_sync,    \* likewise
  thread,       \* [Threads -> where a thread is in its stub and in get_time_offset]
  mutex,        \* the thread that holds the message mutex, or Free
  sync,         \* the locals of do_synchronize
  wire,         \* the message on its way between the two programs
  open,         \* is the connection open?
  rtts          \* history: the round trips of the synchronization that set time_offset

vars == <<now, instance, enabled, time_offset, last_sync, thread, mutex, sync, wire, open, rtts>>
clocks == <<now, instance, enabled, open>>
globals == <<time_offset, last_sync, rtts>>

\* time: the clock at the test.  loaded: time_offset if read before last_sync.  skip: the
\* synchronization that made this call skip its own, or 0.  got: what get_time_offset
\* returned.  raced: did another thread set time_offset during this call?
Idle == [at |-> "idle", time |-> 0, loaded |-> Unread, skip |-> 0, got |-> Unread, raced |-> FALSE]
NoSync == [left |-> 0, t1 |-> 0, min_t1 |-> 0, min_t2 |-> 0, min_rtt |-> Infinite, seen |-> {}]
Nothing == [kind |-> "none", t |-> 0]

At(t, l) == thread[t].at = l
Go(t, l) == thread' = [thread EXCEPT ![t].at = l]

-----------------------------------------------------------------------------
(* get_time_offset.                                                        *)

\* Returns to the stub with an offset.
Got(t, o) ==
  thread' = [thread EXCEPT ![t] =
    [@ EXCEPT !.at = "ready", !.got = o, !.time = 0, !.loaded = Unread]]

\* The stub is entered; the clock is read if synchronization is enabled.
Enter(t) ==
  /\ At(t, "idle")
  /\ IF enabled
     THEN thread' = [thread EXCEPT ![t] = [Idle EXCEPT !.at = "check", !.time = now]]
     ELSE Got(t, time_offset)
  /\ UNCHANGED <<clocks, globals, mutex, sync, wire>>

\* The read of time_offset is made before that of last_sync.
LoadEarly(t) ==
  /\ At(t, "check") /\ thread[t].loaded = Unread
  /\ thread' = [thread EXCEPT ![t].loaded = time_offset]
  /\ UNCHANGED <<clocks, globals, mutex, sync, wire>>

\* It has not been long since the last synchronization.
CheckFresh(t) ==
  /\ At(t, "check")
  /\ thread[t].time <= last_sync.value + Interval
  /\ thread' = [thread EXCEPT ![t] = [@ EXCEPT !.at = "skip", !.skip = last_sync.of]]
  /\ UNCHANGED <<clocks, globals, mutex, sync, wire>>

CheckStale(t) ==
  /\ At(t, "check")
  /\ thread[t].time > last_sync.value + Interval
  /\ thread' = [thread EXCEPT ![t] = [Idle EXCEPT !.at = "lock"]]
  /\ UNCHANGED <<clocks, globals, mutex, sync, wire>>

\* The offset that was read early, or the one of now; always the one of now after a
\* synchronization of its own.
Return(t) ==
  /\ thread[t].at \in {"skip", "synced"}
  /\ Got(t, IF At(t, "skip") /\ thread[t].loaded # Unread THEN thread[t].loaded ELSE time_offset)
  /\ UNCHANGED <<clocks, globals, mutex, sync, wire>>

-----------------------------------------------------------------------------
(* do_synchronize, under the message mutex.                                *)

\* Mutant of Acquire: last_sync is set when the synchronization begins.
StampsFirst(t) ==
  /\ At(t, "lock") /\ mutex = Free /\ open
  /\ mutex' = t
  /\ sync' = [NoSync EXCEPT !.left = Iterations]
  /\ last_sync' = [value |-> now, of |-> time_offset.of + 1]
  /\ Go(t, "round")
  /\ UNCHANGED <<clocks, time_offset, rtts, wire>>

Acquire(t) ==
  /\ At(t, "lock") /\ mutex = Free /\ open
  /\ mutex' = t
  /\ sync' = [NoSync EXCEPT !.left = Iterations]
  /\ Go(t, "round")
  /\ UNCHANGED <<clocks, globals, wire>>

\* Mutant of Request: one round too many.
OneTooMany(t) ==
  /\ At(t, "round") /\ sync.left >= 0 /\ open
  /\ sync' = [sync EXCEPT !.t1 = now, !.left = @ - 1]
  /\ wire' = [kind |-> "request", t |-> now]
  /\ Go(t, "await")
  /\ UNCHANGED <<clocks, globals, mutex>>

Request(t) ==
  /\ At(t, "round") /\ sync.left > 0 /\ open
  /\ sync' = [sync EXCEPT !.t1 = now, !.left = @ - 1]
  /\ wire' = [kind |-> "request", t |-> now]
  /\ Go(t, "await")
  /\ UNCHANGED <<clocks, globals, mutex>>

\* Mutant of Response: the last round wins.
KeepsLast(t) ==
  /\ At(t, "await") /\ wire.kind = "response"
  /\ LET rtt == now - sync.t1 IN
     sync' = [sync EXCEPT !.seen = @ \cup {rtt}, !.min_rtt = rtt,
                          !.min_t1 = sync.t1, !.min_t2 = wire.t]
  /\ wire' = Nothing
  /\ Go(t, "round")
  /\ UNCHANGED <<clocks, globals, mutex>>

\* The round with the least round-trip time is kept.
Response(t) ==
  /\ At(t, "await") /\ wire.kind = "response"
  /\ LET rtt == now - sync.t1
         seen == [sync EXCEPT !.seen = @ \cup {rtt}]
     IN sync' = IF rtt < sync.min_rtt
                THEN [seen EXCEPT !.min_rtt = rtt, !.min_t1 = sync.t1, !.min_t2 = wire.t]
                ELSE seen
  /\ wire' = Nothing
  /\ Go(t, "round")
  /\ UNCHANGED <<clocks, globals, mutex>>

SetOffset(t) ==
  /\ At(t, "round") /\ sync.left = 0
  /\ LET delay == sync.min_rtt \div 2 IN
     time_offset' = [value |-> sync.min_t1 + delay - sync.min_t2, of |-> time_offset.of + 1]
  /\ rtts' = sync.seen
  /\ thread' = [u \in Threads |->
       [thread[u] EXCEPT !.at = IF u = t THEN "stamp" ELSE @,
                         !.raced = IF thread[u].at \in {"check", "skip"} THEN TRUE ELSE @]]
  /\ sync' = NoSync
  /\ UNCHANGED <<clocks, last_sync, mutex, wire>>

SetLastSync(t) ==
  /\ At(t, "stamp")
  /\ last_sync' = [value |-> now, of |-> time_offset.of]
  /\ mutex' = Free
  /\ Go(t, "synced")
  /\ UNCHANGED <<clocks, time_offset, rtts, sync, wire>>

\* The transport is closed: the exception leaves do_synchronize and get_time_offset, the
\* mutex is released, the globals keep their values, and the stub returns an error.
Abort(t) ==
  /\ ~open
  /\ \/ At(t, "lock") /\ mutex = Free
     \/ At(t, "round") /\ sync.left > 0
     \/ At(t, "await") /\ wire.kind # "response"
     \/ At(t, "ready") /\ mutex = Free
     \/ At(t, "calling")
  /\ mutex' = IF mutex = t THEN Free ELSE mutex
  /\ thread' = [thread EXCEPT ![t] = Idle]
  /\ wire' = IF mutex = t THEN Nothing ELSE wire
  /\ sync' = IF mutex = t THEN NoSync ELSE sync
  /\ UNCHANGED <<clocks, globals>>

-----------------------------------------------------------------------------
(* The rest of the stub, and the server.                                   *)

BeginCall(t) ==
  /\ At(t, "ready") /\ mutex = Free /\ open
  /\ mutex' = t
  /\ thread' = [thread EXCEPT ![t] = [Idle EXCEPT !.at = "calling"]]
  /\ UNCHANGED <<clocks, globals, sync, wire>>

EndCall(t) ==
  /\ At(t, "calling")
  /\ mutex' = Free
  /\ thread' = [thread EXCEPT ![t] = Idle]
  /\ UNCHANGED <<clocks, globals, sync, wire>>

\* Mutant of AnswerSync: without an instance the conversion's error ends the handler.
NeedsInstance ==
  /\ wire.kind = "request" /\ instance
  /\ wire' = [kind |-> "response", t |-> now - Theta]
  /\ UNCHANGED <<clocks, globals, thread, mutex, sync>>

\* The runtime converts no time without an instance: its error is ignored and 0 is sent.
AnswerSync ==
  /\ wire.kind = "request"
  /\ wire' = [kind |-> "response", t |-> IF instance THEN now - Theta ELSE 0]
  /\ UNCHANGED <<clocks, globals, thread, mutex, sync>>

\* The call of xrCreateInstance, which is the only one of its process.
CreateInstance ==
  /\ ~instance /\ ~enabled /\ mutex = Free /\ open
  /\ instance' = TRUE
  /\ UNCHANGED <<now, enabled, open, globals, thread, mutex, sync, wire>>

\* It has returned: enable_synchronization.
EnableSynchronization ==
  /\ instance /\ ~enabled
  /\ enabled' = TRUE
  /\ UNCHANGED <<now, instance, open, globals, thread, mutex, sync, wire>>

\* A call of xrDestroyInstance, from its start_message to its end; synchronization stays
\* enabled.
DestroyInstance ==
  /\ instance /\ enabled /\ mutex = Free /\ open
  /\ instance' = FALSE
  /\ UNCHANGED <<now, enabled, open, globals, thread, mutex, sync, wire>>

Tick ==
  /\ now < MaxTime
  /\ now' = now + 1
  /\ UNCHANGED <<instance, enabled, open, globals, thread, mutex, sync, wire>>

Close ==
  /\ MayClose /\ open
  /\ open' = FALSE
  /\ UNCHANGED <<now, instance, enabled, globals, thread, mutex, sync, wire>>

Init ==
  /\ now = 0 /\ instance = FALSE /\ enabled = FALSE /\ open = TRUE
  /\ time_offset = [value |-> 0, of |-> 0]
  /\ last_sync = [value |-> Never, of |-> 0]
  /\ thread = [t \in Threads |-> Idle]
  /\ mutex = Free /\ sync = NoSync /\ wire = Nothing /\ rtts = {}

\* The steps of a thread that has entered a stub.
Work(t) ==
  \/ LoadEarly(t) \/ CheckFresh(t) \/ CheckStale(t) \/ Return(t)
  \/ Acquire(t) \/ Request(t) \/ Response(t) \/ SetOffset(t) \/ SetLastSync(t)
  \/ Abort(t) \/ BeginCall(t) \/ EndCall(t)

Next ==
  \/ \E t \in Threads : Enter(t) \/ Work(t)
  \/ AnswerSync
  \/ CreateInstance
  \/ EnableSynchronization
  \/ DestroyInstance
  \/ Tick
  \/ Close

Spec == Init /\ [][Next]_vars

\* Threads and the server run.
Fairness == (\A t \in Threads : WF_vars(Work(t))) /\ WF_vars(AnswerSync)
FairSpec == Spec /\ Fairness

-----------------------------------------------------------------------------
(* Properties.                                                             *)

Offsets == [value : Int, of : Nat]
ThreadType ==
  [at : {"idle", "check", "skip", "lock", "round", "await", "stamp", "synced", "ready", "calling"},
   time : Nat, loaded : Offsets \cup {Unread}, skip : Nat,
   got : Offsets \cup {Unread}, raced : BOOLEAN]
SyncType ==
  [left : Nat, t1 : Nat, min_t1 : Nat, min_t2 : Int, min_rtt : Int, seen : SUBSET Int]

\* Types of the globals, of the locals and of what is on the wire.
TypeOK ==
  /\ now \in Nat /\ now <= MaxTime
  /\ instance \in BOOLEAN /\ enabled \in BOOLEAN /\ open \in BOOLEAN
  /\ time_offset \in Offsets /\ last_sync \in Offsets
  /\ thread \in [Threads -> ThreadType]
  /\ mutex \in Threads \cup {Free}
  /\ sync \in SyncType
  /\ wire \in [kind : {"none", "request", "response"}, t : Int]
  /\ rtts \in SUBSET Int

\* While the instance lives, the offset is off by no more than half of the fastest round
\* trip of its synchronization, however the requests, the other threads' calls and the
\* destruction of the instance interleave.
OffsetAccurate ==
  instance /\ time_offset.of > 0 =>
    LET twice == 2 * (time_offset.value - Theta) IN
    \A rtt \in rtts : twice <= rtt /\ 0 - twice <= rtt + 1

\* A call that skips synchronization because of an earlier one uses the offset of that one
\* or of a later one, unless another thread synchronized during the call: then it may
\* have read the old offset (0, at first) and the new last_sync.
SkipsForNewer ==
  \A t \in Threads :
    At(t, "ready") /\ thread[t].skip > 0 =>
      thread[t].got.of >= thread[t].skip \/ thread[t].raced

\* A synchronization that has begun ends, or fails with the connection: it never keeps the
\* message mutex for good, whatever happens to the instance meanwhile.
MutexReleased == \A t \in Threads : (mutex = t) ~> (mutex # t)
=============================================================================
