------------------------ MODULE TransportOrderProofs -------------------------
(***************************************************************************)
(* The discipline of the message mutex, and what follows from it: messages *)
(* are dispatched in the order in which they arrived.                      *)
(***************************************************************************)
EXTENDS TransportProofs

-----------------------------------------------------------------------------
(* The discipline of one thread                                            *)

\* Calls that are about to take the message lock for the call below them.
Lockers == {"lock_count", "lock_acquire", "lock_counted", "start_check"}
\* Calls that nothing is called from.
Leaves == Lockers \cup {"dispatch"}
\* Calls that hold the message mutex, once the lock requested for them is taken.
Owners == {"lock_counted", "rpc_flush", "rpc_done", "await_pop", "handle_pop", "dispatch",
           "ack_flush", "c_defer", "c_queue"}
\* Where consumer_loop and producer_loop stand.
Looping == {"c_top", "c_lock", "c_defer", "c_queue", "c_handled", "p_top", "p_read", "p_push"}

\* Stack s of a thread that holds the message mutex n times: a call that returns gives the
\* mutex back to the depth its caller had, and a caller that needs it still has it then.
Disciplined(s, n) ==
  /\ s # <<>> => s[1].base = 0 /\ s[Len(s)].base <= n
  /\ \A i, j \in 1 .. Len(s) : i <= j => s[i].base <= s[j].base
  /\ \A i \in 1 .. Len(s) :
       /\ s[i].at \in Leaves => i = Len(s)
       /\ s[i].at \in Looping => i = 1
       /\ i = Len(s) /\ s[i].at \in Owners => n > 0
       /\ i < Len(s) /\ s[i].at \in Owners => s[i + 1].base > 0 \/ s[i + 1].at \in Lockers

\* Likewise of thread t, where a user thread never leaves its outermost call.
Sound(t, s, n) ==
  /\ Disciplined(s, n)
  /\ t \in Users => s # <<>> /\ s[1].at = "idle"

\* The thread is about to dispatch a message it has taken from the queue.
Pends(s) == s # <<>> /\ s[Len(s)].at = "dispatch"

\* A sequence of length one.
LEMMA OneIsNotEmpty == ASSUME NEW r, Len(r) = 1 PROVE r # <<>>
<1>1. ASSUME r = <<>> PROVE FALSE
  <2>1. Len(r) = 0
    BY <1>1
  <2>2. QED
    BY <2>1
<1>2. QED
  BY <1>1

\* The innermost call goes on.
LEMMA GoesOn ==
  ASSUME NEW t, NEW s \in Seq(Frames), s # <<>>, NEW n \in Nat, Sound(t, s, n),
         NEW f \in Frames, NEW m \in Nat, f.base = s[Len(s)].base, f.base <= m,
         f.at \in Owners => m > 0,
         s[Len(s)].at \in Lockers => f.at \in Lockers,
         f.at \in Looping => s[Len(s)].at \in Looping,
         s[Len(s)].at = "idle" => f.at = "idle"
  PROVE  /\ WithTop(s, f) \in Seq(Frames) /\ WithTop(s, f) # <<>>
         /\ WithTop(s, f)[Len(WithTop(s, f))] = f
         /\ Sound(t, WithTop(s, f), m)
<1>1. PICK r : r = WithTop(s, f)
  OBVIOUS
<1>2. /\ r \in Seq(Frames) /\ r # <<>> /\ Len(r) = Len(s) /\ r[Len(s)] = f
      /\ \A i \in 1 .. Len(s) - 1 : r[i] = s[i]
  <2>1. /\ WithTop(s, f) \in Seq(Frames) /\ WithTop(s, f) # <<>>
        /\ Len(WithTop(s, f)) = Len(s) /\ WithTop(s, f)[Len(s)] = f
    BY WithTopProperties, Zenon
  <2>2. \A i \in 1 .. Len(s) - 1 : WithTop(s, f)[i] = s[i]
    BY WithTopProperties
  <2>3. QED
    BY <1>1, <2>1, <2>2
<1>3. Len(s) \in Nat \ {0}
  BY UnderProperties
<1>4. \A i \in 1 .. Len(s) : r[i].base = s[i].base
  BY <1>2, <1>3
<1>5. r[1].base = 0 /\ \A i, j \in 1 .. Len(r) : i <= j => r[i].base <= r[j].base
  BY <1>2, <1>3, <1>4 DEF Sound, Disciplined
<1>6. ASSUME NEW i \in 1 .. Len(r)
      PROVE  /\ r[i].at \in Leaves => i = Len(r)
             /\ r[i].at \in Looping => i = 1
             /\ i = Len(r) /\ r[i].at \in Owners => m > 0
             /\ i < Len(r) /\ r[i].at \in Owners => r[i + 1].base > 0 \/ r[i + 1].at \in Lockers
  <2>1. CASE i = Len(s)
    BY <1>2, <1>3, <2>1 DEF Sound, Disciplined
  <2>2. CASE i < Len(s)
    <3>1. r[i] = s[i] /\ i + 1 \in 1 .. Len(s) /\ i \in 1 .. Len(s)
      BY <1>2, <1>3, <2>2
    <3>2. s[i + 1].at \in Lockers => r[i + 1].at \in Lockers
      <4>1. CASE i + 1 = Len(s)
        BY <1>2, <4>1
      <4>2. CASE i + 1 # Len(s)
        BY <1>2, <1>3, <3>1, <4>2
      <4>3. QED
        BY <4>1, <4>2
    <3>3. QED
      BY <1>2, <1>3, <1>4, <2>2, <3>1, <3>2 DEF Sound, Disciplined
  <2>3. QED
    BY <1>2, <1>3, <2>1, <2>2
<1>7. t \in Users => r[1].at = "idle"
  <2>1. CASE Len(s) = 1
    BY <1>2, <2>1 DEF Sound
  <2>2. CASE Len(s) # 1
    BY <1>2, <1>3, <2>2 DEF Sound
  <2>3. QED
    BY <2>1, <2>2
<1>8. QED
  BY <1>1, <1>2, <1>5, <1>6, <1>7 DEF Sound, Disciplined

\* The innermost call returns, leaving the thread at depth m.
LEMMA GoesBack ==
  ASSUME NEW t, NEW s \in Seq(Frames), s # <<>>, NEW n \in Nat, Sound(t, s, n),
         NEW m \in Nat, s[Len(s)].base <= m, s[Len(s)].at \in Lockers => m > 0,
         s[Len(s)].at # "idle"
  PROVE  Under(s) \in Seq(Frames) /\ Sound(t, Under(s), m) /\ ~Pends(Under(s))
<1>1. PICK r : r = Under(s)
  OBVIOUS
<1>2. Len(s) \in Nat \ {0}
  BY UnderProperties
<1>3. r \in Seq(Frames) /\ Len(r) = Len(s) - 1 /\ \A i \in 1 .. Len(s) - 1 : r[i] = s[i]
  <2>1. Under(s) \in Seq(Frames) /\ Len(Under(s)) = Len(s) - 1
    BY UnderProperties
  <2>2. \A i \in 1 .. Len(s) - 1 : Under(s)[i] = s[i]
    BY UnderProperties
  <2>3. QED
    BY <1>1, <2>1, <2>2
<1>4. r # <<>> => Len(r) > 0
  BY <1>3, EmptySeq
<1>5. \A i \in 1 .. Len(s) : s[i] \in Frames /\ s[i].base \in Nat
  <2>1. \A i \in 1 .. Len(s) : s[i] \in Frames
    BY ElementOfSeq
  <2>2. QED
    BY <2>1 DEF Frames
<1>6. r # <<>> => r[1].base = 0 /\ r[Len(r)].base <= m
  <2>1. ASSUME r # <<>> PROVE r[1].base = 0 /\ r[Len(r)].base <= m
    <3>1. Len(r) \in 1 .. Len(s) - 1 /\ r[Len(r)] = s[Len(r)] /\ r[1] = s[1]
      BY <1>2, <1>3, <1>4, <2>1
    <3>2. s[Len(r)].base <= s[Len(s)].base
      BY <1>2, <1>3, <3>1 DEF Sound, Disciplined
    <3>3. QED
      BY <1>2, <1>5, <3>1, <3>2 DEF Sound, Disciplined
  <2>2. QED
    BY <2>1
<1>7. \A i, j \in 1 .. Len(r) : i <= j => r[i].base <= r[j].base
  BY <1>2, <1>3 DEF Sound, Disciplined
<1>8. ASSUME NEW i \in 1 .. Len(r)
      PROVE  /\ r[i].at \notin Leaves
             /\ r[i].at \in Looping => i = 1
             /\ i = Len(r) /\ r[i].at \in Owners => m > 0
             /\ i < Len(r) /\ r[i].at \in Owners => r[i + 1].base > 0 \/ r[i + 1].at \in Lockers
  <2>1. r[i] = s[i] /\ i \in 1 .. Len(s) /\ i < Len(s) /\ i + 1 \in 1 .. Len(s)
    BY <1>2, <1>3
  <2>2. i < Len(r) => r[i + 1] = s[i + 1]
    BY <1>2, <1>3
  <2>3. i = Len(r) => i + 1 = Len(s)
    BY <1>2, <1>3
  <2>4. r[i].at \in Owners => s[i + 1].base > 0 \/ s[i + 1].at \in Lockers
    BY <2>1 DEF Sound, Disciplined
  <2>5. r[i].at \notin Leaves /\ (r[i].at \in Looping => i = 1)
    BY <2>1 DEF Sound, Disciplined
  <2>6. QED
    BY <1>2, <1>5, <2>1, <2>2, <2>3, <2>4, <2>5
<1>9. t \in Users => r # <<>> /\ r[1].at = "idle"
  <2>1. ASSUME t \in Users PROVE r # <<>> /\ r[1].at = "idle"
    <3>1. Len(s) # 1
      BY <2>1 DEF Sound
    <3>2. Len(r) > 0 /\ r[1] = s[1]
      BY <1>2, <1>3, <3>1
    <3>3. QED
      BY <2>1, <3>2, EmptySeq DEF Sound
  <2>2. QED
    BY <2>1
<1>10. ~Pends(r)
  BY <1>3, <1>4, <1>8 DEF Pends, Leaves
<1>11. QED
  BY <1>1, <1>3, <1>6, <1>7, <1>8, <1>9, <1>10 DEF Sound, Disciplined

\* A stack with a call pushed on it.
LEMMA PushProperties ==
  ASSUME NEW s \in Seq(Frames), NEW f \in Frames
  PROVE  /\ Append(s, f) \in Seq(Frames) /\ Append(s, f) # <<>> /\ Len(s) \in Nat
         /\ Len(Append(s, f)) = Len(s) + 1 /\ Append(s, f)[Len(s) + 1] = f
         /\ \A i \in 1 .. Len(s) : Append(s, f)[i] = s[i]
BY AppendProperties, LenProperties

\* A call is made, leaving the thread at depth m, that returns to depth f.base.
LEMMA GoesInto ==
  ASSUME NEW t, NEW s \in Seq(Frames), s # <<>>, NEW n \in Nat, Sound(t, s, n),
         s[Len(s)].at \notin Leaves, NEW f \in Frames, f.at \notin Looping,
         s[Len(s)].base <= f.base,
         s[Len(s)].at \in Owners => f.base > 0 \/ f.at \in Lockers,
         NEW m \in Nat, f.base <= m, f.at \in Owners => m > 0
  PROVE  /\ Append(s, f) \in Seq(Frames) /\ Append(s, f) # <<>>
         /\ Append(s, f)[Len(Append(s, f))] = f
         /\ Sound(t, Append(s, f), m)
<1>1. PICK r : r = Append(s, f)
  OBVIOUS
<1>2. /\ r \in Seq(Frames) /\ r # <<>> /\ Len(s) \in Nat
      /\ Len(r) = Len(s) + 1 /\ r[Len(s) + 1] = f
      /\ \A i \in 1 .. Len(s) : r[i] = s[i]
  BY <1>1, PushProperties
<1>3. Len(s) > 0
  BY <1>2, EmptySeq
<1>4. /\ \A i \in 1 .. Len(s) : s[i] \in Frames /\ s[i].base \in Nat
      /\ f.base \in Nat
  <2>1. \A i \in 1 .. Len(s) : s[i] \in Frames
    BY ElementOfSeq
  <2>2. QED
    BY <2>1 DEF Frames
<1>5. \A i \in 1 .. Len(s) : s[i].base <= f.base
  <2> SUFFICES ASSUME NEW i \in 1 .. Len(s) PROVE s[i].base <= f.base
    OBVIOUS
  <2>1. s[i].base <= s[Len(s)].base
    BY <1>2, <1>3 DEF Sound, Disciplined
  <2>2. QED
    BY <1>2, <1>3, <1>4, <2>1
<1>6. r[1].base = 0 /\ r[Len(r)].base <= m
  BY <1>2, <1>3 DEF Sound, Disciplined
<1>7. ASSUME NEW i \in 1 .. Len(r), NEW j \in 1 .. Len(r), i <= j PROVE r[i].base <= r[j].base
  <2>1. CASE j = Len(r)
    BY <1>2, <1>4, <1>5, <1>7, <2>1
  <2>2. CASE j # Len(r)
    <3>1. i \in 1 .. Len(s) /\ j \in 1 .. Len(s) /\ r[i] = s[i] /\ r[j] = s[j]
      BY <1>2, <1>7, <2>2
    <3>2. QED
      BY <1>7, <3>1 DEF Sound, Disciplined
  <2>3. QED
    BY <2>1, <2>2
<1>8. ASSUME NEW i \in 1 .. Len(r)
      PROVE  /\ r[i].at \in Leaves => i = Len(r)
             /\ r[i].at \in Looping => i = 1
             /\ i = Len(r) /\ r[i].at \in Owners => m > 0
             /\ i < Len(r) /\ r[i].at \in Owners => r[i + 1].base > 0 \/ r[i + 1].at \in Lockers
  <2>1. CASE i = Len(r)
    BY <1>2, <2>1
  <2>2. CASE i = Len(s)
    <3>1. r[i] = s[i] /\ r[i + 1] = f /\ i \in 1 .. Len(s) /\ i < Len(r)
      BY <1>2, <1>3, <2>2
    <3>2. QED
      BY <2>2, <3>1 DEF Sound, Disciplined
  <2>3. CASE i < Len(s)
    <3>1. r[i] = s[i] /\ r[i + 1] = s[i + 1] /\ i \in 1 .. Len(s) /\ i < Len(r)
      BY <1>2, <1>3, <2>3
    <3>2. QED
      BY <1>2, <2>3, <3>1 DEF Sound, Disciplined
  <2>4. QED
    BY <1>2, <2>1, <2>2, <2>3
<1>9. t \in Users => r[1].at = "idle"
  BY <1>2, <1>3 DEF Sound
<1>10. QED
  BY <1>1, <1>2, <1>6, <1>7, <1>8, <1>9 DEF Sound, Disciplined

\* A call is made that begins by taking the message lock.
LEMMA GoesIntoLocked ==
  ASSUME NEW t, NEW s \in Seq(Frames), s # <<>>, NEW n \in Nat, Sound(t, s, n),
         s[Len(s)].at \notin Leaves,
         NEW f \in Frames, f.base = n, f.at \notin Looping, f.at \notin Leaves,
         NEW g \in Frames, g.base = n, g.at \in Lockers \ {"lock_counted"}
  PROVE  /\ Append(Append(s, f), g) \in Seq(Frames)
         /\ Sound(t, Append(Append(s, f), g), n)
         /\ ~Pends(Append(Append(s, f), g))
<1>1. /\ s[Len(s)].base <= n
      /\ s[Len(s)].at \in Owners => n > 0
  BY UnderProperties DEF Sound, Disciplined
<1>2. n + 1 \in Nat /\ n <= n + 1 /\ n + 1 > 0 /\ n <= n
  OBVIOUS
<1> DEFINE r == Append(s, f)
<1>3. r \in Seq(Frames) /\ r # <<>> /\ r[Len(r)] = f /\ Sound(t, r, n + 1)
  BY <1>1, <1>2, GoesInto
<1>4. /\ g.at \notin Looping /\ g.at \notin Owners
      /\ g.at # "dispatch"
  BY DEF Lockers, Looping, Owners
<1> HIDE DEF r
<1>5. /\ Append(r, g) \in Seq(Frames) /\ Append(r, g)[Len(Append(r, g))] = g
      /\ Sound(t, Append(r, g), n)
  <2>1. /\ r[Len(r)].at \notin Leaves /\ r[Len(r)].base <= g.base
        /\ r[Len(r)].at \in Owners => g.base > 0 \/ g.at \in Lockers
        /\ g.base <= n /\ (g.at \in Owners => n > 0)
    BY <1>2, <1>3, <1>4
  <2>2. QED
    BY <1>2, <1>3, <1>4, <2>1, GoesInto
<1>6. QED
  BY <1>4, <1>5 DEF r, Pends

\* An exception unwinds the stack to the k calls below one that is not about to lock.
LEMMA GoesOut ==
  ASSUME NEW t, NEW s \in Seq(Frames), NEW n \in Nat, Sound(t, s, n),
         NEW k \in Nat, k < Len(s), s[k + 1].at \notin Lockers, t \in Users => k > 0
  PROVE  /\ SubSeq(s, 1, k) \in Seq(Frames)
         /\ s[k + 1].base \in Nat /\ s[k + 1].base <= n
         /\ Sound(t, SubSeq(s, 1, k), s[k + 1].base)
         /\ ~Pends(SubSeq(s, 1, k))
<1>1. PICK r : r = SubSeq(s, 1, k)
  OBVIOUS
<1>2. /\ Len(s) \in Nat /\ k <= Len(s) /\ k + 1 \in 1 .. Len(s) /\ Len(s) \in 1 .. Len(s)
      /\ s # <<>>
  BY LenProperties, EmptySeq
<1>3. /\ r \in Seq(Frames) /\ Len(r) = k
      /\ \A i \in 1 .. k : r[i] = s[i]
  BY <1>1, <1>2, PrefixProperties
<1>4. \A i \in 1 .. Len(s) : s[i] \in Frames /\ s[i].base \in Nat
  <2>1. \A i \in 1 .. Len(s) : s[i] \in Frames
    BY ElementOfSeq
  <2>2. QED
    BY <2>1 DEF Frames
<1>5. s[k + 1].base \in Nat /\ s[k + 1].base <= n
  <2>1. s[k + 1].base <= s[Len(s)].base /\ s[Len(s)].base <= n
    BY <1>2 DEF Sound, Disciplined
  <2>2. QED
    BY <1>2, <1>4, <2>1
<1>6. r # <<>> => k > 0
  BY <1>3, EmptySeq
<1>7. r # <<>> => r[1].base = 0 /\ r[Len(r)].base <= s[k + 1].base
  BY <1>2, <1>3, <1>6 DEF Sound, Disciplined
<1>8. \A i, j \in 1 .. Len(r) : i <= j => r[i].base <= r[j].base
  BY <1>2, <1>3 DEF Sound, Disciplined
<1>9. ASSUME NEW i \in 1 .. Len(r)
      PROVE  /\ r[i].at \notin Leaves
             /\ r[i].at \in Looping => i = 1
             /\ i = Len(r) /\ r[i].at \in Owners => s[k + 1].base > 0
             /\ i < Len(r) /\ r[i].at \in Owners => r[i + 1].base > 0 \/ r[i + 1].at \in Lockers
  <2>1. r[i] = s[i] /\ i \in 1 .. Len(s) /\ i < Len(s) /\ i + 1 \in 1 .. Len(s)
    BY <1>2, <1>3
  <2>2. i < Len(r) => r[i + 1] = s[i + 1]
    BY <1>2, <1>3
  <2>3. r[i].at \in Owners => s[i + 1].base > 0 \/ s[i + 1].at \in Lockers
    BY <2>1 DEF Sound, Disciplined
  <2>4. r[i].at \notin Leaves /\ (r[i].at \in Looping => i = 1)
    BY <2>1 DEF Sound, Disciplined
  <2>5. QED
    BY <1>2, <1>3, <2>1, <2>2, <2>3, <2>4
<1>10. t \in Users => r # <<>> /\ r[1].at = "idle"
  <2>1. ASSUME t \in Users PROVE r # <<>> /\ r[1].at = "idle"
    <3>1. Len(r) > 0 /\ r[1] = s[1]
      BY <1>2, <1>3, <2>1
    <3>2. QED
      BY <2>1, <3>1, EmptySeq DEF Sound
  <2>2. QED
    BY <2>1
<1>11. ~Pends(r)
  BY <1>3, <1>6, <1>9 DEF Pends, Leaves
<1>12. QED
  BY <1>1, <1>3, <1>5, <1>7, <1>8, <1>9, <1>10, <1>11 DEF Sound, Disciplined

-----------------------------------------------------------------------------
(* The discipline of all threads                                           *)

\* The message mutex has one owner, every thread keeps the discipline, and nothing runs in
\* the workers before start().
Exclusive == \A t, u \in Threads : held[t] > 0 /\ held[u] > 0 => t = u
LockInv ==
  /\ Exclusive
  /\ \A t \in Threads : Sound(t, stack[t], held[t])
  /\ status = "CREATED" => \A w \in Workers : stack[w] = <<>>

\* A step of thread t as the discipline sees it.
Keeps(t) ==
  /\ stack[t] # <<>>
  /\ \A u \in Threads \ {t} : stack'[u] = stack[u] /\ held'[u] = held[u]
  /\ Sound(t, stack'[t], held'[t])
  /\ held'[t] > 0 => held[t] > 0 \/ MutexFree(t)

\* Such a step preserves the discipline.
LEMMA KeepsLockInv ==
  ASSUME TypeOK, TypeOK', LockInv, NEW t \in Threads, Keeps(t),
         status' = "CREATED" => status = "CREATED"
  PROVE  LockInv'
<1>1. ASSUME NEW u \in Threads PROVE Sound(u, stack'[u], held'[u])
  BY DEF LockInv, Keeps
<1>2. ASSUME NEW u \in Threads, NEW v \in Threads, held'[u] > 0, held'[v] > 0 PROVE u = v
  <2>1. \A w \in Threads : held[w] \in Nat
    BY DEF TypeOK
  <2>2. CASE u = t /\ v # t
    BY <1>2, <2>1, <2>2 DEF LockInv, Exclusive, Keeps, MutexFree
  <2>3. CASE u # t /\ v = t
    BY <1>2, <2>1, <2>3 DEF LockInv, Exclusive, Keeps, MutexFree
  <2>4. CASE u # t /\ v # t
    BY <1>2, <2>4 DEF LockInv, Exclusive, Keeps
  <2>5. QED
    BY <2>2, <2>3, <2>4
<1>3. ASSUME status' = "CREATED", NEW w \in Workers PROVE stack'[w] = <<>>
  BY <1>3 DEF LockInv, Keeps, Threads
<1>4. QED
  BY <1>1, <1>2, <1>3 DEF LockInv, Exclusive

\* What a step of t stores,
LEMMA Stores ==
  ASSUME TypeOK, NEW t \in Threads, NEW s, NEW n, SetStack(t, s), SetHeld(t, n)
  PROVE  /\ stack'[t] = s /\ held'[t] = n
         /\ \A u \in Threads \ {t} : stack'[u] = stack[u] /\ held'[u] = held[u]
BY DEF TypeOK, SetStack, SetHeld

\* also when it leaves the depth alone.
LEMMA HoldsOn ==
  ASSUME TypeOK, NEW t \in Threads, UNCHANGED held
  PROVE  SetHeld(t, held[t]) /\ held[t] \in Nat
BY DEF TypeOK, SetHeld

\* The stack of a running thread, its top and its depth.
LEMMA Running ==
  ASSUME TypeOK, LockInv, NEW t \in Threads, stack[t] # <<>>
  PROVE  /\ stack[t] \in Seq(Frames) /\ Len(stack[t]) \in Nat \ {0}
         /\ Top(t) \in Frames /\ Top(t) = stack[t][Len(stack[t])]
         /\ Top(t).base \in Nat /\ held[t] \in Nat /\ Top(t).base <= held[t]
         /\ Top(t).at \in Owners => held[t] > 0
         /\ Sound(t, stack[t], held[t])
         /\ Top(t).at = "dispatch" <=> Pends(stack[t])
<1>1. stack[t] \in Seq(Frames) /\ Top(t) \in Frames /\ Top(t).base \in Nat
  BY TopType
<1>2. Len(stack[t]) \in Nat \ {0} /\ Top(t) = stack[t][Len(stack[t])] /\ held[t] \in Nat
  BY <1>1, UnderProperties DEF Top, TypeOK
<1>3. Sound(t, stack[t], held[t])
  BY DEF LockInv
<1>4. Len(stack[t]) \in 1 .. Len(stack[t])
  BY <1>2
<1>5. Top(t).base <= held[t] /\ (Top(t).at \in Owners => held[t] > 0)
  BY <1>2, <1>3, <1>4 DEF Sound, Disciplined
<1>6. QED
  BY <1>1, <1>2, <1>3, <1>5 DEF Pends

\* The innermost call of t goes on to label l, at depth n.
LEMMA MovesOn ==
  ASSUME TypeOK, LockInv, NEW t \in Threads, stack[t] # <<>>, NEW l \in Labels, NEW n \in Nat,
         SetStack(t, Moved(t, l)), SetHeld(t, n),
         Top(t).base <= n, l \in Owners => n > 0,
         Top(t).at \in Lockers => l \in Lockers, l \in Looping => Top(t).at \in Looping,
         Top(t).at # "idle", l # "dispatch", n > 0 => held[t] > 0 \/ MutexFree(t)
  PROVE  Keeps(t) /\ ~Pends(stack'[t])
<1> DEFINE f == [Top(t) EXCEPT !.at = l]
<1>1. /\ stack[t] \in Seq(Frames) /\ Top(t) \in Frames /\ Top(t) = stack[t][Len(stack[t])]
      /\ held[t] \in Nat /\ Sound(t, stack[t], held[t])
  BY Running
<1>2. f \in Frames /\ f.at = l /\ f.base = Top(t).base
  BY <1>1 DEF Frames
<1>3. Moved(t, l) = WithTop(stack[t], f)
  BY DEF Moved
<1> HIDE DEF f
<1>4. /\ f.base = stack[t][Len(stack[t])].base /\ f.base <= n
      /\ f.at \in Owners => n > 0
      /\ stack[t][Len(stack[t])].at \in Lockers => f.at \in Lockers
      /\ f.at \in Looping => stack[t][Len(stack[t])].at \in Looping
      /\ stack[t][Len(stack[t])].at = "idle" => f.at = "idle"
  BY <1>1, <1>2
<1>5. /\ WithTop(stack[t], f)[Len(WithTop(stack[t], f))] = f
      /\ Sound(t, WithTop(stack[t], f), n)
  BY <1>1, <1>2, <1>4, GoesOn
<1>6. /\ stack'[t] = WithTop(stack[t], f) /\ held'[t] = n
      /\ \A u \in Threads \ {t} : stack'[u] = stack[u] /\ held'[u] = held[u]
  BY <1>3, Stores
<1>7. QED
  BY <1>2, <1>5, <1>6 DEF Keeps, Pends

\* The innermost call of t returns.
LEMMA Returns ==
  ASSUME TypeOK, LockInv, NEW t \in Threads, stack[t] # <<>>, Return(t),
         Top(t).at \notin Lockers, Top(t).at # "idle"
  PROVE  Keeps(t) /\ ~Pends(stack'[t])
<1>1. /\ stack[t] \in Seq(Frames) /\ Top(t) = stack[t][Len(stack[t])]
      /\ Top(t).base \in Nat /\ Top(t).base <= held[t]
      /\ held[t] \in Nat /\ Sound(t, stack[t], held[t])
  BY Running
<1>2. /\ stack'[t] = Under(stack[t]) /\ held'[t] = Top(t).base
      /\ \A u \in Threads \ {t} : stack'[u] = stack[u] /\ held'[u] = held[u]
  BY Stores DEF Return
<1>3. Sound(t, Under(stack[t]), Top(t).base) /\ ~Pends(Under(stack[t]))
  BY <1>1, GoesBack
<1>4. QED
  BY <1>1, <1>2, <1>3 DEF Keeps

\* The innermost call of t returns and leaves its lock to the caller.
LEMMA ReturnsLocked ==
  ASSUME TypeOK, LockInv, NEW t \in Threads, stack[t] # <<>>,
         SetStack(t, Under(stack[t])), UNCHANGED held, Top(t).at \in Owners
  PROVE  Keeps(t) /\ ~Pends(stack'[t])
<1>1. /\ stack[t] \in Seq(Frames) /\ Top(t) = stack[t][Len(stack[t])]
      /\ Top(t).base \in Nat /\ Top(t).base <= held[t] /\ held[t] > 0
      /\ held[t] \in Nat /\ Sound(t, stack[t], held[t])
  BY Running
<1>2. /\ stack'[t] = Under(stack[t]) /\ held'[t] = held[t]
      /\ \A u \in Threads \ {t} : stack'[u] = stack[u] /\ held'[u] = held[u]
  BY HoldsOn, Stores
<1>3. Top(t).at # "idle"
  BY DEF Owners
<1>4. Sound(t, Under(stack[t]), held[t]) /\ ~Pends(Under(stack[t]))
  BY <1>1, <1>3, GoesBack
<1>5. QED
  BY <1>1, <1>2, <1>4 DEF Keeps

\* Nothing happens to the thread itself.
LEMMA Stays ==
  ASSUME TypeOK, LockInv, NEW t \in Threads, stack[t] # <<>>, UNCHANGED <<stack, held>>
  PROVE  Keeps(t)
<1>1. Sound(t, stack[t], held[t])
  BY DEF LockInv
<1>2. held'[t] = held[t] /\ stack' = stack /\ held' = held
  OBVIOUS
<1>3. QED
  BY <1>1, <1>2 DEF Keeps

\* The innermost call of t throws, in a stack that goes on from the present one.
LEMMA Throws ==
  ASSUME TypeOK, LockInv, NEW t \in Threads, stack[t] # <<>>, ~Pends(stack[t]),
         NEW s \in Seq(Frames), s # <<>>, Sound(t, s, held[t]), Throw(t, s)
  PROVE  Keeps(t) /\ ~Pends(stack'[t])
<1>1. Len(s) \in Nat \ {0} /\ DOMAIN s = 1 .. Len(s) /\ held[t] \in Nat
  BY LenProperties, EmptySeq DEF TypeOK
<1>2. ASSUME NEW i \in DOMAIN s, s[i].at = "handler",
             SetStack(t, SubSeq(s, 1, i - 1)), SetHeld(t, s[i].base)
      PROVE  Keeps(t) /\ ~Pends(stack'[t])
  <2>1. PICK k \in Nat : k = i - 1
    BY <1>1
  <2>2. k < Len(s) /\ i = k + 1 /\ s[k + 1].at \notin Lockers
    BY <1>1, <1>2, <2>1 DEF Lockers
  <2>3. t \in Users => k > 0
    BY <1>1, <1>2, <2>1 DEF Sound
  <2>4. /\ s[k + 1].base \in Nat /\ s[k + 1].base <= held[t]
        /\ Sound(t, SubSeq(s, 1, k), s[k + 1].base)
        /\ ~Pends(SubSeq(s, 1, k))
    BY <1>1, <2>2, <2>3, GoesOut
  <2>5. /\ stack'[t] = SubSeq(s, 1, k) /\ held'[t] = s[k + 1].base
        /\ \A u \in Threads \ {t} : stack'[u] = stack[u] /\ held'[u] = held[u]
    <3>1. SetStack(t, SubSeq(s, 1, k)) /\ SetHeld(t, s[k + 1].base)
      BY <1>2, <2>1, <2>2
    <3>2. QED
      BY <3>1, Stores
  <2>6. QED
    BY <1>1, <2>4, <2>5 DEF Keeps
<1>3. ASSUME t \in Users, SetStack(t, SubSeq(s, 1, 1)), SetHeld(t, 0)
      PROVE  Keeps(t) /\ ~Pends(stack'[t])
  <2>1. PICK r : r = SubSeq(s, 1, 1)
    OBVIOUS
  <2>2. r \in Seq(Frames) /\ Len(r) = 1 /\ \A i \in 1 .. 1 : r[i] = s[i]
    BY <1>1, <2>1, PrefixProperties
  <2>3. r[1] = s[1] /\ r # <<>>
    <3>1. r[1] = s[1]
      BY <2>2
    <3>2. r # <<>>
      BY <2>2, OneIsNotEmpty
    <3>3. QED
      BY <3>1, <3>2
  <2>4. r[1].base = 0 /\ r[1].at = "idle"
    BY <1>3, <2>3 DEF Sound, Disciplined
  <2>5. Sound(t, r, 0) /\ ~Pends(r)
    BY <2>2, <2>3, <2>4 DEF Sound, Disciplined, Pends, Leaves, Lockers, Looping, Owners
  <2>6. /\ stack'[t] = r /\ held'[t] = 0
        /\ \A u \in Threads \ {t} : stack'[u] = stack[u] /\ held'[u] = held[u]
    BY <1>3, <2>1, Stores
  <2>7. QED
    BY <2>5, <2>6 DEF Keeps
<1>4. ASSUME UNCHANGED <<stack, held>>
      PROVE  Keeps(t) /\ ~Pends(stack'[t])
  BY <1>4, Stays
<1>5. QED
  BY <1>2, <1>3, <1>4 DEF Throw

\* A caller whose next operation has begun.
LEMMA Begins ==
  ASSUME TypeOK, LockInv, NEW t \in Threads, stack[t] # <<>>, Top(t).at \in UserLabels,
         Top(t).todo # <<>>
  PROVE  /\ Begun(t) \in Seq(Frames) /\ Begun(t) # <<>>
         /\ Begun(t)[Len(Begun(t))].at = Top(t).at
         /\ Begun(t)[Len(Begun(t))].at \notin Leaves
         /\ Sound(t, Begun(t), held[t]) /\ held[t] \in Nat
         /\ ~Pends(stack[t]) /\ ~Pends(Begun(t))
<1>1. /\ stack[t] \in Seq(Frames) /\ Top(t) \in Frames /\ Top(t) = stack[t][Len(stack[t])]
      /\ held[t] \in Nat /\ Sound(t, stack[t], held[t])
      /\ Top(t).base \in Nat /\ Top(t).base <= held[t]
  BY Running
<1> DEFINE f == [Top(t) EXCEPT !.todo = Tail(Top(t).todo)]
<1>2. Tail(Top(t).todo) \in Seq(Ops)
  BY <1>1, HeadTailProperties DEF Frames
<1>3. f \in Frames /\ f.at = Top(t).at /\ f.base = Top(t).base
  BY <1>1, <1>2 DEF Frames
<1>4. Begun(t) = WithTop(stack[t], f)
  BY DEF Begun
<1>5. Top(t).at \notin Leaves \cup Looping \cup Owners /\ Top(t).at # "dispatch"
  BY DEF UserLabels, Leaves, Lockers, Looping, Owners
<1> HIDE DEF f
<1>6. /\ f.base = stack[t][Len(stack[t])].base /\ f.base <= held[t]
      /\ f.at \notin Owners /\ stack[t][Len(stack[t])].at \notin Lockers /\ f.at \notin Looping
      /\ stack[t][Len(stack[t])].at = "idle" => f.at = "idle"
  BY <1>1, <1>3, <1>5 DEF Leaves
<1>7. /\ WithTop(stack[t], f) \in Seq(Frames) /\ WithTop(stack[t], f) # <<>>
      /\ WithTop(stack[t], f)[Len(WithTop(stack[t], f))] = f
      /\ Sound(t, WithTop(stack[t], f), held[t])
  BY <1>1, <1>3, <1>6, GoesOn
<1>8. QED
  BY <1>1, <1>3, <1>4, <1>5, <1>7 DEF Pends

\* A call from that caller, standing at label l, that first takes the message lock.
LEMMA CallsLocked ==
  ASSUME TypeOK, LockInv, NEW t \in Threads, stack[t] # <<>>, Top(t).at \in UserLabels,
         Top(t).todo # <<>>, UNCHANGED held,
         NEW f \in Frames, f.base = held[t], f.at \notin Looping, f.at \notin Leaves,
         \/ SetStack(t, Locking(Append(Begun(t), f), held[t]))
         \/ SetStack(t, Starting(Append(Begun(t), f), held[t]))
  PROVE  Keeps(t) /\ ~Pends(stack[t]) /\ ~Pends(stack'[t])
<1>1. /\ Begun(t) \in Seq(Frames) /\ Begun(t) # <<>>
      /\ Begun(t)[Len(Begun(t))].at \notin Leaves
      /\ Sound(t, Begun(t), held[t]) /\ held[t] \in Nat /\ ~Pends(stack[t])
  BY Begins
<1>2. <<>> \in Seq(Ops)
  OBVIOUS
<1>3. ASSUME NEW g \in Frames, g.base = held[t], g.at \in Lockers \ {"lock_counted"},
             SetStack(t, Append(Append(Begun(t), f), g))
      PROVE  Keeps(t) /\ ~Pends(stack'[t])
  <2>1. /\ Sound(t, Append(Append(Begun(t), f), g), held[t])
        /\ ~Pends(Append(Append(Begun(t), f), g))
    BY <1>1, <1>3, GoesIntoLocked
  <2>2. SetHeld(t, held[t])
    BY HoldsOn
  <2>3. /\ stack'[t] = Append(Append(Begun(t), f), g) /\ held'[t] = held[t]
        /\ \A u \in Threads \ {t} : stack'[u] = stack[u] /\ held'[u] = held[u]
    BY <1>3, <2>2, Stores
  <2>4. QED
    BY <2>1, <2>3 DEF Keeps
<1>4. /\ Frame("lock_count", NoMsg, <<>>, held[t]) \in Frames
      /\ Frame("start_check", NoMsg, <<>>, held[t]) \in Frames
  BY <1>1, <1>2, LabelsType, NoMsgType, FrameType
<1>5. /\ Frame("lock_count", NoMsg, <<>>, held[t]).base = held[t]
      /\ Frame("lock_count", NoMsg, <<>>, held[t]).at \in Lockers \ {"lock_counted"}
      /\ Frame("start_check", NoMsg, <<>>, held[t]).base = held[t]
      /\ Frame("start_check", NoMsg, <<>>, held[t]).at \in Lockers \ {"lock_counted"}
  BY DEF Frame, Lockers
<1>6. QED
  BY <1>1, <1>3, <1>4, <1>5 DEF Locking, Starting

\* A step that leaves the queue and its history alone, by a thread that dispatches nothing.
Quiet(t) ==
  /\ Keeps(t) /\ ~Pends(stack[t]) /\ ~Pends(stack'[t])
  /\ UNCHANGED <<queue, arrived, taken>>

\* The calls of user code and handlers.
LEMMA CallsAreQuiet ==
  ASSUME TypeOK, LockInv, NEW t \in Threads,
         CallSend(t) \/ CallSync(t) \/ CallHandlers(t)
  PROVE  Quiet(t)
<1>1. /\ stack[t] # <<>> /\ Top(t).at \in UserLabels /\ Top(t).todo # <<>> /\ UNCHANGED held
      /\ UNCHANGED <<queue, arrived, taken>>
  BY DEF CallSend, CallSync, CallHandlers, Calls, hist
<1>2. held[t] \in Nat /\ Top(t).msg \in Msgs /\ Top(t).msg.id \in Nat
  BY <1>1, TopType DEF TypeOK, Msgs
<1>3. /\ <<>> \in Seq(Ops) /\ <<"rpc", "rpc">> \in Seq(Ops)
      /\ {"send_flush", "rpc_flush", "set_handler", "erase_handler", "clear_handlers",
          "sync_run"} \subseteq Labels
      /\ {"send_flush", "rpc_flush", "set_handler", "erase_handler", "clear_handlers",
          "sync_run"} \cap (Looping \cup Leaves) = {}
  BY LabelsType DEF Ops, Looping, Leaves, Lockers
<1>4. /\ Msg("event", 0) \in Msgs /\ Msg("ret", Top(t).msg.id) \in Msgs
      /\ Msg("call", 0) \in Msgs /\ NoMsg \in Msgs
  BY <1>2, MsgType, NoMsgType DEF Headers
<1>5. ASSUME NEW l \in {"send_flush", "rpc_flush", "set_handler", "erase_handler",
                        "clear_handlers", "sync_run"},
             NEW m \in Msgs, NEW td \in Seq(Ops),
             \/ SetStack(t, Locking(Append(Begun(t), Frame(l, m, td, held[t])), held[t]))
             \/ SetStack(t, Starting(Append(Begun(t), Frame(l, m, td, held[t])), held[t]))
      PROVE  Quiet(t)
  <2>1. PICK f : f = Frame(l, m, td, held[t])
    OBVIOUS
  <2>2. f \in Frames /\ f.base = held[t] /\ f.at = l
    BY <1>2, <1>3, <2>1, FrameType DEF Frame
  <2>3. f.at \notin Looping /\ f.at \notin Leaves
    BY <1>3, <2>2
  <2>4. QED
    BY <1>1, <1>5, <2>1, <2>2, <2>3, CallsLocked DEF Quiet
<1>6. CASE CallSend(t)
  BY <1>3, <1>4, <1>5, <1>6 DEF CallSend, Call
<1>7. CASE CallSync(t)
  BY <1>3, <1>4, <1>5, <1>7 DEF CallSync
<1>8. CASE CallHandlers(t)
  <2>1. PICK c \in {<<"register", "set_handler">>, <<"unregister", "erase_handler">>,
                    <<"clear", "clear_handlers">>} :
          SetStack(t, Locking(Call(t, c[2], Msg("call", 0)), held[t]))
    BY <1>8 DEF CallHandlers
  <2>2. c[2] \in {"set_handler", "erase_handler", "clear_handlers"}
    BY <2>1
  <2>3. QED
    BY <1>3, <1>4, <1>5, <2>1, <2>2 DEF Call
<1>9. QED
  BY <1>6, <1>7, <1>8

\* await_message and handle_message are refused, or called.
LEMMA CallAwaitIsQuiet ==
  ASSUME TypeOK, LockInv, NEW t \in Threads, CallAwait(t)
  PROVE  Quiet(t)
<1>1. /\ stack[t] # <<>> /\ Top(t).at \in UserLabels /\ Top(t).todo # <<>>
      /\ UNCHANGED <<queue, arrived, taken>>
  BY DEF CallAwait, Calls, hist
<1>2. /\ Begun(t) \in Seq(Frames) /\ Begun(t) # <<>>
      /\ Begun(t)[Len(Begun(t))].at \notin Leaves
      /\ Begun(t)[Len(Begun(t))].at = Top(t).at
      /\ Sound(t, Begun(t), held[t]) /\ held[t] \in Nat /\ ~Pends(stack[t])
  BY <1>1, Begins
<1>3. CASE Throw(t, Begun(t))
  BY <1>1, <1>2, <1>3, Throws DEF Quiet
<1> DEFINE f == Frame("await_done", NoMsg, <<>>, held[t])
           g == Frame("await_pop", Msg("call", 0), <<>>, held[t])
           h == Frame("handle_pop", Msg("call", 0), <<>>, held[t])
           k == Frame("lock_count", NoMsg, <<>>, held[t])
<1>4. f \in Frames /\ g \in Frames /\ h \in Frames /\ k \in Frames
  <2>1. <<>> \in Seq(Ops) /\ Msg("call", 0) \in Msgs /\ NoMsg \in Msgs
    BY MsgType, NoMsgType DEF Headers
  <2>2. QED
    BY <1>2, <2>1, FrameType, LabelsType
<1>5. /\ f.base = held[t] /\ f.at \notin Looping \cup Leaves \cup Owners
      /\ g.base = held[t] /\ g.at \notin Looping \cup Leaves
      /\ h.base = held[t] /\ h.at \notin Looping \cup Leaves
      /\ k.base = held[t] /\ k.at \in Lockers \ {"lock_counted"}
  BY DEF Frame, Looping, Leaves, Lockers, Owners
<1> HIDE DEF f, g, h, k
<1>6. CASE SetStack(t, Locking(Append(Append(Begun(t), f), g), held[t])) /\ UNCHANGED held
  <2>1. /\ Begun(t)[Len(Begun(t))].base <= f.base /\ Begun(t)[Len(Begun(t))].at \notin Owners
        /\ f.base <= held[t] /\ f.at \notin Looping /\ f.at \notin Owners
    BY <1>1, <1>2, <1>5, UnderProperties DEF Sound, Disciplined, UserLabels, Owners
  <2>2. PICK r : r = Append(Begun(t), f)
    OBVIOUS
  <2>3. r \in Seq(Frames) /\ r # <<>> /\ r[Len(r)] = f /\ Sound(t, r, held[t])
    BY <1>2, <1>4, <2>1, <2>2, GoesInto
  <2>4. r[Len(r)].at \notin Leaves /\ g.at \notin Looping /\ g.at \notin Leaves
    BY <1>5, <2>3
  <2>5. Sound(t, Append(Append(r, g), k), held[t]) /\ ~Pends(Append(Append(r, g), k))
    BY <1>2, <1>4, <1>5, <2>3, <2>4, GoesIntoLocked
  <2>6. SetStack(t, Append(Append(r, g), k)) /\ SetHeld(t, held[t])
    BY <1>6, <2>2, HoldsOn DEF Locking, k
  <2>7. /\ stack'[t] = Append(Append(r, g), k) /\ held'[t] = held[t]
        /\ \A u \in Threads \ {t} : stack'[u] = stack[u] /\ held'[u] = held[u]
    BY <2>6, Stores
  <2>8. QED
    BY <1>1, <1>2, <2>5, <2>7 DEF Quiet, Keeps
<1>7. CASE SetStack(t, Locking(Append(Begun(t), h), held[t])) /\ UNCHANGED held
  <2>1. h.at \notin Looping /\ h.at \notin Leaves
    BY <1>5
  <2>2. QED
    BY <1>1, <1>4, <1>5, <1>7, <2>1, CallsLocked DEF Quiet
<1>8. QED
  BY <1>3, <1>6, <1>7 DEF CallAwait, Call, f, g, h

\* shutdown() is refused, or called.
LEMMA CallShutdownIsQuiet ==
  ASSUME TypeOK, LockInv, NEW t \in Threads, CallShutdown(t)
  PROVE  Quiet(t)
<1>1. /\ stack[t] # <<>> /\ Top(t).at \in UserLabels /\ Top(t).todo # <<>>
      /\ UNCHANGED <<queue, arrived, taken>>
  BY DEF CallShutdown, Calls, hist
<1>2. /\ Begun(t) \in Seq(Frames) /\ Begun(t) # <<>>
      /\ Sound(t, Begun(t), held[t]) /\ held[t] \in Nat /\ ~Pends(stack[t])
  BY <1>1, Begins
<1>3. CASE Throw(t, Begun(t))
  BY <1>1, <1>2, <1>3, Throws DEF Quiet
<1>4. PICK f : f = Frame("shutdown_flush", Msg("shutdown", 0), <<>>, held[t])
  OBVIOUS
<1>5. f \in Frames
  <2>1. <<>> \in Seq(Ops) /\ Msg("shutdown", 0) \in Msgs
    BY MsgType DEF Headers
  <2>2. QED
    BY <1>2, <1>4, <2>1, FrameType, LabelsType
<1>6. f.base = held[t] /\ f.at \notin Looping /\ f.at \notin Leaves
  BY <1>4 DEF Frame, Looping, Leaves, Lockers
<1>7. CASE SetStack(t, Starting(Append(Begun(t), f), held[t])) /\ UNCHANGED held
  BY <1>1, <1>5, <1>6, <1>7, CallsLocked DEF Quiet
<1>8. QED
  BY <1>3, <1>4, <1>7 DEF CallShutdown, Call

\* close(), join() and the destructor take no message lock.
LEMMA CloseIsQuiet ==
  ASSUME TypeOK, LockInv, NEW t \in Threads, CallClose(t) \/ Join(t) \/ Destroy(t)
  PROVE  Quiet(t)
<1>1. /\ stack[t] # <<>> /\ Top(t).at \in UserLabels /\ Top(t).todo # <<>>
      /\ UNCHANGED <<queue, arrived, taken>> /\ UNCHANGED held
  BY DEF CallClose, Join, Destroy, Calls, hist
<1>2. /\ Begun(t) \in Seq(Frames) /\ Begun(t) # <<>>
      /\ Begun(t)[Len(Begun(t))].at \notin Leaves
      /\ Begun(t)[Len(Begun(t))].at = Top(t).at
      /\ Sound(t, Begun(t), held[t]) /\ held[t] \in Nat
      /\ ~Pends(stack[t]) /\ ~Pends(Begun(t))
  BY <1>1, Begins
<1>3. SetHeld(t, held[t])
  BY <1>1, HoldsOn
<1>4. ASSUME NEW s, SetStack(t, s), Sound(t, s, held[t]), ~Pends(s)
      PROVE  Quiet(t)
  <2>1. /\ stack'[t] = s /\ held'[t] = held[t]
        /\ \A u \in Threads \ {t} : stack'[u] = stack[u] /\ held'[u] = held[u]
    BY <1>3, <1>4, Stores
  <2>2. QED
    BY <1>1, <1>2, <1>4, <2>1 DEF Quiet, Keeps
<1>5. CASE CallClose(t)
  <2>1. PICK f : f = Frame("close_stop", NoMsg, <<>>, held[t])
    OBVIOUS
  <2>2. f \in Frames
    <3>1. <<>> \in Seq(Ops)
      OBVIOUS
    <3>2. QED
      BY <1>2, <2>1, <3>1, NoMsgType, FrameType, LabelsType
  <2>3. /\ f.base = held[t] /\ f.at \notin Looping /\ f.at \notin Owners /\ f.at # "dispatch"
    BY <2>1 DEF Frame, Looping, Owners
  <2>4. Begun(t)[Len(Begun(t))].base <= f.base /\ Begun(t)[Len(Begun(t))].at \notin Owners
    BY <1>1, <1>2, <2>3, UnderProperties DEF Sound, Disciplined, UserLabels, Owners
  <2>5. f.base <= held[t]
    BY <1>2, <2>3
  <2>6. /\ Sound(t, Append(Begun(t), f), held[t])
        /\ Append(Begun(t), f)[Len(Append(Begun(t), f))] = f
    BY <1>2, <2>2, <2>3, <2>4, <2>5, GoesInto
  <2>7. ~Pends(Append(Begun(t), f))
    BY <2>3, <2>6 DEF Pends
  <2>8. SetStack(t, Append(Begun(t), f))
    BY <1>5, <2>1 DEF CallClose, Call
  <2>9. QED
    BY <1>4, <2>6, <2>7, <2>8
<1>6. CASE Join(t)
  BY <1>2, <1>4, <1>6 DEF Join
<1>7. CASE Destroy(t)
  <2>1. PICK td \in {<<"close", "join">>, <<"join">>} :
          SetStack(t, WithTop(stack[t], [Top(t) EXCEPT !.todo = td]))
    BY <1>7 DEF Destroy
  <2>2. PICK f : f = [Top(t) EXCEPT !.todo = td]
    OBVIOUS
  <2>3. /\ stack[t] \in Seq(Frames) /\ Top(t) \in Frames /\ Top(t) = stack[t][Len(stack[t])]
        /\ Sound(t, stack[t], held[t]) /\ Top(t).base <= held[t]
    BY <1>1, Running
  <2>4. td \in Seq(Ops)
    <3>1. <<"close", "join">> \in Seq(Ops) /\ <<"join">> \in Seq(Ops)
      BY DEF Ops
    <3>2. QED
      BY <2>1, <3>1
  <2>5. f \in Frames /\ f.at = Top(t).at /\ f.base = Top(t).base
    BY <2>2, <2>3, <2>4 DEF Frames
  <2>6. Top(t).at \notin Leaves \cup Looping \cup Owners \cup Lockers /\ Top(t).at # "dispatch"
    BY <1>1 DEF UserLabels, Leaves, Lockers, Looping, Owners
  <2>7. /\ f.base = stack[t][Len(stack[t])].base /\ f.base <= held[t]
        /\ f.at \notin Owners /\ stack[t][Len(stack[t])].at \notin Lockers /\ f.at \notin Looping
        /\ stack[t][Len(stack[t])].at = "idle" => f.at = "idle"
    BY <2>3, <2>5, <2>6
  <2>8. /\ WithTop(stack[t], f)[Len(WithTop(stack[t], f))] = f
        /\ Sound(t, WithTop(stack[t], f), held[t])
    BY <1>1, <1>2, <2>3, <2>5, <2>7, GoesOn
  <2>9. ~Pends(WithTop(stack[t], f))
    BY <2>5, <2>6, <2>8 DEF Pends
  <2>10. QED
    BY <1>4, <2>1, <2>2, <2>8, <2>9
<1>8. QED
  BY <1>5, <1>6, <1>7

\* A step of the innermost call, at a label of no caller, that keeps its depth.
LEMMA MovesQuietly ==
  ASSUME TypeOK, LockInv, NEW t \in Threads, stack[t] # <<>>, NEW l \in Labels,
         SetStack(t, Moved(t, l)), UNCHANGED held, Top(t).at # "idle", Top(t).at # "dispatch",
         l # "dispatch", l \in Owners => Top(t).at \in Owners,
         Top(t).at \in Lockers => l \in Lockers, l \in Looping => Top(t).at \in Looping
  PROVE  Keeps(t) /\ ~Pends(stack[t]) /\ ~Pends(stack'[t])
<1>1. /\ held[t] \in Nat /\ Top(t).base <= held[t] /\ (Top(t).at \in Owners => held[t] > 0)
      /\ Top(t).at = "dispatch" <=> Pends(stack[t])
  BY Running
<1>2. SetHeld(t, held[t])
  BY HoldsOn
<1>3. QED
  BY <1>1, <1>2, MovesOn

\* lock_message_mutex and start_message on their way.
LEMMA LockIsQuiet ==
  ASSUME TypeOK, LockInv, NEW t \in Threads,
         LockCount(t) \/ LockAcquire(t) \/ LockCounted(t) \/ StartCheck(t)
  PROVE  Quiet(t)
<1>1. stack[t] # <<>> /\ UNCHANGED <<queue, arrived, taken>>
  BY DEF LockCount, LockAcquire, LockCounted, StartCheck, At, hist
<1>2. /\ stack[t] \in Seq(Frames) /\ held[t] \in Nat /\ Top(t).base <= held[t]
      /\ Top(t).at = "dispatch" <=> Pends(stack[t])
      /\ Sound(t, stack[t], held[t]) /\ Top(t).base \in Nat
  BY <1>1, Running
<1>3. CASE LockCount(t)
  <2>1. Top(t).at = "lock_count" /\ SetStack(t, Moved(t, "lock_acquire")) /\ UNCHANGED held
    BY <1>3 DEF LockCount, At
  <2>2. "lock_acquire" \notin Owners /\ "lock_acquire" \in Lockers /\ "lock_acquire" \notin Looping
    BY DEF Owners, Lockers, Looping
  <2>3. QED
    BY <1>1, <2>1, <2>2, LabelsType, MovesQuietly DEF Quiet
<1>4. CASE LockAcquire(t)
  <2>1. /\ Top(t).at = "lock_acquire" /\ SetStack(t, Moved(t, "lock_counted"))
        /\ SetHeld(t, held[t] + 1) /\ MutexFree(t)
    BY <1>4 DEF LockAcquire, At
  <2>2. "lock_counted" \in Lockers /\ "lock_counted" \notin Looping
    BY DEF Lockers, Looping
  <2>3. held[t] + 1 \in Nat /\ held[t] + 1 > 0 /\ Top(t).base <= held[t] + 1
    BY <1>2
  <2>4. Keeps(t) /\ ~Pends(stack'[t])
    BY <1>1, <2>1, <2>2, <2>3, LabelsType, MovesOn
  <2>5. QED
    BY <1>1, <1>2, <2>1, <2>4 DEF Quiet
<1>5. CASE LockCounted(t)
  <2>1. /\ Top(t).at = "lock_counted" /\ SetStack(t, Under(stack[t])) /\ UNCHANGED held
        /\ "lock_counted" \in Owners
    BY <1>5 DEF LockCounted, At, Owners
  <2>2. Keeps(t) /\ ~Pends(stack'[t])
    BY <1>1, <2>1, ReturnsLocked
  <2>3. QED
    BY <1>1, <1>2, <2>1, <2>2 DEF Quiet
<1>6. CASE StartCheck(t) /\ Throw(t, stack[t])
  <2>1. ~Pends(stack[t])
    BY <1>2, <1>6 DEF StartCheck, At
  <2>2. QED
    BY <1>1, <1>2, <1>6, <2>1, Throws DEF Quiet
<1>7. CASE StartCheck(t) /\ SetStack(t, Moved(t, "lock_count")) /\ UNCHANGED held
  <2>1. Top(t).at = "start_check"
    BY <1>7 DEF StartCheck, At
  <2>2. "lock_count" \notin Owners /\ "lock_count" \in Lockers /\ "lock_count" \notin Looping
    BY DEF Owners, Lockers, Looping
  <2>3. QED
    BY <1>1, <1>7, <2>1, <2>2, LabelsType, MovesQuietly DEF Quiet
<1>8. QED
  BY <1>3, <1>4, <1>5, <1>6, <1>7 DEF StartCheck

\* Flushes that nothing waits for, the update of the status by close(), and the failures
\* and waits that leave every stack alone.
LEMMA FlushIsQuiet ==
  ASSUME TypeOK, LockInv, NEW t \in Threads,
         \/ SendFlush(t) \/ ShutdownFlush(t) \/ CloseStop(t)
         \/ FlushFails(t) \/ AwaitBlocks(t) \/ AckFlush(t)
  PROVE  Quiet(t)
<1>1. stack[t] # <<>> /\ UNCHANGED <<queue, arrived, taken>>
  BY DEF SendFlush, ShutdownFlush, CloseStop, FlushFails, AwaitBlocks, AckFlush, Awaiting, At, hist
<1>2. /\ held[t] \in Nat /\ Top(t).base \in Nat /\ Top(t).base <= held[t]
      /\ Top(t).at = "dispatch" <=> Pends(stack[t])
      /\ Top(t).at \in Owners => held[t] > 0
  BY <1>1, Running
<1>3. /\ {"send_done", "shutdown_mark", "close_stream", "ack_done"} \subseteq Labels
      /\ {"send_done", "shutdown_mark", "close_stream", "ack_done"}
           \cap (Owners \cup Looping \cup {"dispatch"}) = {}
      /\ {"send_flush", "shutdown_flush", "close_stop", "ack_flush"}
           \cap (Lockers \cup {"idle", "dispatch"}) = {}
      /\ "ack_flush" \in Owners
  BY LabelsType DEF Owners, Looping, Lockers
<1>4. CASE SendFlush(t) \/ ShutdownFlush(t) \/ CloseStop(t)
  <2>1. PICK l \in {"send_done", "shutdown_mark", "close_stream"} :
          SetStack(t, Moved(t, l)) /\ UNCHANGED held
    BY <1>4 DEF SendFlush, ShutdownFlush, CloseStop
  <2>2. Top(t).at \in {"send_flush", "shutdown_flush", "close_stop"}
    BY <1>4 DEF SendFlush, ShutdownFlush, CloseStop, At
  <2>3. /\ l \in Labels /\ l # "dispatch" /\ l \notin Owners /\ l \notin Looping
        /\ Top(t).at \notin Lockers /\ Top(t).at # "idle" /\ Top(t).at # "dispatch"
    BY <1>3, <2>1, <2>2
  <2>4. QED
    BY <1>1, <2>1, <2>3, MovesQuietly DEF Quiet
<1>5. CASE FlushFails(t) \/ AwaitBlocks(t)
  <2>1. UNCHANGED <<stack, held>>
    BY <1>5 DEF FlushFails, AwaitBlocks
  <2>2. Top(t).at # "dispatch"
    BY <1>5 DEF FlushFails, AwaitBlocks, Awaiting, At, FlushLabels
  <2>3. QED
    BY <1>1, <1>2, <2>1, <2>2, Stays DEF Quiet
<1>6. CASE AckFlush(t)
  <2>1. /\ Top(t).at = "ack_flush" /\ SetStack(t, Moved(t, "ack_done"))
        /\ SetHeld(t, Top(t).base + 1)
    BY <1>6 DEF AckFlush, At
  <2>2. Top(t).base + 1 \in Nat /\ Top(t).base <= Top(t).base + 1 /\ held[t] > 0
    BY <1>2, <1>3, <2>1
  <2>3. /\ "ack_done" \in Labels /\ "ack_done" \notin Owners /\ "ack_done" \notin Looping
        /\ Top(t).at \notin Lockers /\ Top(t).at # "idle" /\ Top(t).at # "dispatch"
    BY <1>3, <2>1
  <2>4. Keeps(t) /\ ~Pends(stack'[t])
    BY <1>1, <2>1, <2>2, <2>3, MovesOn
  <2>5. QED
    BY <1>1, <1>2, <2>3, <2>4 DEF Quiet
<1>7. QED
  BY <1>4, <1>5, <1>6

\* The ends of calls.
LEMMA EndIsQuiet ==
  ASSUME TypeOK, LockInv, NEW t \in Threads,
         \/ SendDone(t) \/ RpcDone(t) \/ AwaitDone(t) \/ AckDone(t) \/ HandlerReturn(t)
         \/ SyncDone(t) \/ SetHandlers(t) \/ ShutdownMark(t) \/ CloseStream(t)
  PROVE  Quiet(t)
<1>1. stack[t] # <<>> /\ UNCHANGED <<queue, arrived, taken>> /\ Return(t)
  BY DEF SendDone, RpcDone, AwaitDone, AckDone, HandlerReturn, SyncDone, SetHandlers,
    ShutdownMark, CloseStream, At, hist
<1>2. Top(t).at \in {"send_done", "rpc_done", "await_done", "handle_done", "ack_done", "handler",
        "sync_run", "set_handler", "erase_handler", "clear_handlers", "shutdown_mark",
        "close_stream"}
  BY DEF SendDone, RpcDone, AwaitDone, AckDone, HandlerReturn, SyncDone, SetHandlers,
    ShutdownMark, CloseStream, At
<1>3. Top(t).at \notin Lockers /\ Top(t).at # "idle" /\ Top(t).at # "dispatch"
  BY <1>2 DEF Lockers
<1>4. Keeps(t) /\ ~Pends(stack'[t])
  BY <1>1, <1>3, Returns
<1>5. ~Pends(stack[t])
  BY <1>1, <1>3, Running
<1>6. QED
  BY <1>1, <1>4, <1>5 DEF Quiet

\* await_any_message on a closed transport throws.
LEMMA AwaitClosedIsQuiet ==
  ASSUME TypeOK, LockInv, NEW t \in Threads, AwaitClosed(t)
  PROVE  Quiet(t)
<1>1. stack[t] # <<>> /\ UNCHANGED <<queue, arrived, taken>> /\ Throw(t, stack[t])
  BY DEF AwaitClosed, Awaiting, At, hist
<1>2. Top(t).at # "dispatch"
  BY DEF AwaitClosed, Awaiting, At
<1>3. stack[t] \in Seq(Frames) /\ Sound(t, stack[t], held[t]) /\ ~Pends(stack[t])
  BY <1>1, <1>2, Running
<1>4. QED
  BY <1>1, <1>3, Throws DEF Quiet

\* The innermost call moved on, as a stack.
LEMMA MovedIsSound ==
  ASSUME TypeOK, LockInv, NEW t \in Threads, stack[t] # <<>>, NEW l \in Labels,
         l \in Owners => held[t] > 0, Top(t).at \notin Lockers,
         l \in Looping => Top(t).at \in Looping, Top(t).at # "idle"
  PROVE  /\ Moved(t, l) \in Seq(Frames) /\ Moved(t, l) # <<>>
         /\ Moved(t, l)[Len(Moved(t, l))].at = l
         /\ Moved(t, l)[Len(Moved(t, l))].base = Top(t).base
         /\ Sound(t, Moved(t, l), held[t])
<1> DEFINE f == [Top(t) EXCEPT !.at = l]
<1>1. /\ stack[t] \in Seq(Frames) /\ Top(t) \in Frames /\ Top(t) = stack[t][Len(stack[t])]
      /\ held[t] \in Nat /\ Sound(t, stack[t], held[t]) /\ Top(t).base <= held[t]
  BY Running
<1>2. f \in Frames /\ f.at = l /\ f.base = Top(t).base
  BY <1>1 DEF Frames
<1>3. Moved(t, l) = WithTop(stack[t], f)
  BY DEF Moved
<1> HIDE DEF f
<1>4. /\ f.base = stack[t][Len(stack[t])].base /\ f.base <= held[t]
      /\ f.at \in Owners => held[t] > 0
      /\ stack[t][Len(stack[t])].at \in Lockers => f.at \in Lockers
      /\ f.at \in Looping => stack[t][Len(stack[t])].at \in Looping
      /\ stack[t][Len(stack[t])].at = "idle" => f.at = "idle"
  BY <1>1, <1>2
<1>5. /\ WithTop(stack[t], f) \in Seq(Frames) /\ WithTop(stack[t], f) # <<>>
      /\ WithTop(stack[t], f)[Len(WithTop(stack[t], f))] = f
      /\ Sound(t, WithTop(stack[t], f), held[t])
  BY <1>1, <1>2, <1>4, GoesOn
<1>6. QED
  BY <1>2, <1>3, <1>5

\* A worker in its loop has called nothing and owes no lock.
LEMMA Loops ==
  ASSUME TypeOK, LockInv, NEW t \in Threads, stack[t] # <<>>, Top(t).at \in Looping
  PROVE  Top(t).base = 0 /\ t \notin Users /\ Top(t).at \notin Lockers /\ Top(t).at # "idle"
         /\ Top(t).at # "dispatch" /\ ~Pends(stack[t])
<1>1. /\ Len(stack[t]) \in Nat \ {0} /\ Top(t) = stack[t][Len(stack[t])]
      /\ Sound(t, stack[t], held[t])
      /\ Top(t).at = "dispatch" <=> Pends(stack[t])
  BY Running
<1>2. Len(stack[t]) = 1
  <2>1. Len(stack[t]) \in 1 .. Len(stack[t]) /\ stack[t][Len(stack[t])].at \in Looping
    BY <1>1
  <2>2. QED
    BY <1>1, <2>1 DEF Sound, Disciplined
<1>3. Top(t).at \notin Lockers /\ Top(t).at # "idle" /\ Top(t).at # "dispatch"
  BY DEF Looping, Lockers
<1>4. QED
  BY <1>1, <1>2, <1>3 DEF Sound, Disciplined

\* A worker returns from its loop.
LEMMA LoopEnds ==
  ASSUME TypeOK, LockInv, NEW t \in Threads, stack[t] # <<>>, Top(t).at \in Looping,
         SetStack(t, <<>>), NEW n \in Nat, SetHeld(t, n), n <= held[t]
  PROVE  Keeps(t) /\ ~Pends(stack[t]) /\ ~Pends(stack'[t])
<1>1. t \notin Users /\ ~Pends(stack[t])
  BY Loops
<1>2. /\ stack'[t] = <<>> /\ held'[t] = n
      /\ \A u \in Threads \ {t} : stack'[u] = stack[u] /\ held'[u] = held[u]
  BY Stores
<1>3. held[t] \in Nat
  BY DEF TypeOK
<1>4. Sound(t, <<>>, n) /\ ~Pends(<<>>)
  <2>1. Len(<<>>) = 0 /\ 1 .. 0 = {}
    OBVIOUS
  <2>2. QED
    BY <1>1, <2>1 DEF Sound, Disciplined, Pends
<1>5. QED
  BY <1>1, <1>2, <1>3, <1>4 DEF Keeps

\* producer_loop up to the push.
LEMMA ProducerIsQuiet ==
  ASSUME TypeOK, LockInv, NEW t \in Threads, ProducerTop(t) \/ ProducerRead(t)
  PROVE  Quiet(t)
<1>1. /\ stack[t] # <<>> /\ UNCHANGED <<queue, arrived, taken>> /\ UNCHANGED held
      /\ Top(t).at \in {"p_top", "p_read"}
  BY DEF ProducerTop, ProducerRead, At, hist
<1>2. /\ Top(t).at \in Looping /\ Top(t).at \notin Lockers /\ Top(t).at # "idle"
      /\ Top(t).at # "dispatch"
      /\ {"p_read", "close_stop", "p_push"} \cap (Owners \cup {"dispatch"}) = {}
  BY <1>1 DEF Looping, Lockers, Owners
<1>3. /\ held[t] \in Nat /\ SetHeld(t, held[t]) /\ Top(t).base <= held[t]
      /\ stack[t] \in Seq(Frames) /\ Top(t) \in Frames /\ Top(t) = stack[t][Len(stack[t])]
      /\ Sound(t, stack[t], held[t])
  BY <1>1, HoldsOn, Running
<1>4. CASE SetStack(t, <<>>)
  BY <1>1, <1>2, <1>3, <1>4, LoopEnds DEF Quiet
<1>5. ASSUME NEW l \in {"p_read", "close_stop"}, SetStack(t, Moved(t, l)) PROVE Quiet(t)
  <2>1. l \in Labels
    BY LabelsType
  <2>2. QED
    BY <1>1, <1>2, <1>5, <2>1, MovesQuietly DEF Quiet
<1>6. CASE ProducerTop(t)
  BY <1>4, <1>5, <1>6 DEF ProducerTop
<1>7. CASE ProducerRead(t) /\ SetStack(t, Moved(t, ReadFails))
  BY <1>5, <1>7 DEF ReadFails
<1>8. CASE /\ ProducerRead(t) /\ in_stream # <<>>
           /\ SetStack(t, WithTop(stack[t], [Top(t) EXCEPT !.at = "p_push",
                                                          !.msg = Head(in_stream)]))
  <2>1. PICK f : f = [Top(t) EXCEPT !.at = "p_push", !.msg = Head(in_stream)]
    OBVIOUS
  <2>2. Head(in_stream) \in Msgs
    BY <1>8, HeadTailProperties DEF TypeOK
  <2>3. f \in Frames /\ f.at = "p_push" /\ f.base = Top(t).base
    BY <1>3, <2>1, <2>2, LabelsType DEF Frames
  <2>4. /\ f.base = stack[t][Len(stack[t])].base /\ f.base <= held[t]
        /\ f.at \in Owners => held[t] > 0
        /\ stack[t][Len(stack[t])].at \in Lockers => f.at \in Lockers
        /\ f.at \in Looping => stack[t][Len(stack[t])].at \in Looping
        /\ stack[t][Len(stack[t])].at = "idle" => f.at = "idle"
    BY <1>2, <1>3, <2>3
  <2>5. /\ WithTop(stack[t], f)[Len(WithTop(stack[t], f))] = f
        /\ Sound(t, WithTop(stack[t], f), held[t])
    BY <1>1, <1>3, <2>3, <2>4, GoesOn
  <2>6. /\ stack'[t] = WithTop(stack[t], f) /\ held'[t] = held[t]
        /\ \A u \in Threads \ {t} : stack'[u] = stack[u] /\ held'[u] = held[u]
    BY <1>3, <1>8, <2>1, Stores
  <2>7. ~Pends(stack[t]) /\ ~Pends(stack'[t])
    BY <1>2, <1>3, <2>3, <2>5, <2>6 DEF Pends
  <2>8. QED
    BY <1>1, <2>5, <2>6, <2>7 DEF Quiet, Keeps
<1>9. QED
  BY <1>6, <1>7, <1>8 DEF ProducerRead

\* consumer_loop, but for the step that takes a message.
LEMMA ConsumerIsQuiet ==
  ASSUME TypeOK, LockInv, NEW t \in Threads,
         \/ ConsumerTop(t) \/ ConsumerLock(t) \/ ConsumerDefer(t) \/ ConsumerExit(t)
         \/ ConsumerWait(t) \/ ConsumerHandled(t)
  PROVE  Quiet(t)
<1>1. /\ stack[t] # <<>> /\ UNCHANGED <<queue, arrived, taken>>
      /\ Top(t).at \in {"c_top", "c_lock", "c_defer", "c_queue", "c_handled"}
  BY DEF ConsumerTop, ConsumerLock, ConsumerDefer, ConsumerExit, ConsumerWait, ConsumerHandled,
    At, hist
<1>2. /\ Top(t).at \in Looping
      /\ {"c_top", "c_lock", "c_defer", "c_queue"} \subseteq Labels \cap Looping
      /\ {"c_top", "c_lock"} \cap Owners = {} /\ "c_defer" \in Owners
  BY <1>1, LabelsType DEF Looping, Owners
<1>3. /\ held[t] \in Nat /\ Top(t).base = 0 /\ Top(t).at \notin Lockers /\ Top(t).at # "idle"
      /\ ~Pends(stack[t]) /\ Top(t).at # "dispatch"
  BY <1>1, <1>2, Loops DEF TypeOK
<1>4. ASSUME NEW l \in {"c_top", "c_lock", "c_defer", "c_queue"}, NEW n \in Nat,
             SetStack(t, Moved(t, l)), SetHeld(t, n), l \in {"c_defer", "c_queue"} => n > 0,
             n > 0 => held[t] > 0 \/ MutexFree(t)
      PROVE  Quiet(t)
  <2>1. /\ l \in Labels /\ Top(t).base <= n /\ (l \in Owners => n > 0) /\ l # "dispatch"
    BY <1>2, <1>3, <1>4
  <2>2. Keeps(t) /\ ~Pends(stack'[t])
    BY <1>1, <1>2, <1>3, <1>4, <2>1, MovesOn
  <2>3. QED
    BY <1>1, <1>3, <2>2 DEF Quiet
<1>5. CASE ConsumerTop(t)
  <2>1. SetHeld(t, held[t])
    BY <1>5, HoldsOn DEF ConsumerTop
  <2>2. CASE SetStack(t, <<>>)
    <3>1. held[t] <= held[t]
      BY <1>3
    <3>2. QED
      BY <1>1, <1>2, <1>3, <2>1, <2>2, <3>1, LoopEnds DEF Quiet
  <2>3. CASE SetStack(t, Moved(t, "c_lock"))
    BY <1>3, <1>4, <2>1, <2>3
  <2>4. QED
    BY <1>5, <2>2, <2>3 DEF ConsumerTop
<1>6. CASE ConsumerLock(t)
  <2>1. held[t] + 1 \in Nat /\ held[t] + 1 > 0
    BY <1>3
  <2>2. QED
    BY <1>4, <1>6, <2>1 DEF ConsumerLock
<1>7. CASE ConsumerDefer(t)
  <2>1. CASE num_waiting > 0
    BY <1>4, <1>7, <2>1 DEF ConsumerDefer
  <2>2. CASE ~(num_waiting > 0)
    <3>1. /\ SetStack(t, Moved(t, "c_queue")) /\ SetHeld(t, held[t]) /\ Top(t).at = "c_defer"
      BY <1>7, <2>2, HoldsOn DEF ConsumerDefer, At
    <3>2. held[t] > 0
      BY <1>1, <1>2, <3>1, Running
    <3>3. QED
      BY <1>3, <1>4, <3>1, <3>2
  <2>3. QED
    BY <2>1, <2>2
<1>8. CASE ConsumerExit(t)
  <2>1. SetHeld(t, 0) /\ SetStack(t, <<>>) /\ 0 <= held[t]
    BY <1>3, <1>8 DEF ConsumerExit
  <2>2. QED
    BY <1>1, <1>2, <2>1, LoopEnds DEF Quiet
<1>9. CASE ConsumerWait(t)
  BY <1>4, <1>9 DEF ConsumerWait
<1>10. CASE ConsumerHandled(t)
  BY <1>4, <1>10 DEF ConsumerHandled
<1>11. QED
  BY <1>5, <1>6, <1>7, <1>8, <1>9, <1>10

\* The flush of a call: the caller keeps the message mutex and awaits the answer.
LEMMA RpcFlushIsQuiet ==
  ASSUME TypeOK, LockInv, NEW t \in Threads, RpcFlush(t)
  PROVE  Quiet(t)
<1>1. /\ stack[t] # <<>> /\ Top(t).at = "rpc_flush" /\ UNCHANGED <<queue, arrived, taken>>
      /\ UNCHANGED held
  BY DEF RpcFlush, At, hist
<1>2. /\ stack[t] \in Seq(Frames) /\ Top(t) \in Frames /\ Top(t) = stack[t][Len(stack[t])]
      /\ held[t] \in Nat /\ Sound(t, stack[t], held[t]) /\ Top(t).base <= held[t]
      /\ Top(t).at \in Owners => held[t] > 0
      /\ Top(t).at = "dispatch" <=> Pends(stack[t])
      /\ SetHeld(t, held[t]) /\ next_id \in Nat
  BY <1>1, Running, HoldsOn DEF TypeOK
<1>3. held[t] > 0
  BY <1>1, <1>2 DEF Owners
<1> DEFINE f == [Top(t) EXCEPT !.at = "rpc_done", !.msg = Msg("call", next_id)]
           g == Frame("await_pop", Msg("ret", 0), <<>>, held[t])
           k == Frame("lock_count", NoMsg, <<>>, held[t])
<1>4. <<>> \in Seq(Ops) /\ Msg("call", next_id) \in Msgs /\ Msg("ret", 0) \in Msgs /\ NoMsg \in Msgs
  BY <1>2, MsgType, NoMsgType DEF Headers
<1>5. f \in Frames /\ f.at = "rpc_done" /\ f.base = Top(t).base
  BY <1>2, <1>4, LabelsType DEF Frames
<1>6. g \in Frames /\ k \in Frames
  BY <1>2, <1>4, FrameType, LabelsType
<1>7. /\ g.base = held[t] /\ g.at = "await_pop"
      /\ k.base = held[t] /\ k.at = "lock_count"
  BY DEF Frame
<1>8. SetStack(t, Append(Append(WithTop(stack[t], f), g), k))
  BY DEF RpcFlush, Locking
<1> HIDE DEF f, g, k
<1>9. /\ f.base = stack[t][Len(stack[t])].base /\ f.base <= held[t]
      /\ f.at \in Owners => held[t] > 0
      /\ stack[t][Len(stack[t])].at \in Lockers => f.at \in Lockers
      /\ f.at \in Looping => stack[t][Len(stack[t])].at \in Looping
      /\ stack[t][Len(stack[t])].at = "idle" => f.at = "idle"
  BY <1>1, <1>2, <1>3, <1>5 DEF Lockers, Looping
<1>10. PICK r : r = WithTop(stack[t], f)
  OBVIOUS
<1>11. r \in Seq(Frames) /\ r # <<>> /\ r[Len(r)] = f /\ Sound(t, r, held[t])
  BY <1>1, <1>2, <1>5, <1>9, <1>10, GoesOn
<1>12. /\ r[Len(r)].at \notin Leaves /\ g.at \notin Looping /\ g.at \notin Leaves
       /\ k.at \in Lockers \ {"lock_counted"}
  BY <1>5, <1>7, <1>11 DEF Leaves, Lockers, Looping
<1>13. Sound(t, Append(Append(r, g), k), held[t]) /\ ~Pends(Append(Append(r, g), k))
  BY <1>2, <1>6, <1>7, <1>11, <1>12, GoesIntoLocked
<1>14. /\ stack'[t] = Append(Append(r, g), k) /\ held'[t] = held[t]
       /\ \A u \in Threads \ {t} : stack'[u] = stack[u] /\ held'[u] = held[u]
  BY <1>2, <1>8, <1>10, Stores
<1>15. QED
  BY <1>1, <1>2, <1>3, <1>13, <1>14 DEF Quiet, Keeps

-----------------------------------------------------------------------------
(* Taking, dispatching and queueing messages                               *)

\* Thread t takes the first message of the queue, to dispatch it or to return it.
Takes(t) ==
  /\ Keeps(t) /\ held[t] > 0 /\ ~Pends(stack[t])
  /\ queue # <<>> /\ queue' = Tail(queue) /\ UNCHANGED arrived
  /\ \/ /\ Pends(stack'[t]) /\ stack'[t][Len(stack'[t])].msg = Head(queue)
        /\ UNCHANGED taken
     \/ /\ ~Pends(stack'[t])
        /\ taken' = Append(taken, Head(queue))

\* Thread t dispatches the message it has taken.
Dispatches(t) ==
  /\ Keeps(t) /\ Pends(stack[t]) /\ ~Pends(stack'[t])
  /\ taken' = Append(taken, Top(t).msg) /\ UNCHANGED <<queue, arrived>>

\* Thread t queues message m.
Queues(t, m) ==
  /\ Keeps(t) /\ ~Pends(stack[t]) /\ ~Pends(stack'[t])
  /\ queue' = Append(queue, m) /\ arrived' = Append(arrived, m) /\ UNCHANGED taken

\* dispatch_to_handler is called by an owner of the message mutex.
LEMMA DispatchCalled ==
  ASSUME TypeOK, LockInv, NEW t \in Threads, stack[t] # <<>>, UNCHANGED held, held[t] > 0,
         NEW s \in Seq(Frames), s # <<>>, Sound(t, s, held[t]), s[Len(s)].at \notin Leaves,
         NEW m \in Msgs, SetStack(t, Append(s, Dispatching(m, held[t])))
  PROVE  Keeps(t) /\ Pends(stack'[t]) /\ stack'[t][Len(stack'[t])].msg = m
<1>1. held[t] \in Nat /\ SetHeld(t, held[t])
  BY HoldsOn
<1>2. PICK f : f = Dispatching(m, held[t])
  OBVIOUS
<1>3. f \in Frames /\ f.base = held[t] /\ f.at = "dispatch" /\ f.msg = m
  BY <1>1, <1>2, DispatchingType DEF Dispatching, Frame
<1>4. s[Len(s)].base <= f.base
  BY <1>3, UnderProperties DEF Sound, Disciplined
<1>5. f.at \notin Looping /\ f.base <= held[t] /\ f.base > 0
  BY <1>1, <1>3 DEF Looping
<1>6. /\ Append(s, f)[Len(Append(s, f))] = f /\ Append(s, f) # <<>>
      /\ Sound(t, Append(s, f), held[t])
  BY <1>1, <1>3, <1>4, <1>5, GoesInto
<1>7. /\ stack'[t] = Append(s, f) /\ held'[t] = held[t]
      /\ \A u \in Threads \ {t} : stack'[u] = stack[u] /\ held'[u] = held[u]
  BY <1>1, <1>2, Stores
<1>8. QED
  BY <1>3, <1>6, <1>7 DEF Keeps, Pends

\* A message is taken by await_message, handle_message or consumer_loop, all of which hold
\* the message mutex.
LEMMA TakesAreTakes ==
  ASSUME TypeOK, LockInv, NEW t \in Threads,
         AwaitMatch(t) \/ AwaitOther(t) \/ HandleTake(t) \/ ConsumerTake(t)
  PROVE  Takes(t)
<1>1. /\ stack[t] # <<>> /\ Top(t).at \in {"await_pop", "handle_pop", "c_queue"}
      /\ UNCHANGED arrived /\ UNCHANGED held /\ queue # <<>> /\ queue' = Tail(queue)
  BY DEF AwaitMatch, AwaitOther, HandleTake, ConsumerTake, At, hist
<1>2. /\ Top(t).at \in Owners /\ Top(t).at \notin Lockers /\ Top(t).at # "idle"
      /\ Top(t).at \notin Leaves /\ Top(t).at # "dispatch"
  BY <1>1 DEF Owners, Lockers, Leaves
<1>3. /\ held[t] > 0 /\ stack[t] \in Seq(Frames) /\ Sound(t, stack[t], held[t])
      /\ ~Pends(stack[t]) /\ Top(t) = stack[t][Len(stack[t])]
  BY <1>1, <1>2, Running
<1>4. Head(queue) \in Msgs
  BY <1>1, HeadTailProperties DEF TypeOK
<1>5. CASE AwaitMatch(t)
  <2>1. SetStack(t, Under(stack[t])) /\ taken' = Append(taken, Head(queue))
    BY <1>5 DEF AwaitMatch
  <2>2. Keeps(t) /\ ~Pends(stack'[t])
    BY <1>1, <1>2, <2>1, ReturnsLocked
  <2>3. QED
    BY <1>1, <1>3, <2>1, <2>2 DEF Takes
<1>6. ASSUME UNCHANGED taken, NEW s \in Seq(Frames), s # <<>>, Sound(t, s, held[t]),
             s[Len(s)].at \notin Leaves, SetStack(t, Append(s, Dispatching(Head(queue), held[t])))
      PROVE  Takes(t)
  <2>1. Keeps(t) /\ Pends(stack'[t]) /\ stack'[t][Len(stack'[t])].msg = Head(queue)
    BY <1>1, <1>3, <1>4, <1>6, DispatchCalled
  <2>2. QED
    BY <1>1, <1>3, <1>6, <2>1 DEF Takes
<1>7. CASE AwaitOther(t)
  BY <1>1, <1>2, <1>3, <1>6, <1>7 DEF AwaitOther, hist
<1>8. ASSUME UNCHANGED taken, NEW l \in {"handle_done", "handle_pop", "c_handled"},
             l = "c_handled" => Top(t).at = "c_queue",
             SetStack(t, Append(Moved(t, l), Dispatching(Head(queue), held[t])))
      PROVE  Takes(t)
  <2>1. l \in Labels /\ l \notin Leaves /\ (l \in Looping => Top(t).at \in Looping)
    BY <1>8, LabelsType DEF Leaves, Lockers, Looping
  <2>2. /\ Moved(t, l) \in Seq(Frames) /\ Moved(t, l) # <<>>
        /\ Moved(t, l)[Len(Moved(t, l))].at = l
        /\ Sound(t, Moved(t, l), held[t])
    BY <1>1, <1>2, <1>3, <2>1, MovedIsSound
  <2>3. QED
    BY <1>6, <1>8, <2>1, <2>2
<1>9. CASE HandleTake(t)
  BY <1>8, <1>9 DEF HandleTake, hist
<1>10. CASE ConsumerTake(t)
  BY <1>8, <1>10 DEF ConsumerTake, At, hist
<1>11. QED
  BY <1>5, <1>7, <1>9, <1>10

\* dispatch_to_handler hands the message over, ignores it, or answers a SHUTDOWN.
LEMMA DispatchesAreDispatches ==
  ASSUME TypeOK, LockInv, NEW t \in Threads,
         DispatchToHandler(t) \/ DispatchIgnored(t) \/ DispatchShutdown(t)
  PROVE  Dispatches(t)
<1>1. /\ stack[t] # <<>> /\ Top(t).at = "dispatch"
      /\ taken' = Append(taken, Top(t).msg) /\ UNCHANGED <<queue, arrived>>
  BY DEF DispatchToHandler, DispatchIgnored, DispatchShutdown, At
<1>2. /\ stack[t] \in Seq(Frames) /\ Top(t) \in Frames /\ Top(t) = stack[t][Len(stack[t])]
      /\ Top(t).base \in Nat /\ held[t] \in Nat /\ Top(t).base <= held[t]
      /\ Sound(t, stack[t], held[t]) /\ Pends(stack[t])
      /\ Top(t).at \in Owners => held[t] > 0
  BY <1>1, Running
<1>3. /\ Top(t).at \notin Lockers /\ Top(t).at # "idle" /\ held[t] > 0
      /\ Top(t).base <= held[t] + 1 /\ held[t] + 1 \in Nat /\ held[t] + 1 > 0
  BY <1>1, <1>2 DEF Lockers, Owners
<1>4. CASE DispatchIgnored(t)
  <2>1. Return(t)
    BY <1>4 DEF DispatchIgnored
  <2>2. Keeps(t) /\ ~Pends(stack'[t])
    BY <1>1, <1>3, <2>1, Returns
  <2>3. QED
    BY <1>1, <1>2, <2>2 DEF Dispatches
<1>5. CASE DispatchToHandler(t)
  <2>1. PICK script \in HandlerScripts :
          SetStack(t, WithTop(stack[t], [Top(t) EXCEPT !.at = "handler", !.todo = script]))
    BY <1>5 DEF DispatchToHandler
  <2>2. PICK f : f = [Top(t) EXCEPT !.at = "handler", !.todo = script]
    OBVIOUS
  <2>3. script \in Seq(Ops)
    BY ScriptsAssumption, SeqMonotonic
  <2>4. f \in Frames /\ f.at = "handler" /\ f.base = Top(t).base
    BY <1>2, <2>2, <2>3, LabelsType DEF Frames
  <2>5. /\ f.base = stack[t][Len(stack[t])].base /\ f.base <= held[t] + 1
        /\ f.at \in Owners => held[t] + 1 > 0
        /\ stack[t][Len(stack[t])].at \in Lockers => f.at \in Lockers
        /\ f.at \in Looping => stack[t][Len(stack[t])].at \in Looping
        /\ stack[t][Len(stack[t])].at = "idle" => f.at = "idle"
    BY <1>2, <1>3, <2>4 DEF Looping
  <2>6. /\ WithTop(stack[t], f)[Len(WithTop(stack[t], f))] = f
        /\ Sound(t, WithTop(stack[t], f), held[t] + 1)
    BY <1>1, <1>2, <1>3, <2>4, <2>5, GoesOn
  <2>7. SetStack(t, WithTop(stack[t], f)) /\ SetHeld(t, held[t] + 1)
    BY <1>5, <2>1, <2>2 DEF DispatchToHandler
  <2>8. /\ stack'[t] = WithTop(stack[t], f) /\ held'[t] = held[t] + 1
        /\ \A u \in Threads \ {t} : stack'[u] = stack[u] /\ held'[u] = held[u]
    BY <2>7, Stores
  <2>9. QED
    BY <1>1, <1>2, <1>3, <2>4, <2>6, <2>8 DEF Dispatches, Keeps, Pends
<1>6. CASE DispatchShutdown(t)
  <2>1. SetHeld(t, held[t] + 1)
    BY <1>6 DEF DispatchShutdown
  <2>2. CASE SetStack(t, Moved(t, "ack_done"))
    <3>1. "ack_done" \in Labels /\ "ack_done" \notin Owners /\ "ack_done" \notin Looping
      BY LabelsType DEF Owners, Looping
    <3>2. Keeps(t) /\ ~Pends(stack'[t])
      BY <1>1, <1>3, <2>1, <2>2, <3>1, MovesOn
    <3>3. QED
      BY <1>1, <1>2, <3>2 DEF Dispatches
  <2>3. CASE SetStack(t, Starting(Moved(t, "ack_flush"), held[t] + 1))
    <3>1. "ack_flush" \in Labels /\ "ack_flush" \notin Leaves /\ "ack_flush" \notin Looping
      BY LabelsType DEF Leaves, Lockers, Looping
    <3>2. PICK s : s = Moved(t, "ack_flush")
      OBVIOUS
    <3>3. /\ s \in Seq(Frames) /\ s # <<>> /\ s[Len(s)].at = "ack_flush"
          /\ s[Len(s)].base = Top(t).base /\ Sound(t, s, held[t])
      BY <1>1, <1>3, <3>1, <3>2, MovedIsSound
    <3>4. PICK g : g = Frame("start_check", NoMsg, <<>>, held[t] + 1)
      OBVIOUS
    <3>5. <<>> \in Seq(Ops)
      OBVIOUS
    <3>6. g \in Frames
      BY <1>3, <3>4, <3>5, NoMsgType, LabelsType, FrameType
    <3>7. /\ g.at = "start_check" /\ g.base = held[t] + 1
          /\ g.at \notin Looping /\ g.at \in Lockers /\ g.at \notin Owners
      BY <3>4 DEF Frame, Looping, Lockers, Owners
    <3>8. s[Len(s)].at \notin Leaves /\ s[Len(s)].base <= g.base /\ g.base <= held[t] + 1
      BY <1>3, <3>1, <3>3, <3>7
    <3>9. /\ Append(s, g)[Len(Append(s, g))] = g
          /\ Sound(t, Append(s, g), held[t] + 1)
      BY <1>2, <1>3, <3>3, <3>6, <3>7, <3>8, GoesInto
    <3>10. SetStack(t, Append(s, g))
      BY <2>3, <3>2, <3>4 DEF Starting
    <3>11. /\ stack'[t] = Append(s, g) /\ held'[t] = held[t] + 1
           /\ \A u \in Threads \ {t} : stack'[u] = stack[u] /\ held'[u] = held[u]
      BY <2>1, <3>10, Stores
    <3>12. QED
      BY <1>1, <1>2, <1>3, <3>7, <3>9, <3>11 DEF Dispatches, Keeps, Pends
  <2>4. QED
    BY <1>6, <2>2, <2>3 DEF DispatchShutdown
<1>7. QED
  BY <1>4, <1>5, <1>6

\* The producer queues what it has read.
LEMMA ProducerPushQueues ==
  ASSUME TypeOK, LockInv, NEW t \in Threads, ProducerPush(t)
  PROVE  Queues(t, Top(t).msg)
<1>1. /\ stack[t] # <<>> /\ Top(t).at = "p_push" /\ UNCHANGED held /\ UNCHANGED taken
      /\ queue' = Append(queue, Top(t).msg) /\ arrived' = Append(arrived, Top(t).msg)
  BY DEF ProducerPush, At
<1>2. /\ "p_push" \in Looping /\ "p_top" \in Looping /\ "p_top" \notin Owners
      /\ "p_top" \in Labels /\ "p_push" \notin Lockers
  BY LabelsType DEF Looping, Owners, Lockers
<1>3. CASE SetStack(t, <<>>)
  <2>1. SetHeld(t, held[t]) /\ held[t] \in Nat /\ held[t] <= held[t]
    BY <1>1, HoldsOn
  <2>2. QED
    BY <1>1, <1>2, <1>3, <2>1, LoopEnds DEF Queues
<1>4. CASE SetStack(t, Moved(t, "p_top"))
  BY <1>1, <1>2, <1>4, MovesQuietly DEF Queues
<1>5. QED
  BY <1>3, <1>4 DEF ProducerPush, AfterPush

-----------------------------------------------------------------------------
(* Messages are dispatched in the order of their arrival                   *)

\* What has arrived is what was dispatched, then the message a thread is about to dispatch,
\* then the queue.
OrderInv ==
  /\ \A t \in Threads : Pends(stack[t]) => arrived = Append(taken, Top(t).msg) \o queue
  /\ (\A t \in Threads : ~Pends(stack[t])) => arrived = taken \o queue

\* Only the owner of the message mutex is about to dispatch a message.
LEMMA PendsAlone ==
  ASSUME TypeOK, LockInv, NEW t \in Threads, held[t] > 0, NEW u \in Threads, Pends(stack[u])
  PROVE  u = t
<1>1. stack[u] # <<>>
  BY DEF Pends
<1>2. Top(u).at = "dispatch" /\ (Top(u).at \in Owners => held[u] > 0)
  BY <1>1, Running
<1>3. held[u] > 0
  BY <1>2 DEF Owners
<1>4. QED
  BY <1>3 DEF LockInv, Exclusive

\* Moving the boundary between two parts of a sequence.
LEMMA Shift ==
  ASSUME NEW S, NEW a \in Seq(S), NEW q \in Seq(S), q # <<>>
  PROVE  a \o q = Append(a, Head(q)) \o Tail(q)
<1>1. /\ Head(q) \in S /\ Tail(q) \in Seq(S) /\ Len(Tail(q)) = Len(q) - 1
      /\ Len(q) \in Nat \ {0} /\ Head(q) = q[1]
  BY HeadTailProperties, LenProperties, EmptySeq
<1>2. \A i \in 1 .. Len(Tail(q)) : Tail(q)[i] = q[i + 1]
  BY HeadTailProperties
<1>3. PICK x \in S, r \in Seq(S) : x = Head(q) /\ r = Tail(q)
  BY <1>1
<1>4. Len(r) = Len(q) - 1 /\ x = q[1] /\ \A i \in 1 .. Len(r) : r[i] = q[i + 1]
  BY <1>1, <1>2, <1>3
<1>5. PICK h : h = <<x>>
  OBVIOUS
<1>6. h \in Seq(S) /\ Len(h) = 1 /\ h[1] = x
  BY <1>5
<1>7. PICK c : c = h \o r
  OBVIOUS
<1>8. /\ c \in Seq(S) /\ Len(c) = Len(h) + Len(r)
  BY <1>6, <1>7, ConcatProperties
<1>9. \A i \in 1 .. Len(h) + Len(r) : c[i] = IF i <= Len(h) THEN h[i] ELSE r[i - Len(h)]
  BY <1>6, <1>7, ConcatProperties
<1>10. Len(c) = Len(q)
  BY <1>1, <1>4, <1>6, <1>8
<1>11. ASSUME NEW i \in 1 .. Len(c) PROVE c[i] = q[i]
  <2>1. CASE i = 1
    BY <1>1, <1>4, <1>6, <1>8, <1>9, <1>11, <2>1
  <2>2. CASE i # 1
    <3>1. /\ i - 1 \in 1 .. Len(r) /\ (i - 1) + 1 = i /\ ~(i <= Len(h))
          /\ i \in 1 .. Len(h) + Len(r)
      BY <1>1, <1>4, <1>6, <1>8, <1>11, <2>2
    <3>2. r[i - 1] = q[i]
      BY <1>4, <3>1
    <3>3. QED
      BY <1>6, <1>9, <3>1, <3>2
  <2>3. QED
    BY <2>1, <2>2
<1>12. c = q
  BY <1>8, <1>10, <1>11, SeqEqual
<1>13. Append(a, x) = a \o h
  BY <1>5, AppendIsConcat
<1>14. (a \o h) \o r = a \o (h \o r)
  BY <1>6, ConcatAssociative
<1>15. QED
  BY <1>3, <1>7, <1>12, <1>13, <1>14

\* What is appended to the second part of a sequence is appended to the whole.
LEMMA Extend ==
  \A a \in Seq(Msgs), q \in Seq(Msgs), m \in Msgs : Append(a \o q, m) = a \o Append(q, m)
<1> TAKE a \in Seq(Msgs), q \in Seq(Msgs), m \in Msgs
<1>1. PICK h \in Seq(Msgs) : h = <<m>>
  <2>1. <<m>> \in Seq(Msgs)
    OBVIOUS
  <2>2. QED
    BY <2>1
<1>2. a \o q \in Seq(Msgs)
  BY ConcatProperties
<1>3. Append(a \o q, m) = (a \o q) \o h
  BY <1>1, <1>2, AppendIsConcat
<1>4. Append(q, m) = q \o h
  BY <1>1, AppendIsConcat
<1>5. (a \o q) \o h = a \o (q \o h)
  BY ConcatAssociative
<1>6. QED
  BY <1>3, <1>4, <1>5

\* A step that moves no message preserves the order.
LEMMA QuietKeepsOrder ==
  ASSUME OrderInv, NEW t \in Threads, Quiet(t)
  PROVE  OrderInv'
<1>1. \A u \in Threads \ {t} : stack'[u] = stack[u]
  BY DEF Quiet, Keeps
<1>2. ASSUME NEW u \in Threads, Pends(stack'[u])
      PROVE  arrived' = Append(taken', Top(u)'.msg) \o queue'
  <2>1. u # t /\ stack'[u] = stack[u]
    BY <1>1, <1>2 DEF Quiet
  <2>2. Pends(stack[u]) /\ Top(u)' = Top(u)
    BY <1>2, <2>1 DEF Top
  <2>3. QED
    BY <2>2 DEF OrderInv, Quiet
<1>3. (\A u \in Threads : ~Pends(stack'[u])) => \A u \in Threads : ~Pends(stack[u])
  BY <1>1 DEF Quiet
<1>4. QED
  BY <1>2, <1>3 DEF OrderInv, Quiet

\* A message leaves the queue to be dispatched or returned next.
LEMMA TakeKeepsOrder ==
  ASSUME TypeOK, LockInv, OrderInv, NEW t \in Threads, Takes(t)
  PROVE  OrderInv'
<1>1. \A u \in Threads : ~Pends(stack[u])
  BY PendsAlone DEF Takes
<1>2. arrived = taken \o queue
  BY <1>1 DEF OrderInv
<1>3. taken \o queue = Append(taken, Head(queue)) \o Tail(queue)
  BY Shift DEF Takes, TypeOK
<1>4. ASSUME NEW u \in Threads, u # t PROVE ~Pends(stack'[u])
  BY <1>1, <1>4 DEF Takes, Keeps
<1>5. CASE Pends(stack'[t])
  <2>1. arrived' = Append(taken', Head(queue)) \o queue'
    BY <1>2, <1>3, <1>5 DEF Takes
  <2>2. Top(t)'.msg = Head(queue)
    BY <1>5 DEF Takes, Top
  <2>3. QED
    BY <1>4, <1>5, <2>1, <2>2 DEF OrderInv
<1>6. CASE ~Pends(stack'[t])
  <2>1. arrived' = taken' \o queue'
    BY <1>2, <1>3, <1>6 DEF Takes
  <2>2. QED
    BY <1>4, <1>6, <2>1 DEF OrderInv
<1>7. QED
  BY <1>5, <1>6

\* The message that was taken is dispatched.
LEMMA DispatchKeepsOrder ==
  ASSUME TypeOK, LockInv, OrderInv, NEW t \in Threads, Dispatches(t)
  PROVE  OrderInv'
<1>1. held[t] > 0
  <2>1. stack[t] # <<>>
    BY DEF Dispatches, Keeps
  <2>2. Top(t).at = "dispatch" /\ (Top(t).at \in Owners => held[t] > 0)
    BY <2>1, Running DEF Dispatches
  <2>3. QED
    BY <2>2 DEF Owners
<1>2. ASSUME NEW u \in Threads PROVE ~Pends(stack'[u])
  <2>1. CASE u = t
    BY <2>1 DEF Dispatches
  <2>2. CASE u # t
    BY <1>1, <2>2, PendsAlone DEF Dispatches, Keeps
  <2>3. QED
    BY <2>1, <2>2
<1>3. arrived' = taken' \o queue'
  BY DEF OrderInv, Dispatches
<1>4. QED
  BY <1>2, <1>3 DEF OrderInv

\* A message arrives behind all others.
LEMMA QueueKeepsOrder ==
  ASSUME TypeOK, LockInv, OrderInv, NEW t \in Threads, NEW m \in Msgs, Queues(t, m)
  PROVE  OrderInv'
<1>1. \A u \in Threads \ {t} : stack'[u] = stack[u]
  BY DEF Queues, Keeps
<1>2. taken \in Seq(Msgs) /\ queue \in Seq(Msgs)
  BY DEF TypeOK
<1>3. ASSUME NEW u \in Threads, Pends(stack'[u])
      PROVE  arrived' = Append(taken', Top(u)'.msg) \o queue'
  <2>1. u # t /\ stack'[u] = stack[u]
    BY <1>1, <1>3 DEF Queues
  <2>2. Pends(stack[u]) /\ Top(u)' = Top(u)
    BY <1>3, <2>1 DEF Top
  <2>3. stack[u] # <<>>
    BY <2>2 DEF Pends
  <2>4. Append(taken, Top(u).msg) \in Seq(Msgs)
    BY <1>2, <2>3, TopType, AppendProperties
  <2>5. Append(Append(taken, Top(u).msg) \o queue, m) = Append(taken, Top(u).msg) \o Append(queue, m)
    BY <1>2, <2>4, Extend, Zenon
  <2>6. QED
    BY <2>2, <2>5 DEF OrderInv, Queues
<1>4. ASSUME \A u \in Threads : ~Pends(stack'[u]) PROVE arrived' = taken' \o queue'
  <2>1. \A u \in Threads : ~Pends(stack[u])
    BY <1>1, <1>4 DEF Queues
  <2>2. Append(taken \o queue, m) = taken \o Append(queue, m)
    BY <1>2, Extend, Zenon
  <2>3. QED
    BY <2>1, <2>2 DEF OrderInv, Queues
<1>5. QED
  BY <1>3, <1>4 DEF OrderInv

\* start() of a transport that was started throws; otherwise the two workers begin.
LEMMA StartKeepsOrder ==
  ASSUME TypeOK, LockInv, OrderInv, NEW t \in Threads, Start(t)
  PROVE  Quiet(t) \/ (LockInv' /\ OrderInv')
<1>1. /\ stack[t] # <<>> /\ Top(t).at \in UserLabels /\ Top(t).todo # <<>>
      /\ UNCHANGED <<queue, arrived, taken>>
  BY DEF Start, Calls, hist
<1>2. /\ Begun(t) \in Seq(Frames) /\ Begun(t) # <<>>
      /\ Sound(t, Begun(t), held[t]) /\ held[t] \in Nat
      /\ ~Pends(stack[t]) /\ ~Pends(Begun(t))
  BY <1>1, Begins
<1>3. CASE Throw(t, Begun(t))
  BY <1>1, <1>2, <1>3, Throws DEF Quiet
<1>4. CASE status = "CREATED"
  <2>1. PICK p : p = Frame("p_top", NoMsg, <<>>, 0)
    OBVIOUS
  <2>2. PICK c : c = Frame("c_top", NoMsg, <<>>, 0)
    OBVIOUS
  <2>3. /\ stack' = [stack EXCEPT ![t] = Begun(t), ![Producer] = <<p>>, ![Consumer] = <<c>>]
        /\ UNCHANGED held /\ status' = "OPEN"
    BY <1>4, <2>1, <2>2 DEF Start
  <2>4. t \notin Workers /\ Producer # Consumer
    BY <1>1, <1>4 DEF LockInv, Producer, Consumer
  <2>5. /\ stack'[t] = Begun(t) /\ stack'[Producer] = <<p>> /\ stack'[Consumer] = <<c>>
        /\ \A u \in Threads \ {t, Producer, Consumer} : stack'[u] = stack[u]
    BY <2>3, <2>4 DEF TypeOK, Threads, Workers
  <2>6. /\ p.at = "p_top" /\ p.base = 0 /\ c.at = "c_top" /\ c.base = 0
    BY <2>1, <2>2 DEF Frame
  <2>7. ASSUME NEW w \in Workers, NEW f, f.at \in {"p_top", "c_top"}, f.base = 0
        PROVE  Sound(w, <<f>>, held[w]) /\ ~Pends(<<f>>)
    <3>1. PICK s : s = <<f>>
      OBVIOUS
    <3>2. Len(s) = 1 /\ s[1] = f /\ s # <<>>
      BY <3>1
    <3>3. held[w] \in Nat /\ w \notin Users
      BY UsersAssumption DEF TypeOK, Threads
    <3>4. f.at \notin Leaves /\ f.at \notin Owners /\ f.at # "dispatch"
      BY <2>7 DEF Leaves, Lockers, Owners
    <3>5. Disciplined(s, held[w])
      BY <2>7, <3>2, <3>3, <3>4 DEF Disciplined
    <3>6. QED
      BY <3>1, <3>2, <3>3, <3>4, <3>5 DEF Sound, Pends
  <2>8. ASSUME NEW u \in Threads
        PROVE  /\ Sound(u, stack'[u], held'[u])
               /\ Pends(stack'[u]) => stack'[u] = stack[u]
               /\ Pends(stack[u]) => stack'[u] = stack[u]
    <3>1. CASE u = t
      BY <1>2, <2>3, <2>5, <3>1
    <3>2. CASE u \in Workers
      <4>1. stack[u] = <<>> /\ ~Pends(stack[u])
        BY <1>4, <3>2 DEF LockInv, Pends
      <4>2. Sound(u, stack'[u], held[u]) /\ ~Pends(stack'[u])
        BY <2>5, <2>6, <2>7, <3>2 DEF Workers
      <4>3. QED
        BY <2>3, <4>1, <4>2
    <3>3. CASE u # t /\ u \notin Workers
      <4>1. stack'[u] = stack[u] /\ held'[u] = held[u]
        BY <2>3, <2>5, <3>3 DEF Workers
      <4>2. QED
        BY <4>1 DEF LockInv
    <3>4. QED
      BY <3>1, <3>2, <3>3
  <2>9. LockInv'
    BY <2>3, <2>8 DEF LockInv, Exclusive
  <2>10. ASSUME NEW u \in Threads, Pends(stack'[u])
         PROVE  arrived' = Append(taken', Top(u)'.msg) \o queue'
    <3>1. Pends(stack[u]) /\ Top(u)' = Top(u)
      BY <2>8, <2>10 DEF Top
    <3>2. QED
      BY <1>1, <3>1 DEF OrderInv
  <2>11. (\A u \in Threads : ~Pends(stack'[u])) => \A u \in Threads : ~Pends(stack[u])
    BY <2>8
  <2>12. OrderInv'
    BY <1>1, <2>10, <2>11 DEF OrderInv
  <2>13. QED
    BY <2>9, <2>12
<1>5. QED
  BY <1>3, <1>4 DEF Start

\* A step of a thread preserves the discipline and the order.
LEMMA StepKeepsOrder ==
  ASSUME TypeOK, TypeOK', LockInv, OrderInv, NEW t \in Threads, Step(t)
  PROVE  LockInv' /\ OrderInv'
<1>1. CASE Start(t)
  <2>1. CASE Quiet(t)
    <3>1. Keeps(t) /\ (status' = "CREATED" => status = "CREATED")
      BY <1>1, <2>1 DEF Quiet, Start
    <3>2. QED
      BY <2>1, <3>1, KeepsLockInv, QuietKeepsOrder
  <2>2. QED
    BY <1>1, <2>1, StartKeepsOrder
<1> DEFINE Later == status' = "CREATED" => status = "CREATED"
<1>2. CASE Quiet(t) /\ Later
  BY <1>2, KeepsLockInv, QuietKeepsOrder DEF Quiet
<1>3. CASE LockCount(t) \/ LockAcquire(t) \/ LockCounted(t) \/ StartCheck(t)
  <2>1. Later
    BY <1>3 DEF LockCount, LockAcquire, LockCounted, StartCheck
  <2>2. QED
    BY <1>2, <1>3, <2>1, LockIsQuiet
<1>4. CASE \/ SendFlush(t) \/ ShutdownFlush(t) \/ CloseStop(t)
           \/ FlushFails(t) \/ AwaitBlocks(t) \/ AckFlush(t)
  <2>1. Later
    BY <1>4 DEF SendFlush, ShutdownFlush, CloseStop, StopThreads, FlushFails, AwaitBlocks, AckFlush
  <2>2. QED
    BY <1>2, <1>4, <2>1, FlushIsQuiet
<1>5. CASE \/ SendDone(t) \/ RpcDone(t) \/ AwaitDone(t) \/ AckDone(t) \/ HandlerReturn(t)
           \/ SyncDone(t) \/ SetHandlers(t) \/ ShutdownMark(t) \/ CloseStream(t)
  <2>1. Later
    BY <1>5 DEF SendDone, RpcDone, AwaitDone, AckDone, StopThreads, HandlerReturn, SyncDone,
      SetHandlers, ShutdownMark, CloseStream
  <2>2. QED
    BY <1>2, <1>5, <2>1, EndIsQuiet
<1>6. CASE CallSend(t) \/ CallSync(t) \/ CallHandlers(t)
  <2>1. Later
    BY <1>6 DEF CallSend, CallSync, CallHandlers
  <2>2. QED
    BY <1>2, <1>6, <2>1, CallsAreQuiet
<1>7. CASE AwaitClosed(t) \/ CallAwait(t) \/ CallShutdown(t) \/ RpcFlush(t)
  <2>1. Later
    BY <1>7 DEF AwaitClosed, CallAwait, CallShutdown, RpcFlush
  <2>2. QED
    BY <1>2, <1>7, <2>1, AwaitClosedIsQuiet, CallAwaitIsQuiet, CallShutdownIsQuiet,
      RpcFlushIsQuiet
<1>8. CASE CallClose(t) \/ Join(t) \/ Destroy(t)
  <2>1. Later
    BY <1>8 DEF CallClose, Join, Destroy
  <2>2. QED
    BY <1>2, <1>8, <2>1, CloseIsQuiet
<1>9. CASE ProducerTop(t) \/ ProducerRead(t)
  <2>1. Later
    BY <1>9 DEF ProducerTop, ProducerRead
  <2>2. QED
    BY <1>2, <1>9, <2>1, ProducerIsQuiet
<1>10. CASE \/ ConsumerTop(t) \/ ConsumerLock(t) \/ ConsumerDefer(t) \/ ConsumerExit(t)
            \/ ConsumerWait(t) \/ ConsumerHandled(t)
  <2>1. Later
    BY <1>10 DEF ConsumerTop, ConsumerLock, ConsumerDefer, ConsumerExit, ConsumerWait,
      ConsumerHandled
  <2>2. QED
    BY <1>2, <1>10, <2>1, ConsumerIsQuiet
<1>11. CASE AwaitMatch(t) \/ AwaitOther(t) \/ HandleTake(t) \/ ConsumerTake(t)
  <2>1. Later
    BY <1>11 DEF AwaitMatch, AwaitOther, HandleTake, ConsumerTake
  <2>2. Takes(t) /\ Keeps(t)
    BY <1>11, TakesAreTakes DEF Takes
  <2>3. QED
    BY <2>1, <2>2, KeepsLockInv, TakeKeepsOrder
<1>12. CASE DispatchToHandler(t) \/ DispatchIgnored(t) \/ DispatchShutdown(t)
  <2>1. Later
    BY <1>12 DEF DispatchToHandler, DispatchIgnored, DispatchShutdown
  <2>2. Dispatches(t) /\ Keeps(t)
    BY <1>12, DispatchesAreDispatches DEF Dispatches
  <2>3. QED
    BY <2>1, <2>2, KeepsLockInv, DispatchKeepsOrder
<1>13. CASE ProducerPush(t)
  <2>1. Later /\ stack[t] # <<>>
    BY <1>13 DEF ProducerPush, At
  <2>2. Queues(t, Top(t).msg) /\ Keeps(t) /\ Top(t).msg \in Msgs
    BY <1>13, <2>1, ProducerPushQueues, TopType DEF Queues
  <2>3. QED
    BY <2>1, <2>2, KeepsLockInv, QueueKeepsOrder
<1>14. QED
  BY <1>1, <1>3, <1>4, <1>5, <1>6, <1>7, <1>8, <1>9, <1>10, <1>11, <1>12, <1>13, Zenon DEF Step

\* The discipline and the order hold when the program starts.
LEMMA InitiallyInOrder ==
  ASSUME Init
  PROVE  LockInv /\ OrderInv
<1>1. PICK scripts :
        stack = [t \in Threads |->
                   IF t \in Users THEN <<Frame("idle", NoMsg, scripts[t], 0)>> ELSE <<>>]
  BY DEF Init
<1>2. \A t \in Threads : held[t] = 0
  BY DEF Init
<1>3. ASSUME NEW t \in Threads PROVE Sound(t, stack[t], held[t]) /\ ~Pends(stack[t])
  <2>1. CASE t \in Users
    <3>1. PICK f : f = Frame("idle", NoMsg, scripts[t], 0)
      OBVIOUS
    <3>2. f.at = "idle" /\ f.base = 0
      BY <3>1 DEF Frame
    <3>3. stack[t] = <<f>>
      BY <1>1, <2>1, <3>1
    <3>4. Len(stack[t]) = 1 /\ stack[t][1] = f /\ stack[t] # <<>>
      BY <3>3
    <3>5. Disciplined(stack[t], held[t])
      BY <1>2, <3>2, <3>4 DEF Disciplined, Leaves, Lockers, Looping, Owners
    <3>6. QED
      BY <3>2, <3>4, <3>5 DEF Sound, Pends
  <2>2. CASE t \notin Users
    <3>1. stack[t] = <<>> /\ Len(<<>>) = 0 /\ 1 .. 0 = {}
      BY <1>1, <2>2
    <3>2. QED
      BY <2>2, <3>1 DEF Sound, Disciplined, Pends
  <2>3. QED
    BY <2>1, <2>2
<1>4. \A w \in Workers : stack[w] = <<>>
  BY <1>1, UsersAssumption DEF Threads
<1>5. Exclusive
  BY <1>2 DEF Exclusive
<1>6. arrived = taken \o queue
  BY DEF Init
<1>7. QED
  BY <1>3, <1>4, <1>5, <1>6 DEF LockInv, OrderInv

\* The discipline and the order are kept in every step.
LEMMA OrderIsInductive ==
  ASSUME TypeOK, TypeOK', LockInv, OrderInv, [Next]_vars
  PROVE  LockInv' /\ OrderInv'
<1>1. ASSUME NEW t \in Threads, Step(t) PROVE LockInv' /\ OrderInv'
  BY <1>1, StepKeepsOrder
<1>2. ASSUME UNCHANGED <<status, stack, held, queue, arrived, taken>>
      PROVE  LockInv' /\ OrderInv'
  <2>1. \A u \in Threads : Top(u)' = Top(u)
    BY <1>2 DEF Top
  <2>2. LockInv'
    BY <1>2 DEF LockInv, Exclusive
  <2>3. OrderInv'
    BY <1>2, <2>1 DEF OrderInv
  <2>4. QED
    BY <2>2, <2>3
<1>3. ASSUME NEW t \in Threads, SpuriousWakeup(t) PROVE LockInv' /\ OrderInv'
  BY <1>2, <1>3 DEF SpuriousWakeup, hist
<1>4. CASE Environment
  BY <1>2, <1>4 DEF Environment, PeerTake, PeerCall, PeerShutdown, ConnectionBreaks, hist
<1>5. CASE Finished \/ UNCHANGED vars
  BY <1>2, <1>5 DEF Finished, vars, hist
<1>6. QED
  BY <1>1, <1>3, <1>4, <1>5 DEF Next

\* The message mutex has one owner at a time, whatever the nesting of calls, handlers and
\* exceptions: every call gives it back to the depth at which it was made.
THEOREM MutexIsExclusive == Spec => []LockInv
<1>1. Init => LockInv /\ OrderInv
  BY InitiallyInOrder
<1>2. TypeOK /\ TypeOK' /\ LockInv /\ OrderInv /\ [Next]_vars => LockInv' /\ OrderInv'
  BY OrderIsInductive
<1>3. QED
  BY <1>1, <1>2, TypeCorrect, PTL DEF Spec

\* Messages reach handlers and callers in the order of their arrival, each at most once and
\* without gaps, although the consumer and any number of awaiting threads take them from the
\* queue and dispatch them after unlocking it; for any users, scripts and bounds.
THEOREM DispatchesInOrder == Spec => []DispatchedInOrder
<1>1. Init => LockInv /\ OrderInv
  BY InitiallyInOrder
<1>2. TypeOK /\ TypeOK' /\ LockInv /\ OrderInv /\ [Next]_vars => LockInv' /\ OrderInv'
  BY OrderIsInductive
<1>3. TypeOK /\ OrderInv => DispatchedInOrder
  <2> SUFFICES ASSUME TypeOK, OrderInv PROVE DispatchedInOrder
    OBVIOUS
  <2>1. taken \in Seq(Msgs) /\ queue \in Seq(Msgs)
    BY DEF TypeOK
  <2>2. ASSUME NEW a \in Seq(Msgs), Len(taken) <= Len(a), arrived = a \o queue,
               \A i \in 1 .. Len(taken) : a[i] = taken[i]
        PROVE  DispatchedInOrder
    <3>1. PICK c : c = a \o queue
      OBVIOUS
    <3>2. Len(c) = Len(a) + Len(queue) /\ Len(a) \in Nat /\ Len(queue) \in Nat /\ Len(taken) \in Nat
      BY <2>1, <3>1, ConcatProperties, LenProperties
    <3>3. \A i \in 1 .. Len(a) + Len(queue) : c[i] = IF i <= Len(a) THEN a[i] ELSE queue[i - Len(a)]
      BY <2>1, <3>1, ConcatProperties
    <3>4. QED
      BY <2>2, <3>1, <3>2, <3>3 DEF DispatchedInOrder
  <2>3. CASE \A t \in Threads : ~Pends(stack[t])
    <3>1. arrived = taken \o queue /\ Len(taken) <= Len(taken)
      BY <2>1, <2>3, LenProperties DEF OrderInv
    <3>2. QED
      BY <2>1, <2>2, <3>1
  <2>4. ASSUME NEW t \in Threads, Pends(stack[t]) PROVE DispatchedInOrder
    <3>1. stack[t] # <<>>
      BY <2>4 DEF Pends
    <3>2. Top(t).msg \in Msgs
      BY <3>1, TopType
    <3>3. PICK a : a = Append(taken, Top(t).msg)
      OBVIOUS
    <3>4. a \in Seq(Msgs) /\ Len(a) = Len(taken) + 1 /\ Len(taken) \in Nat
      BY <2>1, <3>2, <3>3, AppendProperties, LenProperties
    <3>5. \A i \in 1 .. Len(taken) : a[i] = taken[i]
      BY <2>1, <3>2, <3>3, AppendProperties
    <3>6. arrived = a \o queue
      BY <2>4, <3>3 DEF OrderInv
    <3>7. Len(taken) <= Len(a)
      BY <3>4
    <3>8. QED
      BY <2>2, <3>4, <3>5, <3>6, <3>7
  <2>5. QED
    BY <2>3, <2>4
<1>4. QED
  BY <1>1, <1>2, <1>3, TypeCorrect, PTL DEF Spec

=============================================================================
