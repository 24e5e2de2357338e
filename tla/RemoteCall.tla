----------------------------- MODULE RemoteCall -----------------------------
(***************************************************************************)
(* What a remote OpenXR call promises: one call at a time; the runtime is  *)
(* called at most once for it and with the caller's arguments; a result is *)
(* the runtime's for the call that returns it; a call that the server      *)
(* itself refuses, because of the instance it names, has not reached the   *)
(* runtime and never will; a call that fails may or may not have reached   *)
(* it, and may still reach it later.                                       *)
(***************************************************************************)
EXTENDS Integers, Sequences

CONSTANTS
  Requests,      \* what can be called: a function and its arguments
  Seen(_),       \* what the runtime sees of a request
  Checked(_)     \* does it name an instance that the server compares with its own?

VARIABLES
  calls,         \* the requests, in the order in which they were made
  state,         \* "open", "result", "refused" or "failed", for each of them
  runs,          \* how often the runtime was called, for each of them
  seen           \* what the runtime saw, for each of them

vars == <<calls, state, runs, seen>>

NotSeen == {}

Init == calls = <<>> /\ state = <<>> /\ runs = <<>> /\ seen = <<>>

\* A call is made, or fails before anything happens.
Invoke(s) ==
  /\ \A c \in DOMAIN state : state[c] # "open"
  /\ Len(calls') = Len(calls) + 1
  /\ calls'[Len(calls) + 1] \in Requests
  /\ calls' = Append(calls, calls'[Len(calls) + 1])
  /\ state' = Append(state, s)
  /\ runs' = Append(runs, 0)
  /\ seen' = Append(seen, NotSeen)

\* The runtime is called for c.
Run(c) ==
  /\ runs[c] = 0 /\ state[c] \notin {"result", "refused"}
  /\ runs' = [runs EXCEPT ![c] = 1]
  /\ seen' = [seen EXCEPT ![c] = Seen(calls[c])]
  /\ UNCHANGED <<calls, state>>

Return(c) ==
  /\ state[c] = "open" /\ runs[c] = 1
  /\ state' = [state EXCEPT ![c] = "result"]
  /\ UNCHANGED <<calls, runs, seen>>

\* The server answers in the runtime's place.
Refuse(c) ==
  /\ state[c] = "open" /\ runs[c] = 0 /\ Checked(calls[c])
  /\ state' = [state EXCEPT ![c] = "refused"]
  /\ UNCHANGED <<calls, runs, seen>>

Fail(c) ==
  /\ state[c] = "open"
  /\ state' = [state EXCEPT ![c] = "failed"]
  /\ UNCHANGED <<calls, runs, seen>>

Next ==
  \/ \E s \in {"open", "failed"} : Invoke(s)
  \/ \E c \in DOMAIN calls : Run(c) \/ Return(c) \/ Refuse(c) \/ Fail(c)

Spec == Init /\ [][Next]_vars
=============================================================================
