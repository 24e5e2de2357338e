----------------------------- MODULE MCTransport -----------------------------
(***************************************************************************)
(* Small instances of Transport: the scripts of the user threads and of    *)
(* the handlers that the runs choose from.                                 *)
(***************************************************************************)
EXTENDS Transport

CONSTANTS u1, u2

\* One thread of an application calls, then shuts the transport down.
Graceful == [u \in Users |->
  {<<"start", "rpc", "shutdown", "join">>, <<"start", "sync", "clear", "send", "shutdown", "destroy">>}]

\* The handler answers, or returns without an answer (it may have thrown).
ReplyOrNot == {<<"reply">>, <<>>}

\* Two threads share the transport while the peer may shut it down at any time.
Shared == [u \in Users |-> IF u = u1
  THEN {<<"start", "sync">>}
  ELSE {<<"rpc">>, <<"handle">>, <<"unregister", "register">>, <<"await">>}]

\* The handler answers and then shuts the transport down.
ReplyShutdown == {<<"reply">>, <<"reply", "shutdown">>}

\* The connection may break, and another thread may close the transport.
Failing == [u \in Users |-> IF u = u1
  THEN {<<"start", "rpc", "start", "destroy">>, <<"start", "handle", "close", "shutdown", "join">>}
  ELSE {<<"close">>, <<"await">>}]

\* A lone user shuts down, or sends one message, and waits for the end.
ShutdownOnly == [u \in Users |-> {<<"start", "shutdown", "join">>}]
SendOnly == [u \in Users |-> {<<"start", "send", "join">>}]
=============================================================================
