------------------------------- MODULE MCRpc -------------------------------
(***************************************************************************)
(* Rpc with the tables of rpc.cpp and function_dispatch.cpp.  Every        *)
(* function of every extension is called on its own; a few functions are   *)
(* called one after the other, to a server that misses one of them.        *)
(***************************************************************************)
EXTENDS Rpc, RpcClient, RpcServer

\* The functions whose code the generator could write; stubs is ClientCalls.
Functions(stubs) ==
  {f \in DOMAIN stubs : \A fields \in {stubs[f].request, stubs[f].reply} : Compiles(fields)}

\* What the pointers of a call can be.  OpenXR lets most pointers be null; a structure
\* whose members are outputs, a fixed array and createInfo it does not.  Of the instances
\* it may name, xrDestroyInstance has the application's own or another.
CallsOf(f, row) ==
  LET asked == {row.request[i] : i \in DOMAIN row.request}
      told == {row.reply[i] : i \in DOMAIN row.reply}
      ptrs == {g \in asked \cup told : IsPointer(g)}
      names == {g.name : g \in ptrs}
      direct == {g.name : g \in asked}
      arrays == direct \ {g.name : g \in {h \in asked : IsPointer(h)}}
      inner == {g.name : g \in told} \ direct
      nullable == (IF inner = {} THEN names ELSE {g.name : g \in told}) \ ({"createInfo"} \cup arrays)
      counts == {g.count : g \in {h \in ptrs : h.count # One}}
      With(S, v) == [n \in names |-> IF n \in S THEN v ELSE "set"]
      shapes == {With({}, "set"), With(nullable, "null")}
                \cup {With({n}, "null") : n \in nullable}
                \cup {With({g.name : g \in {h \in ptrs : h.count = c}}, "empty") : c \in counts}
      chained == {i \in DOMAIN row.request : row.request[i].chain}
      instances == IF f = "xrDestroyInstance" THEN {"own", "other"} ELSE {"none"}
  IN [fn : {f}, stub : {row}, ptrs : shapes, unknown : {Nowhere}, instance : instances]
     \cup [fn : {f}, stub : {row}, ptrs : {With({}, "set")}, instance : instances,
            unknown : [side : {"client", "server"}, at : chained]]

Requests(stubs, F) == UNION {CallsOf(f, stubs[f]) : f \in F}

\* The handlers, and their ids, of a server that has the functions F.
HandlersOf(handlers, ids, F) ==
  LET built == {p \in ids : p[2] \in F} IN
  [id \in {p[1] : p \in built} |->
     LET fn == (CHOOSE p \in built : p[1] = id)[2] IN [fn |-> fn] @@ handlers[fn]]

\* Some functions of different kinds: with a time, with a counted array, with outputs in
\* a structure.  The last one is missing from the server's build or from its runtime.
Some == {"xrLocateSpace", "xrEnumerateViewConfigurations", "xrSubmitDebugUtilsMessageEXT"}
Absent == "xrStringToPath"
\* The life of an instance.
Life == {"xrCreateInstance", "xrDestroyInstance"}

\* F: the functions an application stubs, built: those its server has, unloaded: those
\* the server's runtime lacks, saved: the instance its server has.
Setting(F, max, built, unloaded, own) ==
  [F |-> F, max |-> max, built |-> built, unloaded |-> unloaded, saved |-> own]

\* Each function on its own, in a client and a server that have all of them; then several.
Settings(F) ==
  {Setting({f}, 1, {f}, {}, "own") : f \in F}
    \cup {Setting(Some \cup {Absent}, MaxCalls, Some, {}, "own"),
          Setting(Some \cup {Absent}, MaxCalls, Some \cup {Absent}, {Absent}, "own")}
    \cup {Setting(Life, MaxCalls, Life, {}, own) : own \in Saved}

AppsOf(stubs, handlers, ids) ==
  {[requests |-> Requests(stubs, s.F), max |-> s.max,
    handlers |-> HandlersOf(handlers, ids, s.built), unloaded |-> s.unloaded,
    saved |-> s.saved] : s \in Settings(Functions(stubs))}

RequestsOf(stubs) == Requests(stubs, Functions(stubs))

MCRequests == RequestsOf(ClientCalls)
MCApps == AppsOf(ClientCalls, ServerHandlers, AllHandlers)
=============================================================================
