----------------------------- MODULE WireFields -----------------------------
(***************************************************************************)
(* The primitives of serializer.h and deserializer.h.  A field is one call *)
(* of a primitive; a call of serialize_ptr names the parameter that holds  *)
(* the length, unless that is 1.                                           *)
(*                                                                         *)
(* A message is the sequence of what the fields wrote: the bytes of a      *)
(* value, or a marker (a 32-bit length or an XrStructureType) and, unless  *)
(* it is 0, the bytes that the pointer refers to.  The bytes of a value    *)
(* are the name it has on the writing side, so that a reader that takes    *)
(* them for something else is seen to; a time also records by how many     *)
(* time_offsets it was shifted.                                            *)
(***************************************************************************)
EXTENDS Integers, Sequences

Field(op, n, c, ch) == [op |-> op, name |-> n, count |-> c, chain |-> ch]
One == "1"

\* serialize, deserialize of a plain value; serialize_time; serialize_array.
Val(n) == Field("val", n, One, FALSE)
Time(n) == Field("time", n, One, FALSE)
Arr(n) == Field("val", n, One, FALSE)
\* serialize_ptr of one element, of a counted array, of a string that ends in 0, and
\* deserialize_ptr.  Chain: the element is a structure with a next chain.
Ptr(n) == Field("ptr", n, One, FALSE)
PtrN(n, c) == Field("ptr", n, c, FALSE)
Str(n) == Field("ptr", n, One, FALSE)
Chain(n) == Field("ptr", n, One, TRUE)
ChainN(n, c) == Field("ptr", n, c, TRUE)
\* serialize_xr and serialize_xr_array.
Xr(n) == Field("xr", n, One, TRUE)
XrArr(n, c) == Field("xr_array", n, c, TRUE)
XrArrIn(n) == Field("xr_array", n, One, TRUE)
\* The generator emitted #error: a build with this extension does not compile.
NotGenerated(n) == Field("error", n, One, FALSE)

IsPointer(f) == f.op \in {"ptr", "xr", "xr_array"}
Compiles(fields) == \A i \in DOMAIN fields : fields[i].op # "error"

-----------------------------------------------------------------------------
(* Writing.                                                                *)

\* spare: a word follows that a reader of this field does not read.
Words(is, of, s, spare) == [is |-> is, of |-> of, shift |-> s, spare |-> spare]
Bytes(n, s) == Words("bytes", n, s, FALSE)
Marked(n) == Words("marked", n, 0, FALSE)
NullMarker == Words("null", "nullptr", 0, FALSE)

\* What field f writes, given what each pointer is ("set", "null", or "empty": not null
\* with a length of 0) and the context's time_offset in units of the client's offset.
Written(f, ptrs, offset) ==
  CASE f.op = "val" -> Bytes(f.name, 0)
    [] f.op = "time" -> Bytes(f.name, 0 - offset)
    [] IsPointer(f) /\ ptrs[f.name] = "set" -> Marked(f.name)
    [] f.op = "xr_array" /\ ptrs[f.name] = "empty" -> [NullMarker EXCEPT !.spare = TRUE]
    [] OTHER -> NullMarker

\* All of the fields.
Write(fields, ptrs, offset) == [i \in DOMAIN fields |-> Written(fields[i], ptrs, offset)]

\* The k-th field holds a structure that serializer_lookup does not know: the exception
\* leaves the message with what was written before, and k itself cut short.
WriteUntil(k, fields, ptrs, offset) == SubSeq(Write(fields, ptrs, offset), 1, k - 1)

-----------------------------------------------------------------------------
(* Reading.  A context that is not in place allocates what pointers refer  *)
(* to; one in place fills what the caller's pointers refer to and throws   *)
(* when the message and the caller disagree about nullptr.                 *)

\* The pointers of a context that is not in place.
NotInPlace == [n \in {} |-> "null"]

\* How the read of the i-th field ends: "eof" past the end of the message, "garbled" when
\* bytes are taken for a marker or the reverse, "mismatch" for the exceptions of an
\* in-place read.
Outcome(i, fields, msg, ptrs) ==
  LET f == fields[i]
      own == f.name \in DOMAIN ptrs
  IN CASE i > Len(msg) -> "eof"
       [] i > 1 /\ msg[i - 1].spare -> "garbled"
       [] IsPointer(f) # (msg[i].is # "bytes") -> "garbled"
       [] msg[i].is = "null" /\ own /\ ptrs[f.name] # "null" /\ f.op # "xr_array" -> "mismatch"
       [] msg[i].is = "marked" /\ own /\ ptrs[f.name] = "null" -> "mismatch"
       [] OTHER -> "ok"

\* The fields before the first one that cannot be read.
Readable(fields, msg, ptrs) ==
  {i \in DOMAIN fields : \A j \in 1..i : Outcome(j, fields, msg, ptrs) = "ok"}

\* st: how the read ends.  got: the values it has read.
Read(fields, msg, ptrs, offset) ==
  LET done == Readable(fields, msg, ptrs)
      Value(i) ==
        [name |-> fields[i].name, of |-> msg[i].of,
         shift |-> msg[i].shift + (IF fields[i].op = "time" THEN offset ELSE 0)]
  IN [st |-> IF done = DOMAIN fields THEN "ok"
             ELSE CHOOSE s \in {"eof", "garbled", "mismatch"} :
                    \E i \in DOMAIN fields \ done :
                      (i = 1 \/ i - 1 \in done) /\ Outcome(i, fields, msg, ptrs) = s,
      got |-> {Value(i) : i \in done}]
=============================================================================
