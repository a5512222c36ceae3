-------------------------------- MODULE MCWire --------------------------------
EXTENDS Wire, FiniteSets

CONSTANTS LongBytes

\* A length of two bytes.
Long == [i \in 1 .. 128 |-> 7]

BytesSet == {Nil, <<>>, <<10>>} \cup (IF LongBytes THEN {Long} ELSE {})

RECURSIVE Some(_, _)

Values(f, depth) ==
  CASE f.kind = "uint64" -> {0, 128, 2^W64 - 1}
    [] f.kind = "uint32" -> {0, 128, 2^W32 - 1}
    [] f.kind = "int64" -> {0, 127, -1, -(2^(W64 - 1))}
    [] f.kind = "int32" -> {0, 1, -1, -(2^(W32 - 1))}
    [] f.kind = "bool" -> BOOLEAN
    [] f.kind = "bytes" -> BytesSet
    [] f.kind = "string" -> {<<>>, <<97>>}
    [] f.kind = "repeated bytes" -> {<<>>, <<<<>>, <<8>>>>, <<<<8, 1>>>>}
    [] f.kind \in {"embedded", "time"} -> Some(f.of, depth)
    [] f.kind = "pointer" -> {Nil} \cup Some(f.of, depth)
    [] f.kind = "repeated" -> {<<>>} \cup {<<New(f.of), m>> : m \in Some(f.of, depth)}

\* At the top every combination; within another message, one field at a time.
Some(t, depth) ==
  LET F == {Fields(t)[i] : i \in DOMAIN Fields(t)} IN
  IF t = "SnapshotItem" THEN
    {[Item |-> Nil]} \cup UNION {{[Item |-> [of |-> f.of, value |-> m]] : m \in Some(f.of, depth)} : f \in F}
  ELSE {New(t)} \cup UNION {{[New(t) EXCEPT ![f.name] = v] : v \in Values(f, depth + 1)} : f \in F}

RECURSIVE Products(_, _)
Products(fields, ms) ==
  IF fields = <<>> THEN ms
  ELSE Products(Tail(fields),
         UNION {{[m EXCEPT ![Head(fields).name] = v] : v \in Values(Head(fields), 0)} : m \in ms})

Sent(t) == IF t = "SnapshotItem" THEN Some(t, 0) ELSE Products(Fields(t), {New(t)})

\* Field 15 of each wire type; a group holds a field and a group.
Later == { <<120, 200, 1>>, <<121, 1, 2, 3, 4, 5, 6, 7, 8>>, <<122, 2, 8, 8>>,
           <<123, 8, 1, 19, 20, 124>>, <<125, 8, 8, 8, 8>> }
==============================================================================
