--------------------------------- MODULE Wire ---------------------------------
(***************************************************************************)
(* A message on its way: it is marshalled, the bytes may lose their end or *)
(* hold fields of a later version of the message, and they are             *)
(* unmarshalled field by field into a new message, as proto.Unmarshal and  *)
(* the callers in the repository do.                                       *)
(***************************************************************************)
EXTENDS Protobuf

CONSTANTS
  Types,
  Messages(_),      \* the messages of a type
  Unknown           \* fields of later versions, marshalled

VARIABLES
  type, sent,
  wire,     \* bytes
  whole,    \* nothing was lost, or it was lost between two fields
  state,    \* "marshal", "sent", "read", or how Unmarshal ended
  at, got   \* of Unmarshal: the index and the message

vars == <<type, sent, wire, whole, state, at, got>>

Init ==
  /\ type \in Types /\ sent \in Messages(type)
  /\ wire = <<>> /\ whole = TRUE /\ state = "marshal"
  /\ at = 0 /\ got = New(type)

\* Marshal: MarshalToSizedBuffer fills a buffer of Size bytes from its end,
\* and panics when it does not fit.
Marshal ==
  LET bytes == MarshalOf(type, sent) IN
  /\ state = "marshal"
  /\ IF Len(bytes) > SizeOf(type, sent)
     THEN state' = "panic" /\ UNCHANGED wire
     ELSE state' = "sent" /\ wire' = bytes
  /\ UNCHANGED <<type, sent, whole, at, got>>

SentParts == MessageParts(Fields(type), sent)

\* A later version of the message has a field more, after the first k parts.
Newer ==
  /\ state = "sent"
  /\ \E k \in 0 .. Len(SentParts), u \in Unknown :
       wire' = Concat(SubSeq(SentParts, 1, k)) \o u \o Concat(SubSeq(SentParts, k + 1, Len(SentParts)))
  /\ state' = "read"
  /\ UNCHANGED <<type, sent, whole, at, got>>

\* The end is lost.
Cut ==
  /\ state = "sent"
  /\ \E n \in 0 .. Len(wire) - 1 :
       /\ wire' = SubSeq(wire, 1, n)
       /\ whole' = \E k \in 0 .. Len(SentParts) : n = Len(Concat(SubSeq(SentParts, 1, k)))
  /\ state' = "read"
  /\ UNCHANGED <<type, sent, at, got>>

Arrive == state = "sent" /\ state' = "read" /\ UNCHANGED <<type, sent, wire, whole, at, got>>

\* The loop of Unmarshal.
Loop ==
  LET r == ReadField(Fields(type), wire, at, got) IN
  /\ state = "read" /\ at < Len(wire)
  /\ got' = r.m
  /\ IF r.err # "" THEN state' = r.err /\ UNCHANGED at ELSE at' = r.at /\ UNCHANGED state
  /\ UNCHANGED <<type, sent, wire, whole>>

Return ==
  /\ state = "read" /\ at >= Len(wire)
  /\ state' = IF at > Len(wire) THEN "EOF" ELSE "ok"
  /\ UNCHANGED <<type, sent, wire, whole, at, got>>

Next == Marshal \/ Newer \/ Cut \/ Arrive \/ Loop \/ Return

Spec == Init /\ [][Next]_vars

------------------------------------------------------------------------------
(* The nodes of a snapshot *)

\* Snapshot writes a node with its key, and with a value only when it is a leaf.
Exported == type = "SnapshotIAVLItem" /\ sent.Key # Nil /\ (sent.Height = 0) = (sent.Value # Nil)

\* Without the reset of a value that was empty.
ImportedAsRead == [got EXCEPT !.Key = IF @ = Nil THEN <<>> ELSE @]

\* Restore makes a node of an item.
Imported ==
  [got EXCEPT !.Key = IF @ = Nil THEN <<>> ELSE @,
              !.Value = IF @ = Nil /\ got.Height = 0 THEN <<>> ELSE @]

------------------------------------------------------------------------------
(* Properties *)

\* What can be told apart on the wire: an empty string of bytes is none.
RECURSIVE Normal(_, _)
Normal(t, m) ==
  LET FieldOf(name) == CHOOSE f \in {Fields(t)[i] : i \in DOMAIN Fields(t)} : f.name = name IN
  [name \in DOMAIN m |->
     LET f == FieldOf(name)  v == m[name] IN
     CASE f.kind = "bytes" -> IF v = <<>> THEN Nil ELSE v
       [] f.kind = "embedded" -> Normal(f.of, v)
       [] f.kind = "pointer" -> IF v = Nil THEN Nil ELSE Normal(f.of, v)
       [] f.kind = "oneof" -> IF v = Nil THEN Nil ELSE [v EXCEPT !.value = Normal(v.of, @)]
       [] f.kind = "repeated" -> [i \in DOMAIN v |-> Normal(f.of, v[i])]
       [] OTHER -> v]

\* Size is what Marshal writes: a message that is sent fills the buffer that
\* Marshal made for it, and the length before it is its own.
SizeIsExact == state = "sent" => Len(wire) = SizeOf(type, sent)

\* Whatever a later version put between the fields, Unmarshal returns the
\* message that was marshalled: no field of it is lost, cut to fewer bits, or
\* taken for another.
ReadsWhatWasSent ==
  state = "ok" /\ Len(wire) >= Len(MarshalOf(type, sent)) => got = Normal(type, sent)

\* Of bytes that nothing was lost of, or that end between two fields,
\* Unmarshal makes a message.
NoSpuriousError == whole => state \in {"marshal", "sent", "read", "ok"}

\* Bytes that end within a field are an error, never a message with a part of
\* the value.
CutIsCaught == ~whole => state # "ok"

\* "Protobuf does not differentiate between []byte{} as nil, but fortunately
\* IAVL does not allow nil keys nor nil values for leaf nodes, so we can always
\* set them to empty": a node is restored as it was exported.
NodesAreRestored == state = "ok" /\ Exported /\ Len(wire) >= Len(MarshalOf(type, sent)) => Imported = sent

\* Every round of Unmarshal takes it further, and never past the end: it ends,
\* and reads no byte that is not there.
UnmarshalAdvances == [][state = "read" /\ state' = "read" => at' > at /\ at' <= Len(wire)]_vars
==============================================================================
