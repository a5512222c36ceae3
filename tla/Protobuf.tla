------------------------------- MODULE Protobuf -------------------------------
(***************************************************************************)
(* The generated protobuf code of the repository: *.pb.go under types,     *)
(* snapshots/types, internal/kv and streaming/abci.  The generated         *)
(* functions of a message are all of one form, field by field; here a      *)
(* message is the list of its fields, and that form is written once.       *)
(* Marshal, Size and Unmarshal of a message are its own operators, which   *)
(* those of the messages it holds call, as in the generated code.          *)
(*                                                                         *)
(* Integers are W64 bits wide where the code has 64, and W32 where it has  *)
(* 32.  Like 64, W64 is not a multiple of 7.                               *)
(***************************************************************************)
EXTENDS Integers, Sequences

CONSTANTS W64, W32, Nil

Signed(x, w) == LET y == x % 2^w IN IF y >= 2^(w - 1) THEN y - 2^w ELSE y

RECURSIVE Concat(_)
Concat(parts) == IF parts = <<>> THEN <<>> ELSE Head(parts) \o Concat(Tail(parts))

RECURSIVE Total(_)
Total(sizes) == IF sizes = <<>> THEN 0 ELSE Head(sizes) + Total(Tail(sizes))

------------------------------------------------------------------------------
(* The messages *)

Field(num, name, kind, of) == [num |-> num, name |-> name, kind |-> kind, of |-> of]

Snapshot == <<
  Field(1, "Height", "uint64", Nil), Field(2, "Format", "uint32", Nil), Field(3, "Chunks", "uint32", Nil),
  Field(4, "Hash", "bytes", Nil), Field(5, "Metadata", "embedded", "Metadata") >>

Metadata == << Field(1, "ChunkHashes", "repeated bytes", Nil) >>

\* The alternatives of a oneof are fields of one name.
SnapshotItem == <<
  Field(1, "Item", "oneof", "SnapshotStoreItem"), Field(2, "Item", "oneof", "SnapshotIAVLItem"),
  Field(3, "Item", "oneof", "SnapshotExtensionMeta"), Field(4, "Item", "oneof", "SnapshotExtensionPayload") >>

SnapshotStoreItem == << Field(1, "Name", "string", Nil) >>

SnapshotIAVLItem == <<
  Field(1, "Key", "bytes", Nil), Field(2, "Value", "bytes", Nil),
  Field(3, "Version", "int64", Nil), Field(4, "Height", "int32", Nil) >>

SnapshotExtensionMeta == << Field(1, "Name", "string", Nil), Field(2, "Format", "uint32", Nil) >>

SnapshotExtensionPayload == << Field(1, "Payload", "bytes", Nil) >>

CommitInfo == <<
  Field(1, "Version", "int64", Nil), Field(2, "StoreInfos", "repeated", "StoreInfo"),
  Field(3, "Timestamp", "time", "Timestamp") >>

StoreInfo == << Field(1, "Name", "string", Nil), Field(2, "CommitId", "embedded", "CommitID") >>

CommitID == << Field(1, "Version", "int64", Nil), Field(2, "Hash", "bytes", Nil) >>

StoreKVPair == <<
  Field(1, "StoreKey", "string", Nil), Field(2, "Delete", "bool", Nil),
  Field(3, "Key", "bytes", Nil), Field(4, "Value", "bytes", Nil) >>

BlockMetadata == <<
  Field(6, "ResponseCommit", "pointer", "ResponseCommit"),
  Field(7, "RequestFinalizeBlock", "pointer", "FinalizeBlock"),
  Field(8, "ResponseFinalizeBlock", "pointer", "FinalizeBlock") >>

Pairs == << Field(1, "Pairs", "repeated", "Pair") >>

Pair == << Field(1, "Key", "bytes", Nil), Field(2, "Value", "bytes", Nil) >>

ListenFinalizeBlockRequest == <<
  Field(1, "Req", "pointer", "FinalizeBlock"), Field(2, "Res", "pointer", "FinalizeBlock") >>

ListenCommitRequest == <<
  Field(1, "BlockHeight", "int64", Nil), Field(2, "Res", "pointer", "ResponseCommit"),
  Field(3, "ChangeSet", "repeated", "StoreKVPair") >>

ListenCommitResponse == <<>>

\* Messages of other repositories.  Of those of FinalizeBlock, one field.
Timestamp == << Field(1, "Seconds", "int64", Nil), Field(2, "Nanos", "int32", Nil) >>

ResponseCommit == << Field(3, "RetainHeight", "int64", Nil) >>

FinalizeBlock == << Field(4, "Hash", "bytes", Nil) >>

Fields(type) ==
  CASE type = "Snapshot" -> Snapshot [] type = "Metadata" -> Metadata
    [] type = "SnapshotItem" -> SnapshotItem [] type = "SnapshotStoreItem" -> SnapshotStoreItem
    [] type = "SnapshotIAVLItem" -> SnapshotIAVLItem
    [] type = "SnapshotExtensionMeta" -> SnapshotExtensionMeta
    [] type = "SnapshotExtensionPayload" -> SnapshotExtensionPayload
    [] type = "CommitInfo" -> CommitInfo [] type = "StoreInfo" -> StoreInfo [] type = "CommitID" -> CommitID
    [] type = "StoreKVPair" -> StoreKVPair [] type = "BlockMetadata" -> BlockMetadata
    [] type = "Pairs" -> Pairs [] type = "Pair" -> Pair
    [] type = "ListenFinalizeBlockRequest" -> ListenFinalizeBlockRequest
    [] type = "ListenCommitRequest" -> ListenCommitRequest
    [] type = "ListenCommitResponse" -> ListenCommitResponse
    [] type = "Timestamp" -> Timestamp [] type = "ResponseCommit" -> ResponseCommit
    [] type = "FinalizeBlock" -> FinalizeBlock

Integer(f) == f.kind \in {"uint64", "uint32", "int64", "int32"}

Varint(f) == Integer(f) \/ f.kind = "bool"

\* The zero value of a message.
RECURSIVE New(_)
New(type) ==
  [name \in {Fields(type)[i].name : i \in DOMAIN Fields(type)} |->
     LET f == CHOOSE f \in {Fields(type)[i] : i \in DOMAIN Fields(type)} : f.name = name IN
     CASE Integer(f) -> 0
       [] f.kind = "bool" -> FALSE
       [] f.kind \in {"string", "repeated", "repeated bytes"} -> <<>>
       [] f.kind \in {"bytes", "pointer", "oneof"} -> Nil
       [] f.kind \in {"embedded", "time"} -> New(f.of)]

------------------------------------------------------------------------------
(* Marshal and Size *)

Tag(f) == <<f.num * 8 + (IF Varint(f) THEN 0 ELSE 2)>>

RECURSIVE EncodeVarint(_)
EncodeVarint(v) == IF v >= 128 THEN <<(v % 128) + 128>> \o EncodeVarint(v \div 128) ELSE <<v>>

\* bits.Len64(x | 1)
BitLen(x) == CHOOSE n \in 1 .. W64 : 2^(n - 1) <= x /\ x < 2^n

\* Seven bits take two bytes.
SovRoundedUp(x) == (BitLen(IF x = 0 THEN 1 ELSE x) + 7) \div 7

Sov(x) == (BitLen(IF x = 0 THEN 1 ELSE x) + 6) \div 7

Uint64(v) == v % 2^W64

Delimited(bytes) == EncodeVarint(Len(bytes)) \o bytes

RECURSIVE MarshalOf(_, _)

\* What is written of a field: one string of bytes for an element.
Parts(f, m) ==
  LET v == m[f.name] IN
  CASE Integer(f) -> IF v = 0 THEN <<>> ELSE << Tag(f) \o EncodeVarint(Uint64(v)) >>
    [] f.kind = "bool" -> IF v THEN << Tag(f) \o <<1>> >> ELSE <<>>
    [] f.kind \in {"bytes", "string"} -> IF v \in {Nil, <<>>} THEN <<>> ELSE << Tag(f) \o Delimited(v) >>
    [] f.kind \in {"embedded", "time"} -> << Tag(f) \o Delimited(MarshalOf(f.of, v)) >>
    [] f.kind = "pointer" -> IF v = Nil THEN <<>> ELSE << Tag(f) \o Delimited(MarshalOf(f.of, v)) >>
    [] f.kind = "oneof" ->
         IF v = Nil THEN <<>>
         ELSE IF v.of # f.of THEN <<>> ELSE << Tag(f) \o Delimited(MarshalOf(f.of, v.value)) >>
    [] f.kind = "repeated bytes" -> [i \in DOMAIN v |-> Tag(f) \o Delimited(v[i])]
    [] f.kind = "repeated" -> [i \in DOMAIN v |-> Tag(f) \o Delimited(MarshalOf(f.of, v[i]))]

MessageParts(fields, m) == Concat([i \in DOMAIN fields |-> Parts(fields[i], m)])

MarshalFields(fields, m) == Concat(MessageParts(fields, m))

SizeDelimited(l) == 1 + l + Sov(l)

RECURSIVE SizeOf(_, _)

SizeField(f, m) ==
  LET v == m[f.name] IN
  CASE Integer(f) -> IF v = 0 THEN 0 ELSE 1 + Sov(Uint64(v))
    [] f.kind = "bool" -> IF v THEN 2 ELSE 0
    [] f.kind \in {"bytes", "string"} -> IF v \in {Nil, <<>>} THEN 0 ELSE SizeDelimited(Len(v))
    [] f.kind \in {"embedded", "time"} -> SizeDelimited(SizeOf(f.of, v))
    [] f.kind = "pointer" -> IF v = Nil THEN 0 ELSE SizeDelimited(SizeOf(f.of, v))
    [] f.kind = "oneof" ->
         IF v = Nil THEN 0 ELSE IF v.of # f.of THEN 0 ELSE SizeDelimited(SizeOf(f.of, v.value))
    [] f.kind = "repeated bytes" -> Total([i \in DOMAIN v |-> SizeDelimited(Len(v[i]))])
    [] f.kind = "repeated" -> Total([i \in DOMAIN v |-> SizeDelimited(SizeOf(f.of, v[i]))])

SizeFields(fields, m) == Total([i \in DOMAIN fields |-> SizeField(fields[i], m)])

MarshalSnapshot(m) == MarshalFields(Snapshot, m)
MarshalMetadata(m) == MarshalFields(Metadata, m)
MarshalSnapshotItem(m) == MarshalFields(SnapshotItem, m)
MarshalSnapshotStoreItem(m) == MarshalFields(SnapshotStoreItem, m)
MarshalSnapshotIAVLItem(m) == MarshalFields(SnapshotIAVLItem, m)
MarshalSnapshotExtensionMeta(m) == MarshalFields(SnapshotExtensionMeta, m)
MarshalSnapshotExtensionPayload(m) == MarshalFields(SnapshotExtensionPayload, m)
MarshalCommitInfo(m) == MarshalFields(CommitInfo, m)
MarshalStoreInfo(m) == MarshalFields(StoreInfo, m)
MarshalCommitID(m) == MarshalFields(CommitID, m)
MarshalStoreKVPair(m) == MarshalFields(StoreKVPair, m)
MarshalBlockMetadata(m) == MarshalFields(BlockMetadata, m)
MarshalPairs(m) == MarshalFields(Pairs, m)
MarshalPair(m) == MarshalFields(Pair, m)
MarshalListenFinalizeBlockRequest(m) == MarshalFields(ListenFinalizeBlockRequest, m)
MarshalListenCommitRequest(m) == MarshalFields(ListenCommitRequest, m)
MarshalListenCommitResponse(m) == MarshalFields(ListenCommitResponse, m)

SizeSnapshot(m) == SizeFields(Snapshot, m)
SizeMetadata(m) == SizeFields(Metadata, m)
SizeSnapshotItem(m) == SizeFields(SnapshotItem, m)
SizeSnapshotStoreItem(m) == SizeFields(SnapshotStoreItem, m)
SizeSnapshotIAVLItem(m) == SizeFields(SnapshotIAVLItem, m)
SizeSnapshotExtensionMeta(m) == SizeFields(SnapshotExtensionMeta, m)
SizeSnapshotExtensionPayload(m) == SizeFields(SnapshotExtensionPayload, m)
SizeCommitInfo(m) == SizeFields(CommitInfo, m)
SizeStoreInfo(m) == SizeFields(StoreInfo, m)
SizeCommitID(m) == SizeFields(CommitID, m)
SizeStoreKVPair(m) == SizeFields(StoreKVPair, m)
SizeBlockMetadata(m) == SizeFields(BlockMetadata, m)
SizePairs(m) == SizeFields(Pairs, m)
SizePair(m) == SizeFields(Pair, m)
SizeListenFinalizeBlockRequest(m) == SizeFields(ListenFinalizeBlockRequest, m)
SizeListenCommitRequest(m) == SizeFields(ListenCommitRequest, m)
SizeListenCommitResponse(m) == SizeFields(ListenCommitResponse, m)

MarshalOf(type, m) ==
  CASE type = "Snapshot" -> MarshalSnapshot(m)
    [] type = "Metadata" -> MarshalMetadata(m)
    [] type = "SnapshotItem" -> MarshalSnapshotItem(m)
    [] type = "SnapshotStoreItem" -> MarshalSnapshotStoreItem(m)
    [] type = "SnapshotIAVLItem" -> MarshalSnapshotIAVLItem(m)
    [] type = "SnapshotExtensionMeta" -> MarshalSnapshotExtensionMeta(m)
    [] type = "SnapshotExtensionPayload" -> MarshalSnapshotExtensionPayload(m)
    [] type = "CommitInfo" -> MarshalCommitInfo(m)
    [] type = "StoreInfo" -> MarshalStoreInfo(m)
    [] type = "CommitID" -> MarshalCommitID(m)
    [] type = "StoreKVPair" -> MarshalStoreKVPair(m)
    [] type = "BlockMetadata" -> MarshalBlockMetadata(m)
    [] type = "Pairs" -> MarshalPairs(m)
    [] type = "Pair" -> MarshalPair(m)
    [] type = "ListenFinalizeBlockRequest" -> MarshalListenFinalizeBlockRequest(m)
    [] type = "ListenCommitRequest" -> MarshalListenCommitRequest(m)
    [] type = "ListenCommitResponse" -> MarshalListenCommitResponse(m)
    [] OTHER -> MarshalFields(Fields(type), m)

SizeOf(type, m) ==
  CASE type = "Snapshot" -> SizeSnapshot(m)
    [] type = "Metadata" -> SizeMetadata(m)
    [] type = "SnapshotItem" -> SizeSnapshotItem(m)
    [] type = "SnapshotStoreItem" -> SizeSnapshotStoreItem(m)
    [] type = "SnapshotIAVLItem" -> SizeSnapshotIAVLItem(m)
    [] type = "SnapshotExtensionMeta" -> SizeSnapshotExtensionMeta(m)
    [] type = "SnapshotExtensionPayload" -> SizeSnapshotExtensionPayload(m)
    [] type = "CommitInfo" -> SizeCommitInfo(m)
    [] type = "StoreInfo" -> SizeStoreInfo(m)
    [] type = "CommitID" -> SizeCommitID(m)
    [] type = "StoreKVPair" -> SizeStoreKVPair(m)
    [] type = "BlockMetadata" -> SizeBlockMetadata(m)
    [] type = "Pairs" -> SizePairs(m)
    [] type = "Pair" -> SizePair(m)
    [] type = "ListenFinalizeBlockRequest" -> SizeListenFinalizeBlockRequest(m)
    [] type = "ListenCommitRequest" -> SizeListenCommitRequest(m)
    [] type = "ListenCommitResponse" -> SizeListenCommitResponse(m)
    [] OTHER -> SizeFields(Fields(type), m)

------------------------------------------------------------------------------
(* Unmarshal: an index counts the bytes read *)

Failed(error) == [err |-> error, v |-> 0, at |-> 0]

\* The groups of a varint are added up; those past the width are lost.
RECURSIVE VarintFrom(_, _, _, _)
VarintFrom(b, i, shift, v) ==
  IF shift >= W64 THEN Failed("overflow")
  ELSE IF i >= Len(b) THEN Failed("EOF")
  ELSE LET sum == Uint64(v + (b[i + 1] % 128) * 2^shift) IN
       IF b[i + 1] < 128 THEN [err |-> "", v |-> sum, at |-> i + 1]
       ELSE VarintFrom(b, i + 1, shift + 7, sum)

ReadVarint(b, i) == VarintFrom(b, i, 0, 0)

\* A length that the rest of the bytes can be shorter than.
ReadLengthOnly(b, i) ==
  LET l == ReadVarint(b, i) IN
  IF l.err # "" THEN l ELSE [l EXCEPT !.v = IF @ + l.at > Len(b) THEN Len(b) ELSE @ + l.at]

\* The length of a field, and the index after it, v.
ReadLength(b, i) ==
  LET l == ReadVarint(b, i)  length == Signed(l.v, W64)  post == Signed(l.at + length, W64) IN
  IF l.err # "" THEN l
  ELSE IF length < 0 \/ post < 0 THEN Failed("length")
  ELSE IF post > Len(b) THEN Failed("EOF")
  ELSE [l EXCEPT !.v = post]

\* skipX from index i: the index after the field, a group with all it holds.
RECURSIVE SkipFrom(_, _, _)
SkipFrom(b, i, depth) ==
  LET wire == ReadVarint(b, i)
      wireType == wire.v % 8
      value == ReadVarint(b, wire.at)
      end == CASE wireType = 0 -> value.at
               [] wireType = 1 -> wire.at + 8
               [] wireType = 2 -> value.at + Signed(value.v, W64)
               [] wireType = 5 -> wire.at + 4
               [] OTHER -> wire.at
      deeper == depth + (IF wireType = 3 THEN 1 ELSE IF wireType = 4 THEN -1 ELSE 0)
  IN
  IF i >= Len(b) THEN Failed("EOF")
  ELSE IF wire.err # "" THEN wire
  ELSE IF wireType \in {0, 2} /\ value.err # "" THEN value
  ELSE IF wireType = 2 /\ Signed(value.v, W64) < 0 THEN Failed("length")
  ELSE IF wireType \in {6, 7} THEN Failed("wire type")
  ELSE IF deeper < 0 THEN Failed("group")
  ELSE IF Signed(end, W64) < 0 THEN Failed("length")
  ELSE IF deeper = 0 THEN [err |-> "", v |-> 0, at |-> end]
  ELSE SkipFrom(b, end, deeper)

\* Groups are not known.
SkipFlat(b, i) == IF ReadVarint(b, i).v % 8 = 3 THEN Failed("wire type") ELSE SkipFrom(b, i, 0)

\* The number of bytes that were skipped is taken for the index.
SkipRelative(b, i) == LET s == SkipFrom(b, i, 0) IN [s EXCEPT !.at = @ - i]

Skip(b, i) ==
  LET s == SkipFrom(b, i, 0) IN IF s.err = "" /\ s.at > Len(b) THEN Failed("EOF") ELSE s

\* An int32 that keeps no sign.
ConvertedUnsigned(f, v) ==
  CASE f.kind = "int64" -> Signed(v, W64)
    [] f.kind = "bool" -> v # 0
    [] OTHER -> v % 2^(IF f.kind = "uint64" THEN W64 ELSE W32)

\* What a varint is in a field.
Converted(f, v) ==
  CASE f.kind = "uint64" -> v
    [] f.kind = "uint32" -> v % 2^W32
    [] f.kind = "int64" -> Signed(v, W64)
    [] f.kind = "int32" -> Signed(v, W32)
    [] f.kind = "bool" -> v # 0

RECURSIVE UnmarshalOf(_, _, _)

\* A message that was read for a field.
AssignedMessage(f, old, sub) ==
  CASE f.kind \in {"embedded", "time", "pointer"} -> sub
    [] f.kind = "oneof" -> [sub EXCEPT !.m = [of |-> f.of, value |-> @]]
    [] f.kind = "repeated" -> [sub EXCEPT !.m = Append(old, @)]

\* A field that is delimited: the values it had stay part of an embedded
\* message and of one behind a pointer.
Assigned(f, old, bytes) ==
  CASE f.kind \in {"bytes", "string"} -> [err |-> "", m |-> bytes]
    [] f.kind = "repeated bytes" -> [err |-> "", m |-> Append(old, bytes)]
    [] OTHER ->
         AssignedMessage(f, old, UnmarshalOf(f.of, bytes,
           IF f.kind \in {"embedded", "pointer"} /\ old # Nil THEN old ELSE New(f.of)))

Result(err, m, at) == [err |-> err, m |-> m, at |-> at]

ReadNumber(f, i, m, number) ==
  IF number.err # "" THEN Result(number.err, m, i)
  ELSE Result("", [m EXCEPT ![f.name] = Converted(f, number.v)], number.at)

ReadBytes(f, m, assigned, post) == Result(assigned.err, [m EXCEPT ![f.name] = assigned.m], post)

ReadDelimited(f, b, i, m, length) ==
  IF length.err # "" THEN Result(length.err, m, i)
  ELSE ReadBytes(f, m, Assigned(f, m[f.name], SubSeq(b, length.at + 1, length.v)), length.v)

ReadKnown(f, b, i, m, wire) ==
  IF wire.v % 8 # Tag(f)[1] % 8 THEN Result("wire type", m, i)
  ELSE IF Varint(f) THEN ReadNumber(f, i, m, ReadVarint(b, wire.at))
  ELSE ReadDelimited(f, b, i, m, ReadLength(b, wire.at))

ReadUnknown(m, skipped) == Result(skipped.err, m, skipped.at)

ReadTagged(fields, b, i, m, wire) ==
  LET fieldNum == Signed(wire.v \div 8, W32)
      known == {k \in DOMAIN fields : fields[k].num = fieldNum}
  IN
  IF wire.err # "" THEN Result(wire.err, m, i)
  ELSE IF wire.v % 8 = 4 THEN Result("group", m, i)
  ELSE IF fieldNum <= 0 THEN Result("tag", m, i)
  ELSE IF known = {} THEN ReadUnknown(m, Skip(b, i))
  ELSE ReadKnown(fields[CHOOSE k \in known : TRUE], b, i, m, wire)

\* One round of the loop of Unmarshal: the message, and the index after it.
ReadField(fields, b, i, m) == ReadTagged(fields, b, i, m, ReadVarint(b, i))

\* The loop, after a round with result r.
RECURSIVE UnmarshalFrom(_, _, _)
UnmarshalFrom(fields, b, r) ==
  IF r.err # "" \/ r.at >= Len(b) THEN [err |-> r.err, m |-> r.m]
  ELSE UnmarshalFrom(fields, b, ReadField(fields, b, r.at, r.m))

UnmarshalFields(fields, b, m) == UnmarshalFrom(fields, b, Result("", m, 0))

UnmarshalSnapshot(b, m) == UnmarshalFields(Snapshot, b, m)
UnmarshalMetadata(b, m) == UnmarshalFields(Metadata, b, m)
UnmarshalSnapshotItem(b, m) == UnmarshalFields(SnapshotItem, b, m)
UnmarshalSnapshotStoreItem(b, m) == UnmarshalFields(SnapshotStoreItem, b, m)
UnmarshalSnapshotIAVLItem(b, m) == UnmarshalFields(SnapshotIAVLItem, b, m)
UnmarshalSnapshotExtensionMeta(b, m) == UnmarshalFields(SnapshotExtensionMeta, b, m)
UnmarshalSnapshotExtensionPayload(b, m) == UnmarshalFields(SnapshotExtensionPayload, b, m)
UnmarshalCommitInfo(b, m) == UnmarshalFields(CommitInfo, b, m)
UnmarshalStoreInfo(b, m) == UnmarshalFields(StoreInfo, b, m)
UnmarshalCommitID(b, m) == UnmarshalFields(CommitID, b, m)
UnmarshalStoreKVPair(b, m) == UnmarshalFields(StoreKVPair, b, m)
UnmarshalBlockMetadata(b, m) == UnmarshalFields(BlockMetadata, b, m)
UnmarshalPairs(b, m) == UnmarshalFields(Pairs, b, m)
UnmarshalPair(b, m) == UnmarshalFields(Pair, b, m)
UnmarshalListenFinalizeBlockRequest(b, m) == UnmarshalFields(ListenFinalizeBlockRequest, b, m)
UnmarshalListenCommitRequest(b, m) == UnmarshalFields(ListenCommitRequest, b, m)
UnmarshalListenCommitResponse(b, m) == UnmarshalFields(ListenCommitResponse, b, m)

UnmarshalOf(type, b, m) ==
  CASE type = "Snapshot" -> UnmarshalSnapshot(b, m)
    [] type = "Metadata" -> UnmarshalMetadata(b, m)
    [] type = "SnapshotItem" -> UnmarshalSnapshotItem(b, m)
    [] type = "SnapshotStoreItem" -> UnmarshalSnapshotStoreItem(b, m)
    [] type = "SnapshotIAVLItem" -> UnmarshalSnapshotIAVLItem(b, m)
    [] type = "SnapshotExtensionMeta" -> UnmarshalSnapshotExtensionMeta(b, m)
    [] type = "SnapshotExtensionPayload" -> UnmarshalSnapshotExtensionPayload(b, m)
    [] type = "CommitInfo" -> UnmarshalCommitInfo(b, m)
    [] type = "StoreInfo" -> UnmarshalStoreInfo(b, m)
    [] type = "CommitID" -> UnmarshalCommitID(b, m)
    [] type = "StoreKVPair" -> UnmarshalStoreKVPair(b, m)
    [] type = "BlockMetadata" -> UnmarshalBlockMetadata(b, m)
    [] type = "Pairs" -> UnmarshalPairs(b, m)
    [] type = "Pair" -> UnmarshalPair(b, m)
    [] type = "ListenFinalizeBlockRequest" -> UnmarshalListenFinalizeBlockRequest(b, m)
    [] type = "ListenCommitRequest" -> UnmarshalListenCommitRequest(b, m)
    [] type = "ListenCommitResponse" -> UnmarshalListenCommitResponse(b, m)
    [] OTHER -> UnmarshalFields(Fields(type), b, m)
==============================================================================
