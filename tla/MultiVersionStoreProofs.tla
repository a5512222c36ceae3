----------------------- MODULE MultiVersionStoreProofs -----------------------
(* Proofs about multiversion.Store, for every set of keys and values, every  *)
(* number of transactions and every set of registered keys.                  *)
EXTENDS VersionIndexedStore, WellFoundedInduction, NaturalsInduction, TLAPS

\* The type of items.
Items == [Keys -> [Item -> [Tx -> Version \cup {None}]]]

\* items once Remove or Put has written v for index i in item it of key k.
WriteSlot(k, it, i, v) == [items EXCEPT ![k][it][i] = v]

\* Remove and Put change the version of one index in one
\* item of one key.
LEMMA PutSlot ==
  ASSUME items \in Items, NEW k \in Keys, NEW it \in Item, NEW i \in Tx,
         NEW v \in Version \cup {None}
  PROVE  /\ WriteSlot(k, it, i, v) \in Items
         /\ \A k2 \in Keys, it2 \in Item, i2 \in Tx :
              WriteSlot(k, it, i, v)[k2][it2][i2] =
                IF k2 = k /\ it2 = it /\ i2 = i THEN v ELSE items[k2][it2][i2]
<1> DEFINE slots == [items[k][it] EXCEPT ![i] = v]
           row == [items[k] EXCEPT ![it] = slots]
<1>1. /\ items[k] \in [Item -> [Tx -> Version \cup {None}]]
      /\ items[k][it] \in [Tx -> Version \cup {None}]
  BY Zenon DEF Items
<1>2. /\ slots \in [Tx -> Version \cup {None}]
      /\ \A i2 \in Tx : slots[i2] = IF i2 = i THEN v ELSE items[k][it][i2]
  BY <1>1, Zenon
<1>3. /\ row \in [Item -> [Tx -> Version \cup {None}]]
      /\ \A it2 \in Item : row[it2] = IF it2 = it THEN slots ELSE items[k][it2]
  BY <1>1, <1>2, Zenon
<1>4. WriteSlot(k, it, i, v) = [items EXCEPT ![k] = row]
  BY Zenon DEF WriteSlot
<1>5. /\ WriteSlot(k, it, i, v) \in Items
      /\ \A k2 \in Keys : WriteSlot(k, it, i, v)[k2] = IF k2 = k THEN row ELSE items[k2]
  BY <1>3, <1>4, Zenon DEF Items
<1> QED
  BY <1>2, <1>3, <1>5, Zenon

\* Create empties one item of one key and leaves every other slot.
LEMMA NewItem ==
  ASSUME items \in Items, NEW k \in Keys, NEW it \in Item,
         items' = [items EXCEPT ![k][it] = EmptyItem]
  PROVE  /\ items' \in Items
         /\ \A k2 \in Keys, it2 \in Item, i2 \in Tx :
              items'[k2][it2][i2] =
                IF k2 = k /\ it2 = it THEN None ELSE items[k2][it2][i2]
<1>1. EmptyItem \in [Tx -> Version \cup {None}] /\ \A i2 \in Tx : EmptyItem[i2] = None
  BY Zenon DEF EmptyItem
<1>2. items' = [items EXCEPT ![k] = [items[k] EXCEPT ![it] = EmptyItem]]
  BY Zenon
<1>3. [items[k] EXCEPT ![it] = EmptyItem] \in [Item -> [Tx -> Version \cup {None}]]
  <2>1. items[k] \in [Item -> [Tx -> Version \cup {None}]]
    BY Zenon DEF Items
  <2> QED
    BY <1>1, <2>1, Zenon
<1>4. items' \in Items
  BY <1>2, <1>3, Zenon DEF Items
<1>5. ASSUME NEW k2 \in Keys, NEW it2 \in Item, NEW i2 \in Tx
      PROVE  items'[k2][it2][i2] =
               IF k2 = k /\ it2 = it THEN None ELSE items[k2][it2][i2]
  <2>1. CASE k2 = k
    BY <1>1, <1>2, <2>1, Zenon DEF Items
  <2>2. CASE k2 # k
    BY <1>2, <2>2, Zenon DEF Items
  <2> QED
    BY <2>1, <2>2, Zenon
<1> QED
  BY <1>4, <1>5, Zenon

\* What the proofs use of the sets the constants make up.
LEMMA Sentinels ==
  /\ None \notin Item /\ None \notin Version /\ None \notin Keys
  /\ Root \in Item /\ Tx \subseteq Item /\ Root \notin Tx
  /\ Values \subseteq Version /\ Nil \in Version /\ Estimate \in Version
  /\ Registered \subseteq Keys
BY ConstantsAssumption, Zenon DEF Item, Version

\* The key and the item a call holds are real ones when it uses them.
LEMMA Cursor ==
  ASSUME TypeOK, NEW i \in Tx
  PROVE  /\ pc[i] = "create" => cur[i] \in Keys
         /\ pc[i] = "put" => cur[i] \in Keys /\ ref[i] \in Item
<1>1. cur[i] \in Keys \cup {None} /\ ref[i] \in Item \cup {None}
  BY Zenon DEF TypeOK
<1>2. /\ pc[i] \in {"create", "put"} => cur[i] # None
      /\ pc[i] = "put" => ref[i] # None
  BY Zenon DEF TypeOK
<1> QED
  BY <1>1, <1>2, Zenon

\* The store is well typed at first.
LEMMA TypeInit == Init => TypeOK
BY Sentinels DEF Init, EmptyItem, EmptyWriteset, TypeOK

\* Every step of every call keeps the store and the calls well typed.
LEMMA TypeStep == TypeOK /\ [Next]_vars => TypeOK'
<1> USE Sentinels DEF TypeOK
<1> SUFFICES ASSUME TypeOK, [Next]_vars PROVE TypeOK'
  BY Zenon
<1>1. ASSUME NEW i \in Tx, NEW w \in [Keys -> Values \cup {Nil, None}], SetWriteset(i, w)
      PROVE  TypeOK'
  BY <1>1 DEF SetWriteset, Begin, OldKeys, WrittenKeys
<1>2. ASSUME NEW i \in Tx, NEW K \in SUBSET Keys, SetEstimatedWriteset(i, K)
      PROVE  TypeOK'
  BY <1>2, Zenon DEF SetEstimatedWriteset, Begin, OldKeys, WrittenKeys
<1>3. ASSUME NEW i \in Tx, InvalidateWriteset(i) PROVE TypeOK'
  BY <1>3, Zenon DEF InvalidateWriteset, storeVars
<1>4. ASSUME NEW i \in Tx, NEW k \in Keys, Remove(i, k) PROVE TypeOK'
  <2>1. items' \in [Keys -> [Item -> [Tx -> Version \cup {None}]]]
    <3>1. CASE multiVersionMap[k] = None
      BY <1>4, <3>1, Zenon DEF Remove
    <3>2. CASE multiVersionMap[k] # None
      <4>1. items' = WriteSlot(k, multiVersionMap[k], i, None)
        BY <1>4, <3>2, Zenon DEF Remove, WriteSlot
      <4> QED
        BY <3>2, <4>1, PutSlot DEF Items
    <3> QED
      BY <3>1, <3>2, Zenon
  <2> QED
    BY <1>4, <2>1, Zenon DEF Remove
<1>5. ASSUME NEW i \in Tx, RemoveDone(i) PROVE TypeOK'
  BY <1>5, Zenon DEF RemoveDone, storeVars, WrittenKeys
<1>6. ASSUME NEW i \in Tx, NEW k \in Keys, Load(i, k) PROVE TypeOK'
  <2>1. i \in Item /\ k # None /\ i # None
    BY Sentinels, Zenon
  <2>2. multiVersionMap' \in [Keys -> Item \cup {None}]
    <3>1. \/ multiVersionMap' = multiVersionMap
          \/ multiVersionMap' = [multiVersionMap EXCEPT ![k] = i]
      BY <1>6, Zenon DEF Load
    <3> DEFINE R == Item \cup {None}
    <3>2. i \in R /\ multiVersionMap \in [Keys -> R]
      BY <2>1, Zenon
    <3> HIDE DEF R, TypeOK
    <3>3. multiVersionMap' \in [Keys -> R]
      BY <3>1, <3>2, Zenon
    <3> QED
      BY <3>3, Zenon DEF R
  <2>3. ref' \in [Tx -> Item \cup {None}]
    <3>1. \/ ref' = ref
          \/ ref' = [ref EXCEPT ![i] = multiVersionMap[k]]
          \/ ref' = [ref EXCEPT ![i] = i]
      BY <1>6, Zenon DEF Load
    <3>2. multiVersionMap[k] \in Item \cup {None}
      BY Zenon
    <3>3. PICK x \in Item \cup {None} : ref' = ref \/ ref' = [ref EXCEPT ![i] = x]
      <4>1. CASE ref' = ref
        BY <4>1, <3>2, Zenon
      <4>2. CASE ref' = [ref EXCEPT ![i] = multiVersionMap[k]]
        BY <4>2, <3>2, Zenon
      <4>3. CASE ref' = [ref EXCEPT ![i] = i]
        <5>1. i \in Item \cup {None}
          BY <2>1, Zenon
        <5> QED
          BY <4>3, <5>1, Zenon
      <4> QED
        BY <3>1, <4>1, <4>2, <4>3, Zenon
    <3> DEFINE R == Item \cup {None}
    <3>4. x \in R /\ ref \in [Tx -> R]
      BY Zenon
    <3> HIDE DEF R, TypeOK
    <3>5. ref' \in [Tx -> R]
      BY <3>3, <3>4, Zenon
    <3> QED
      BY <3>5, Zenon DEF R
  <2>4. pc' \in [Tx -> {"idle", "remove", "write", "create", "put"}]
    <3>1. pc' = [pc EXCEPT ![i] = "put"] \/ pc' = [pc EXCEPT ![i] = "create"]
      BY <1>6, Zenon DEF Load
    <3> QED
      BY <3>1, Zenon
  <2>5. \A j \in Tx : j # i => cur'[j] = cur[j] /\ pc'[j] = pc[j] /\ ref'[j] = ref[j]
    BY <1>6, Zenon DEF Load
  <2>6. cur'[i] # None /\ (pc'[i] = "put" => ref'[i] # None)
    <3>1. cur'[i] = k
      BY <1>6, Zenon DEF Load
    <3>2. pc'[i] = "put" => (ref'[i] = multiVersionMap[k] /\ ref'[i] # None) \/ ref'[i] = i
      BY <1>6, Zenon DEF Load
    <3> QED
      BY <2>1, <3>1, <3>2, Zenon
  <2>7. \A j \in Tx : /\ pc'[j] \in {"create", "put"} => cur'[j] # None
                      /\ pc'[j] = "put" => ref'[j] # None
    BY <2>5, <2>6, Zenon
  <2> QED
    BY <1>6, <2>2, <2>3, <2>4, <2>7, Zenon DEF Load
<1>7. ASSUME NEW i \in Tx, Create(i) PROVE TypeOK'
  <2>1. cur[i] \in Keys
    BY <1>7, Cursor, Zenon DEF Create
  <2>2. items' \in [Keys -> [Item -> [Tx -> Version \cup {None}]]]
    BY <1>7, <2>1, NewItem, Zenon DEF Create, Items
  <2> QED
    BY <1>7, <2>2, Zenon DEF Create
<1>8. ASSUME NEW i \in Tx, Put(i) PROVE TypeOK'
  <2>1. cur[i] \in Keys /\ ref[i] \in Item
    BY <1>8, Cursor, Zenon DEF Put
  <2>2. writeset[i][cur[i]] \in Version \cup {None}
    BY <2>1
  <2>3. items' \in [Keys -> [Item -> [Tx -> Version \cup {None}]]]
    <3>1. items' = WriteSlot(cur[i], ref[i], i, writeset[i][cur[i]])
      BY <1>8, Zenon DEF Put, WriteSlot
    <3> QED
      BY <2>1, <2>2, <3>1, PutSlot, Zenon DEF Items
  <2> QED
    BY <1>8, <2>3, Zenon DEF Put
<1>9. ASSUME NEW i \in Tx, Publish(i) PROVE TypeOK'
  BY <1>9, Zenon DEF Publish, WrittenKeys
<1>10. CASE UNCHANGED vars
  BY <1>10, Zenon DEF vars, storeVars, callVars
<1> QED
  BY <1>1, <1>2, <1>3, <1>4, <1>5, <1>6, <1>7, <1>8, <1>9, <1>10, Zenon
     DEF Next, Enter, Proceed

\* The store and the calls are well typed.
THEOREM TypeCorrect == Spec => []TypeOK
BY TypeInit, TypeStep, PTL DEF Spec

------------------------------------------------------------------------------

\* An action for i leaves what PublishInv says of every other index.
LEMMA OtherIndex ==
  ASSUME NEW j \in Tx, CallInv(j), ShownInv(j),
         pc'[j] = pc[j], op'[j] = op[j], writeset'[j] = writeset[j],
         todo'[j] = todo[j], cur'[j] = cur[j], ref'[j] = ref[j],
         txWritesetKeys'[j] = txWritesetKeys[j],
         \A k \in Registered : items'[k][Root][j] = items[k][Root][j]
  PROVE  CallInv(j)' /\ ShownInv(j)'
BY DEF CallInv, ShownInv, WrittenKeys

\* What Remove changes of the versions of registered keys.
LEMMA RemoveSlots ==
  ASSUME TypeOK, PublishInv, NEW i \in Tx, NEW k \in Keys, Remove(i, k)
  PROVE  \A k2 \in Registered, j \in Tx :
           items'[k2][Root][j] = IF k2 = k /\ j = i THEN None ELSE items[k2][Root][j]
<1>a. \A k2 \in Registered : multiVersionMap[k2] = Root
  BY Zenon DEF PublishInv
<1>1. CASE multiVersionMap[k] = None
  BY <1>a, <1>1, Sentinels, Zenon DEF Remove
<1>2. CASE multiVersionMap[k] # None
  <2>1. multiVersionMap[k] \in Item /\ None \in Version \cup {None} /\ items \in Items
    BY <1>2, Zenon DEF TypeOK, Items
  <2>2. items' = WriteSlot(k, multiVersionMap[k], i, None)
    BY <1>2, Zenon DEF Remove, WriteSlot
  <2>3. \A k2 \in Keys, it2 \in Item, j \in Tx :
          items'[k2][it2][j] = IF k2 = k /\ it2 = multiVersionMap[k] /\ j = i
                               THEN None ELSE items[k2][it2][j]
    BY <2>1, <2>2, PutSlot
  <2>4. Root \in Item /\ Registered \subseteq Keys
    BY Sentinels, Zenon
  <2>5. ASSUME NEW k2 \in Registered, NEW j \in Tx
        PROVE  items'[k2][Root][j] = IF k2 = k /\ j = i THEN None ELSE items[k2][Root][j]
    <3>1. items'[k2][Root][j] = IF k2 = k /\ Root = multiVersionMap[k] /\ j = i
                                THEN None ELSE items[k2][Root][j]
      BY <2>3, <2>4, Zenon
    <3> QED
      BY <1>a, <3>1, Zenon
  <2> QED
    BY <2>5, Zenon
<1> QED
  BY <1>1, <1>2, Zenon

\* Create changes no version of a registered key: those have an item.
LEMMA CreateSlots ==
  ASSUME TypeOK, PublishInv, NEW i \in Tx, Create(i)
  PROVE  \A k \in Registered, j \in Tx : items'[k][Root][j] = items[k][Root][j]
<1>1. cur[i] \in Keys /\ cur[i] \notin Registered
  BY Cursor, Zenon DEF Create, PublishInv, CallInv
<1>2. items \in Items /\ items' = [items EXCEPT ![cur[i]][i] = EmptyItem] /\ i \in Item
  BY Sentinels, Zenon DEF TypeOK, Items, Create
<1>3. \A k2 \in Keys, it2 \in Item, i2 \in Tx :
        items'[k2][it2][i2] =
          IF k2 = cur[i] /\ it2 = i THEN None ELSE items[k2][it2][i2]
  BY <1>1, <1>2, NewItem, Zenon
<1> QED
  BY <1>1, <1>3, Sentinels

\* What Put changes of the versions of registered keys: the item it holds for
\* one is the one the map holds.
LEMMA PutSlots ==
  ASSUME TypeOK, PublishInv, NEW i \in Tx, Put(i)
  PROVE  \A k \in Registered, j \in Tx :
           items'[k][Root][j] = IF k = cur[i] /\ j = i THEN writeset[i][k]
                                ELSE items[k][Root][j]
<1>a. cur[i] \in Keys /\ ref[i] \in Item
  BY Cursor, Zenon DEF Put
<1>1. /\ items \in Items /\ writeset[i][cur[i]] \in Version \cup {None}
      /\ items' = WriteSlot(cur[i], ref[i], i, writeset[i][cur[i]])
  BY <1>a DEF TypeOK, Items, Put, WriteSlot
<1>2. \A k \in Keys, it \in Item, j \in Tx :
        items'[k][it][j] = IF k = cur[i] /\ it = ref[i] /\ j = i
                           THEN writeset[i][cur[i]] ELSE items[k][it][j]
  BY <1>a, <1>1, PutSlot
<1>3. cur[i] \in Registered => ref[i] = Root
  BY Zenon DEF CallInv, PublishInv, Put
<1>4. Root \in Item /\ Registered \subseteq Keys
  BY Sentinels, Zenon
<1>5. ASSUME NEW k \in Registered, NEW j \in Tx
      PROVE  items'[k][Root][j] = IF k = cur[i] /\ j = i THEN writeset[i][k]
                                  ELSE items[k][Root][j]
  <2>1. items'[k][Root][j] = IF k = cur[i] /\ Root = ref[i] /\ j = i
                             THEN writeset[i][cur[i]] ELSE items[k][Root][j]
    BY <1>2, <1>4, Zenon
  <2> QED
    BY <1>3, <2>1, Zenon
<1> QED
  BY <1>5, Zenon

\* Every step keeps PublishInv.
LEMMA PublishStep == TypeOK /\ PublishInv /\ [Next]_vars => PublishInv'
<1> SUFFICES ASSUME TypeOK, PublishInv, [Next]_vars PROVE PublishInv'
  BY Zenon
<1>a. /\ \A k \in Registered : multiVersionMap[k] = Root
      /\ \A j \in Tx : CallInv(j) /\ ShownInv(j)
  BY Zenon DEF PublishInv
<1>1. ASSUME NEW i \in Tx, NEW o \in {"set", "estimate"},
             NEW w \in [Keys -> Version \cup {None}], Begin(i, o, w)
      PROVE  PublishInv'
  <2>1. CallInv(i) /\ ShownInv(i)
    BY <1>a, Zenon
  <2>2. ASSUME NEW j \in Tx, j # i PROVE CallInv(j)' /\ ShownInv(j)'
    BY <1>1, <1>a, <2>2, OtherIndex, Zenon DEF TypeOK, Begin
  <2>3. /\ pc'[i] = "remove" /\ op'[i] = o /\ writeset'[i] = w
        /\ todo'[i] = OldKeys(i, w) /\ txWritesetKeys'[i] = {} /\ items' = items
    BY <1>1, Zenon DEF TypeOK, Begin
  <2>4. CallInv(i)'
    BY <2>3, Zenon DEF CallInv, OldKeys, WrittenKeys
  <2>5. ShownInv(i)'
    <3>1. txWritesetKeys[i] = WrittenKeys(writeset[i]) /\ todo[i] = {} /\ pc[i] # "remove"
      BY <1>1, <2>1, Zenon DEF CallInv, ShownInv, Begin
    <3>2. ASSUME NEW k \in Registered, items[k][Root][i] # None, w[k] = None
          PROVE  k \in OldKeys(i, w)
      BY <2>1, <3>1, <3>2, Sentinels, Zenon DEF ShownInv, OldKeys, WrittenKeys
    <3> QED
      BY <2>3, <3>2, Zenon DEF ShownInv
  <2> QED
    BY <1>1, <1>a, <2>2, <2>4, <2>5, Zenon DEF PublishInv, Begin
<1>2. ASSUME NEW i \in Tx, InvalidateWriteset(i) PROVE PublishInv'
  <2>1. CallInv(i) /\ ShownInv(i)
    BY <1>a, Zenon
  <2>2. ASSUME NEW j \in Tx, j # i PROVE CallInv(j)' /\ ShownInv(j)'
    BY <1>2, <1>a, <2>2, OtherIndex, Zenon DEF TypeOK, InvalidateWriteset, storeVars
  <2>3. /\ pc'[i] = "write" /\ op'[i] = "invalidate"
        /\ writeset'[i] = [k \in Keys |-> IF k \in txWritesetKeys[i] THEN Estimate ELSE None]
        /\ todo'[i] = txWritesetKeys[i] /\ UNCHANGED storeVars
    BY <1>2, Zenon DEF TypeOK, InvalidateWriteset
  <2>4. Estimate # None /\ WrittenKeys(writeset'[i]) = txWritesetKeys[i]
    BY <2>3, Sentinels, Zenon DEF WrittenKeys, TypeOK
  <2>5. CallInv(i)'
    BY <2>3, <2>4, Zenon DEF CallInv, WrittenKeys
  <2>6. ShownInv(i)'
    <3>1. txWritesetKeys[i] = WrittenKeys(writeset[i]) /\ todo[i] = {} /\ pc[i] # "remove"
      BY <1>2, <2>1, Zenon DEF CallInv, ShownInv, InvalidateWriteset
    <3>2. ASSUME NEW k \in Registered, k \notin txWritesetKeys[i]
          PROVE  items[k][Root][i] = None /\ writeset'[i][k] = None
      <4>1. k \in Keys
        BY Sentinels, Zenon
      <4>2. writeset[i][k] = None
        BY <3>1, <3>2, <4>1, Zenon DEF WrittenKeys
      <4>3. items[k][Root][i] = writeset[i][k]
        BY <2>1, <3>1, Zenon DEF ShownInv
      <4>4. writeset'[i][k] = None
        BY <2>3, <3>2, <4>1, Zenon
      <4> QED
        BY <4>2, <4>3, <4>4, Zenon
    <3> QED
      BY <2>3, <2>4, <3>2, Zenon DEF ShownInv, storeVars, WrittenKeys
  <2> QED
    BY <1>2, <1>a, <2>2, <2>5, <2>6, Zenon DEF PublishInv, InvalidateWriteset, storeVars
<1>3. ASSUME NEW i \in Tx, NEW k \in Keys, Remove(i, k) PROVE PublishInv'
  <2>1. CallInv(i) /\ ShownInv(i)
    BY <1>a, Zenon
  <2>2. /\ pc[i] = "remove" /\ k \in todo[i]
        /\ todo'[i] = todo[i] \ {k}
        /\ UNCHANGED <<multiVersionMap, txWritesetKeys, pc, op, writeset, cur, ref>>
    BY <1>3, Zenon DEF TypeOK, Remove
  <2>3. \A k2 \in Registered, j \in Tx :
          items'[k2][Root][j] = IF k2 = k /\ j = i THEN None ELSE items[k2][Root][j]
    BY <1>3, RemoveSlots, Zenon
  <2>4. ASSUME NEW j \in Tx, j # i PROVE CallInv(j)' /\ ShownInv(j)'
    <3>1. \A k2 \in Registered : items'[k2][Root][j] = items[k2][Root][j]
      BY <2>3, <2>4, Zenon
    <3>2. todo'[j] = todo[j]
      BY <1>3, <2>4, Zenon DEF Remove, TypeOK
    <3> QED
      BY <1>a, <2>2, <3>1, <3>2, OtherIndex, Zenon
  <2>5. CallInv(i)'
    BY <2>1, <2>2, Zenon DEF CallInv, WrittenKeys
  <2>6. ShownInv(i)'
    <3>1. ASSUME NEW k2 \in Registered, items'[k2][Root][i] # None
          PROVE  k2 \in todo'[i] \/ writeset'[i][k2] # None
      BY <2>1, <2>2, <2>3, <3>1, Zenon DEF ShownInv
    <3> QED
      BY <2>1, <2>2, <3>1, Zenon DEF ShownInv, WrittenKeys
  <2> QED
    BY <1>a, <2>2, <2>4, <2>5, <2>6, Zenon DEF PublishInv
<1>4. ASSUME NEW i \in Tx, RemoveDone(i) PROVE PublishInv'
  <2>1. CallInv(i) /\ ShownInv(i)
    BY <1>a, Zenon
  <2>2. ASSUME NEW j \in Tx, j # i PROVE CallInv(j)' /\ ShownInv(j)'
    BY <1>4, <1>a, <2>2, OtherIndex, Zenon DEF TypeOK, RemoveDone, storeVars
  <2>3. /\ pc[i] = "remove" /\ todo[i] = {}
        /\ pc'[i] = "write" /\ todo'[i] = WrittenKeys(writeset[i])
        /\ UNCHANGED <<storeVars, op, writeset, cur, ref>>
    BY <1>4, Zenon DEF TypeOK, RemoveDone
  <2>4. CallInv(i)'
    BY <2>1, <2>3, Zenon DEF CallInv, WrittenKeys
  <2>5. ShownInv(i)'
    BY <2>1, <2>3, Sentinels, Zenon DEF CallInv, ShownInv, WrittenKeys, storeVars
  <2> QED
    BY <1>a, <2>2, <2>3, <2>4, <2>5, Zenon DEF PublishInv, storeVars
<1>5. ASSUME NEW i \in Tx, NEW k \in Keys, Load(i, k) PROVE PublishInv'
  <2>1. CallInv(i) /\ ShownInv(i)
    BY <1>a, Zenon
  <2>2. /\ pc[i] = "write" /\ k \in todo[i] /\ cur' = [cur EXCEPT ![i] = k]
        /\ UNCHANGED <<items, txWritesetKeys, op, writeset, todo>>
    BY <1>5, Zenon DEF Load
  <2>3. ASSUME NEW j \in Tx, j # i PROVE CallInv(j)' /\ ShownInv(j)'
    <3>1. pc'[j] = pc[j] /\ cur'[j] = cur[j] /\ ref'[j] = ref[j]
      BY <1>5, <2>3, Zenon DEF TypeOK, Load
    <3> QED
      BY <1>a, <2>2, <3>1, OtherIndex, Zenon
  <2>4. cur'[i] = k /\ pc'[i] \in {"create", "put"}
    BY <1>5, Zenon DEF TypeOK, Load
  <2>5. k \in Registered => multiVersionMap[k] = Root /\ Root # None
    BY <1>a, Sentinels, Zenon
  <2>6. k \in Registered => pc'[i] = "put" /\ ref'[i] = Root
    BY <1>5, <2>5, Zenon DEF TypeOK, Load
  <2>7. CallInv(i)'
    BY <2>1, <2>2, <2>4, <2>6, Zenon DEF CallInv, WrittenKeys
  <2>8. ShownInv(i)'
    BY <2>1, <2>2, <2>4, Zenon DEF ShownInv, WrittenKeys
  <2>9. \A k2 \in Registered : multiVersionMap'[k2] = Root
    <3>1. CASE k \in Registered
      BY <1>5, <1>a, <2>5, <3>1, Zenon DEF Load
    <3>2. CASE k \notin Registered
      BY <1>5, <1>a, <3>2, Sentinels, Zenon DEF Load, TypeOK
    <3> QED
      BY <3>1, <3>2, Zenon
  <2> QED
    BY <2>3, <2>7, <2>8, <2>9, Zenon DEF PublishInv
<1>6. ASSUME NEW i \in Tx, Create(i) PROVE PublishInv'
  <2>1. CallInv(i) /\ ShownInv(i)
    BY <1>a, Zenon
  <2>2. /\ pc[i] = "create" /\ cur[i] \in Keys /\ cur[i] \notin Registered
        /\ pc'[i] = "put" /\ ref'[i] = i
        /\ UNCHANGED <<txWritesetKeys, op, writeset, todo, cur>>
    BY <1>6, <2>1, Cursor, Zenon DEF TypeOK, Create, CallInv
  <2>3. \A k \in Registered, j \in Tx : items'[k][Root][j] = items[k][Root][j]
    BY <1>6, CreateSlots, Zenon
  <2>4. ASSUME NEW j \in Tx, j # i PROVE CallInv(j)' /\ ShownInv(j)'
    <3>1. pc'[j] = pc[j] /\ ref'[j] = ref[j]
      BY <1>6, <2>4, Zenon DEF TypeOK, Create
    <3> QED
      BY <1>a, <2>2, <2>3, <3>1, OtherIndex, Zenon
  <2>5. CallInv(i)'
    BY <2>1, <2>2, Zenon DEF CallInv, WrittenKeys
  <2>6. ShownInv(i)'
    BY <2>1, <2>2, <2>3, Zenon DEF ShownInv, WrittenKeys
  <2>7. \A k \in Registered : multiVersionMap'[k] = Root
    BY <1>6, <1>a, <2>2, Sentinels, Zenon DEF Create, TypeOK
  <2> QED
    BY <2>4, <2>5, <2>6, <2>7, Zenon DEF PublishInv
<1>7. ASSUME NEW i \in Tx, Put(i) PROVE PublishInv'
  <2>1. CallInv(i) /\ ShownInv(i)
    BY <1>a, Zenon
  <2>2. /\ pc[i] = "put" /\ cur[i] \in Keys /\ ref[i] \in Item
        /\ pc'[i] = "write" /\ todo'[i] = todo[i] \ {cur[i]}
        /\ UNCHANGED <<multiVersionMap, txWritesetKeys, op, writeset>>
    BY <1>7, Cursor, Zenon DEF TypeOK, Put
  <2>3. \A k \in Registered, j \in Tx :
          items'[k][Root][j] = IF k = cur[i] /\ j = i THEN writeset[i][k]
                               ELSE items[k][Root][j]
    BY <1>7, PutSlots, Zenon
  <2>4. ASSUME NEW j \in Tx, j # i PROVE CallInv(j)' /\ ShownInv(j)'
    <3>1. pc'[j] = pc[j] /\ todo'[j] = todo[j] /\ cur'[j] = cur[j] /\ ref'[j] = ref[j]
      BY <1>7, <2>4, Zenon DEF TypeOK, Put
    <3> QED
      BY <1>a, <2>2, <2>3, <2>4, <3>1, OtherIndex, Zenon
  <2>5. CallInv(i)'
    BY <2>1, <2>2, Zenon DEF CallInv, WrittenKeys
  <2>6. ShownInv(i)'
    BY <2>1, <2>2, <2>3, Zenon DEF ShownInv, WrittenKeys
  <2> QED
    BY <1>a, <2>2, <2>4, <2>5, <2>6, Zenon DEF PublishInv
<1>8. ASSUME NEW i \in Tx, Publish(i) PROVE PublishInv'
  <2>1. CallInv(i) /\ ShownInv(i)
    BY <1>a, Zenon
  <2>2. /\ pc[i] = "write" /\ todo[i] = {} /\ pc'[i] = "idle" /\ op'[i] = "none"
        /\ UNCHANGED <<multiVersionMap, items, writeset, todo, cur, ref>>
        /\ txWritesetKeys'[i] = IF op[i] = "invalidate" THEN txWritesetKeys[i]
                                 ELSE WrittenKeys(writeset[i])
    BY <1>8, Zenon DEF TypeOK, Publish
  <2>3. ASSUME NEW j \in Tx, j # i PROVE CallInv(j)' /\ ShownInv(j)'
    <3>1. pc'[j] = pc[j] /\ op'[j] = op[j] /\ txWritesetKeys'[j] = txWritesetKeys[j]
      BY <1>8, <2>3, Zenon DEF TypeOK, Publish
    <3> QED
      BY <1>a, <2>2, <3>1, OtherIndex, Zenon
  <2>4. CallInv(i)'
    BY <2>1, <2>2, Zenon DEF CallInv, WrittenKeys
  <2>5. ShownInv(i)'
    BY <2>1, <2>2, Zenon DEF ShownInv, WrittenKeys
  <2> QED
    BY <1>a, <2>2, <2>3, <2>4, <2>5, Zenon DEF PublishInv
<1>9. CASE UNCHANGED vars
  <2>1. /\ UNCHANGED <<multiVersionMap, items, txWritesetKeys>>
        /\ UNCHANGED <<pc, op, writeset, todo, cur, ref>>
    BY <1>9, Zenon DEF vars, storeVars, callVars
  <2>2. ASSUME NEW j \in Tx PROVE CallInv(j)' /\ ShownInv(j)'
    BY <1>a, <2>1, OtherIndex, Zenon
  <2> QED
    BY <1>a, <2>1, <2>2, Zenon DEF PublishInv
<1>10. ASSUME NEW i \in Tx, NEW w \in [Keys -> Values \cup {Nil, None}], SetWriteset(i, w)
       PROVE  PublishInv'
  <2>1. w \in [Keys -> Version \cup {None}]
    BY Sentinels, Zenon
  <2> QED
    BY <1>1, <1>10, <2>1, Zenon DEF SetWriteset
<1>11. ASSUME NEW i \in Tx, NEW K \in SUBSET Keys, SetEstimatedWriteset(i, K)
       PROVE  PublishInv'
  <2> DEFINE w == [k \in Keys |-> IF k \in K THEN Estimate ELSE None]
  <2>1. w \in [Keys -> Version \cup {None}]
    BY Sentinels, Zenon
  <2> QED
    BY <1>1, <1>11, <2>1, Zenon DEF SetEstimatedWriteset
<1> QED
  BY <1>2, <1>3, <1>4, <1>5, <1>6, <1>7, <1>8, <1>9, <1>10, <1>11, Zenon
     DEF Next, Enter, Proceed

\* The inductive invariant holds.
THEOREM PublishInvariant == Spec => []PublishInv
<1>1. Init => PublishInv
  <2> SUFFICES ASSUME Init PROVE PublishInv
    BY Zenon
  <2>1. \A k \in Registered : multiVersionMap[k] = Root
    BY Sentinels, Zenon DEF Init
  <2>2. ASSUME NEW i \in Tx PROVE CallInv(i)
    BY <2>2, Zenon DEF Init, CallInv
  <2>3. ASSUME NEW i \in Tx PROVE ShownInv(i)
    <3>1. /\ op[i] = "none" /\ pc[i] = "idle" /\ txWritesetKeys[i] = {}
          /\ \A k \in Keys : writeset[i][k] = None
      BY Zenon DEF Init, EmptyWriteset
    <3>2. \A k \in Registered : items[k][Root][i] = None
      BY Sentinels, Zenon DEF Init, EmptyItem
    <3> QED
      BY <3>1, <3>2, Sentinels, Zenon DEF ShownInv, WrittenKeys
  <2> QED
    BY <2>1, <2>2, <2>3, Zenon DEF PublishInv
<1> QED
  BY <1>1, TypeCorrect, PublishStep, PTL DEF Spec

\* What the inductive invariant says of an index no call is made for.
LEMMA PublishedWhenIdle == PublishInv => WritesetPublished
<1> SUFFICES ASSUME PublishInv, NEW i \in Tx, pc[i] = "idle"
             PROVE  /\ \A k \in Registered : VersionAt(k, i) = writeset[i][k]
                    /\ txWritesetKeys[i] = WrittenKeys(writeset[i])
  BY Zenon DEF WritesetPublished, ShowsLastWriteset
<1>1. op[i] = "none" /\ todo[i] = {}
  BY Zenon DEF PublishInv, CallInv
<1>2. /\ txWritesetKeys[i] = WrittenKeys(writeset[i])
      /\ \A k \in Registered : items[k][Root][i] = writeset[i][k]
  BY <1>1, Zenon DEF PublishInv, ShownInv
<1>3. \A k \in Registered : VersionAt(k, i) = items[k][Root][i]
  BY Sentinels, Zenon DEF PublishInv, VersionAt
<1> QED
  BY <1>2, <1>3, Zenon

\* When the calls made for an index have returned, the store shows exactly the
\* last writeset for every registered key, whatever the calls of the other
\* indices did meanwhile (SetWriteset, InvalidateWriteset, removeOldWriteset).
THEOREM Published == Spec => []WritesetPublished
BY PublishedWhenIdle, PublishInvariant, PTL

------------------------------------------------------------------------------

\* A step changes the version of a registered key at an index only by removing
\* an old key or by writing the new version.
LEMMA SlotStep ==
  ASSUME TypeOK, PublishInv, [Next]_vars, NEW k \in Registered, NEW j \in Tx
  PROVE  \/ VersionAt(k, j)' = VersionAt(k, j)
         \/ pc[j] = "remove" /\ k \in todo[j] /\ writeset' = writeset
         \/ /\ pc[j] = "put" /\ cur[j] = k
            /\ VersionAt(k, j)' = writeset[j][k] /\ writeset' = writeset
<1>1. VersionAt(k, j) = items[k][Root][j] /\ VersionAt(k, j)' = items'[k][Root][j]
  <2>1. multiVersionMap[k] = Root /\ Root # None
    BY Sentinels, Zenon DEF PublishInv
  <2>2. multiVersionMap'[k] = Root
    BY PublishStep, Zenon DEF PublishInv
  <2> QED
    BY <2>1, <2>2, Zenon DEF VersionAt
<1>2. ASSUME NEW i \in Tx, NEW k2 \in Keys, Remove(i, k2)
      PROVE  \/ items'[k][Root][j] = items[k][Root][j]
             \/ pc[j] = "remove" /\ k \in todo[j] /\ writeset' = writeset
  <2>1. items'[k][Root][j] = IF k = k2 /\ j = i THEN None ELSE items[k][Root][j]
    BY <1>2, RemoveSlots
  <2>2. pc[i] = "remove" /\ k2 \in todo[i] /\ writeset' = writeset
    BY <1>2, Zenon DEF Remove
  <2> QED
    BY <2>1, <2>2, Zenon
<1>3. ASSUME NEW i \in Tx, Put(i)
      PROVE  \/ items'[k][Root][j] = items[k][Root][j]
             \/ /\ pc[j] = "put" /\ cur[j] = k
                /\ items'[k][Root][j] = writeset[j][k] /\ writeset' = writeset
  <2>1. pc[i] = "put" /\ writeset' = writeset
    BY <1>3, Zenon DEF Put
  <2>2. items'[k][Root][j] = IF k = cur[i] /\ j = i THEN writeset[i][k]
                             ELSE items[k][Root][j]
    BY <1>3, PutSlots
  <2> QED
    BY <2>1, <2>2, Zenon
<1>4. ASSUME NEW i \in Tx, Create(i) PROVE items'[k][Root][j] = items[k][Root][j]
  BY <1>4, CreateSlots, Zenon
<1>5. ASSUME NEW i \in Tx, Enter(i) PROVE items' = items
  BY <1>5, Zenon DEF Enter, SetWriteset, SetEstimatedWriteset, Begin, InvalidateWriteset, storeVars
<1>6. ASSUME NEW i \in Tx, NEW k2 \in Keys, Load(i, k2) PROVE items' = items
  BY <1>6, Zenon DEF Load
<1>7. ASSUME NEW i \in Tx, RemoveDone(i) \/ Publish(i) PROVE items' = items
  BY <1>7, Zenon DEF RemoveDone, Publish, storeVars
<1>8. CASE UNCHANGED vars
  BY <1>1, <1>8, Zenon DEF vars, storeVars
<1> QED
  BY <1>1, <1>2, <1>3, <1>4, <1>5, <1>6, <1>7, <1>8, Zenon DEF Next, Proceed

\* A version that the new writeset overwrites is visible all along: the
\* removal of the old keys skips it.
THEOREM NoGapHolds == Spec => NoGap
<1>1. TypeOK /\ PublishInv /\ [Next]_vars => NoGapStep
  <2> SUFFICES ASSUME TypeOK, PublishInv, [Next]_vars, NEW k \in Registered, NEW i \in Tx,
                      VersionAt(k, i) # None, writeset'[i][k] # None
               PROVE  VersionAt(k, i)' # None
    BY Zenon DEF NoGapStep
  <2>1. pc[i] = "remove" /\ k \in todo[i] => writeset[i][k] = None
    BY Sentinels, Zenon DEF PublishInv, CallInv, WrittenKeys
  <2> QED
    BY <2>1, SlotStep
<1> QED
  BY <1>1, TypeCorrect, PublishInvariant, PTL DEF Spec, NoGap

\* An ESTIMATE stays until the index publishes another writeset.
THEOREM EstimatesStayHolds == Spec => EstimatesStay
<1>1. TypeOK /\ PublishInv /\ [Next]_vars => EstimateStep
  <2> SUFFICES ASSUME TypeOK, PublishInv, [Next]_vars, NEW k \in Registered, NEW i \in Tx,
                      VersionAt(k, i) = Estimate, VersionAt(k, i)' # Estimate
               PROVE  pc[i] # "idle" /\ op[i] # "invalidate" /\ writeset[i][k] # Estimate
    BY Zenon DEF EstimateStep
  <2>1. CallInv(i) /\ k \in Keys /\ Estimate # None
    BY Sentinels, Zenon DEF PublishInv
  <2>2. CASE pc[i] = "remove" /\ k \in todo[i]
    BY <2>1, <2>2, Zenon DEF CallInv, WrittenKeys
  <2>3. CASE pc[i] = "put" /\ cur[i] = k /\ VersionAt(k, i)' = writeset[i][k]
    BY <2>1, <2>3, Zenon DEF CallInv, WrittenKeys
  <2> QED
    BY <2>2, <2>3, SlotStep, Zenon
<1> QED
  BY <1>1, TypeCorrect, PublishInvariant, PTL DEF Spec, EstimatesStay

------------------------------------------------------------------------------
(* Least and greatest elements *)

\* A set of naturals that is not empty has a least element.
LEMMA LeastNatural ==
  ASSUME NEW S, S \subseteq Nat, S # {}
  PROVE  \E x \in S : \A y \in S : x <= y
<1> DEFINE R == OpToRel(<, Nat)
<1>1. \A x, y \in Nat : y < x => <<y, x>> \in R
  BY Zenon DEF OpToRel
<1>2. IsWellFoundedOn(R, Nat)
  BY NatLessThanWellFounded, Zenon
<1> HIDE DEF R
<1>3. PICK x \in S : \A y \in S : ~(<<y, x>> \in R)
  BY <1>2, WFMin, Zenon
<1>4. ASSUME NEW y \in S PROVE x <= y
  <2>1. x \in Nat /\ y \in Nat /\ ~(<<y, x>> \in R)
    BY <1>3, Zenon
  <2>2. ~(y < x)
    BY <1>1, <2>1, Zenon
  <2> QED
    BY <2>1, <2>2
<1> QED
  BY <1>4, Zenon

\* A set of indices that is not empty has a greatest element: MaxIndex.
LEMMA GreatestIndex ==
  ASSUME NEW S, S \subseteq Tx, S # {}
  PROVE  MaxIndex(S) \in S /\ \A m \in S : m <= MaxIndex(S)
<1> DEFINE T == {N - j : j \in S}
<1>1. T \subseteq Nat /\ T # {}
  <2>1. \A j \in S : N - j \in Nat
    BY ConstantsAssumption DEF Tx
  <2> QED
    BY <2>1, Zenon
<1>2. PICK x \in T : \A y \in T : x <= y
  BY <1>1, LeastNatural, Zenon
<1>3. PICK j \in S : x = N - j
  BY <1>2, Zenon
<1>4. \A m \in S : m <= j
  BY <1>2, <1>3, ConstantsAssumption DEF Tx
<1> QED
  BY <1>4, Zenon DEF MaxIndex

\* The first index that is not in a set, or N.
LEMMA FirstOutside ==
  ASSUME NEW S
  PROVE  \E n \in 0 .. N : (\A i \in 0 .. (n - 1) : i \in S) /\ (n = N \/ n \notin S)
<1> DEFINE T == {n \in 0 .. N : n = N \/ n \notin S}
<1>1. T \subseteq Nat /\ N \in T
  BY ConstantsAssumption
<1>2. PICK x \in T : \A y \in T : x <= y
  BY <1>1, LeastNatural, Zenon
<1>3. ASSUME NEW i \in 0 .. (x - 1) PROVE i \in S
  BY <1>2, ConstantsAssumption
<1> QED
  BY <1>2, <1>3, Zenon

------------------------------------------------------------------------------
(* The latest version before an index *)

\* The constants again, for the stores of transactions.
LEMMA Reads ==
  /\ Read \subseteq Version /\ None \notin Read /\ Estimate \notin Read /\ Nil \in Read
  /\ Version = Read \cup {Estimate}
BY ConstantsAssumption, Zenon DEF Read, Version

\* What a reader at an index gets is the version of an index before it.
LEMMA LatestIsVersion ==
  ASSUME TypeOK, NEW i \in 0 .. N, NEW k \in Keys
  PROVE  /\ LatestBefore(i, k) \in Version \cup {None}
         /\ GetLatestBeforeIndex(i, k) \in Tx \cup {None}
         /\ WritersBefore(i, k) = {} => LatestBefore(i, k) = None
         /\ WritersBefore(i, k) # {} =>
              /\ LatestBefore(i, k) = VersionAt(k, MaxIndex(WritersBefore(i, k)))
              /\ MaxIndex(WritersBefore(i, k)) \in WritersBefore(i, k)
              /\ LatestBefore(i, k) # None
<1> DEFINE S == WritersBefore(i, k)
<1>1. \A j \in Tx : VersionAt(k, j) \in Version \cup {None}
  BY DEF VersionAt, TypeOK
<1>2. S \subseteq Tx /\ \A j \in S : VersionAt(k, j) # None
  BY Zenon DEF WritersBefore
<1>3. S = {} => GetLatestBeforeIndex(i, k) = None /\ LatestBefore(i, k) = None
  BY Zenon DEF GetLatestBeforeIndex, LatestBefore
<1>4. S # {} => MaxIndex(S) \in S
  BY <1>2, GreatestIndex, Zenon
<1>5. S # {} => /\ GetLatestBeforeIndex(i, k) = MaxIndex(S)
                /\ LatestBefore(i, k) = VersionAt(k, MaxIndex(S))
  <2>1. S # {} => GetLatestBeforeIndex(i, k) = MaxIndex(S)
    BY Zenon DEF GetLatestBeforeIndex
  <2>2. S # {} => MaxIndex(S) # None
    BY <1>2, <1>4, Sentinels, Zenon
  <2> QED
    BY <2>1, <2>2, Zenon DEF LatestBefore
<1> HIDE DEF S
<1>6. LatestBefore(i, k) \in Version \cup {None} /\ GetLatestBeforeIndex(i, k) \in Tx \cup {None}
  BY <1>1, <1>2, <1>3, <1>4, <1>5, Zenon
<1> QED
  BY <1>2, <1>3, <1>4, <1>5, <1>6, Zenon DEF S

\* The reader at the next index gets the version of this one, if there is one.
LEMMA LatestNext ==
  ASSUME TypeOK, NEW i \in Tx, NEW k \in Keys
  PROVE  LatestBefore(i + 1, k) =
           IF VersionAt(k, i) # None THEN VersionAt(k, i) ELSE LatestBefore(i, k)
<1> DEFINE S == WritersBefore(i, k)
           T == WritersBefore(i + 1, k)
<1>1. i \in 0 .. N /\ i + 1 \in 0 .. N /\ i \in Int
  BY ConstantsAssumption DEF Tx
<1>2. T = IF VersionAt(k, i) # None THEN S \cup {i} ELSE S
  BY ConstantsAssumption DEF WritersBefore, Tx
<1>3. CASE VersionAt(k, i) # None
  <2>1. T \subseteq Tx /\ T # {} /\ i \in T /\ \A j \in T : j <= i
    BY <1>2, <1>3, ConstantsAssumption DEF WritersBefore, Tx
  <2>2. MaxIndex(T) \in T /\ i <= MaxIndex(T)
    BY <2>1, GreatestIndex, Zenon
  <2>3. MaxIndex(T) = i
    BY <2>1, <2>2, ConstantsAssumption DEF Tx
  <2> QED
    BY <1>1, <1>3, <2>1, <2>3, LatestIsVersion, Zenon
<1>4. CASE VersionAt(k, i) = None
  <2>1. T = S
    BY <1>2, <1>4, Zenon
  <2> QED
    BY <1>4, <2>1 DEF LatestBefore, GetLatestBeforeIndex
<1> QED
  BY <1>3, <1>4, Zenon

\* What WriteLatestToStore writes for a key is a value or nil.
LEMMA LatestNonEstimate ==
  ASSUME TypeOK, NEW k \in Keys
  PROVE  GetLatestNonEstimate(k) \in Read \cup {None}
<1> DEFINE S == {j \in Tx : VersionAt(k, j) \notin {None, Estimate}}
<1>1. \A j \in S : VersionAt(k, j) \in Read
  BY Reads DEF VersionAt, TypeOK
<1>2. S # {} => MaxIndex(S) \in S
  BY GreatestIndex, Zenon
<1> QED
  BY <1>1, <1>2, Zenon DEF GetLatestNonEstimate

\* A reader gets the same version when those of the indices before it stay.
LEMMA LatestSame ==
  ASSUME NEW i \in 0 .. N, NEW k \in Keys,
         \A j \in Tx : j < i => VersionAt(k, j)' = VersionAt(k, j)
  PROVE  LatestBefore(i, k)' = LatestBefore(i, k)
<1> DEFINE S == WritersBefore(i, k)
<1>1. WritersBefore(i, k)' = S
  BY Zenon DEF WritersBefore
<1>2. S \subseteq Tx /\ \A j \in S : j < i
  BY Zenon DEF WritersBefore
<1>3. GetLatestBeforeIndex(i, k)' = GetLatestBeforeIndex(i, k)
  BY <1>1 DEF GetLatestBeforeIndex, MaxIndex
<1>4. CASE S = {}
  BY <1>3, <1>4, Zenon DEF LatestBefore, GetLatestBeforeIndex
<1>5. CASE S # {}
  <2>1. MaxIndex(S) \in S /\ GetLatestBeforeIndex(i, k) = MaxIndex(S)
    BY <1>2, <1>5, GreatestIndex, Zenon DEF GetLatestBeforeIndex
  <2>2. PICK m \in S : m = GetLatestBeforeIndex(i, k)
    BY <2>1, Zenon
  <2>3. m \in Tx /\ m < i /\ m # None
    BY <1>2, Sentinels, Zenon
  <2>4. VersionAt(k, m)' = VersionAt(k, m)
    BY <2>3, Zenon
  <2>5. LatestBefore(i, k) = VersionAt(k, m)
    BY <2>2, <2>3, Zenon DEF LatestBefore
  <2>6. LatestBefore(i, k)' = VersionAt(k, m)'
    BY <1>3, <2>2, <2>3, Zenon DEF LatestBefore, VersionAt
  <2> QED
    BY <2>4, <2>5, <2>6, Zenon
<1> QED
  BY <1>4, <1>5, Zenon

\* A call on the multiversion store under way for one index keeps its writeset.
LEMMA ProceedFrame ==
  ASSUME TypeOK, NEW i \in Tx, Proceed(i)
  PROVE  /\ writeset' = writeset
         /\ pc[i] # "idle"
         /\ \A j \in Tx : j # i => pc'[j] = pc[j]
<1> USE DEF TypeOK
<1>1. ASSUME NEW k \in Keys, Remove(i, k)
      PROVE  pc[i] # "idle" /\ pc' = pc /\ writeset' = writeset
  BY <1>1, Zenon DEF Remove
<1>2. ASSUME NEW k \in Keys, Load(i, k)
      PROVE  pc[i] # "idle" /\ writeset' = writeset /\ \A j \in Tx : j # i => pc'[j] = pc[j]
  BY <1>2, Zenon DEF Load
<1>3. ASSUME RemoveDone(i) \/ Create(i) \/ Put(i) \/ Publish(i)
      PROVE  pc[i] # "idle" /\ writeset' = writeset /\ \A j \in Tx : j # i => pc'[j] = pc[j]
  BY <1>3, Zenon DEF RemoveDone, Create, Put, Publish
<1> QED
  BY <1>1, <1>2, <1>3, Zenon DEF Proceed
==============================================================================
