--------------------------- MODULE CatalogProofs ---------------------------
(***************************************************************************)
(* Theorems about Catalog, for every finite set of buckets, keys and       *)
(* sources and every choice of limits.                                     *)
(***************************************************************************)
EXTENDS Catalog, FiniteSetTheorems, FunctionTheorems, TLAPS

-----------------------------------------------------------------------------
(* The laws of byte totals.                                                 *)

(* The bytes of finitely many rows are finitely many. *)
LEMMA BytesFinite ==
  ASSUME NEW S, IsFiniteSet(S), NEW w, \A x \in S : w[x] \in Nat
  PROVE  IsFiniteSet(Bytes(w, S))
<1> DEFINE cell(x) == {x} \X (1..w[x])
           T == {cell(x) : x \in S}
           f == [x \in S |-> cell(x)]
<1>1. f \in Surjection(S, T)
  BY DEF Surjection
<1>2. IsFiniteSet(T)
  BY <1>1, FS_Surjection
<1>3. ASSUME NEW x \in S PROVE IsFiniteSet(cell(x))
  <2>1. IsFiniteSet({x})
    BY FS_Singleton
  <2>2. w[x] \in Int /\ 1 \in Int
    OBVIOUS
  <2>3. IsFiniteSet(1..w[x])
    BY <2>2, FS_Interval
  <2> QED BY <2>1, <2>3, FS_Product
<1>4. \A c \in T : IsFiniteSet(c)
  BY <1>3
<1>5. IsFiniteSet(UNION T)
  BY <1>2, <1>4, FS_UNION
<1> QED BY <1>5 DEF Bytes

(* A total is a natural number. *)
LEMMA VolumeNat ==
  ASSUME NEW S, IsFiniteSet(S), NEW w, \A x \in S : w[x] \in Nat
  PROVE  Volume(w, S) \in Nat
BY BytesFinite, FS_CardinalityType DEF Volume

(* The total of one row is its weight. *)
LEMMA VolumeSingle ==
  ASSUME NEW x, NEW w, w[x] \in Nat
  PROVE  Volume(w, {x}) = w[x]
<1>1. Bytes(w, {x}) = {x} \X (1..w[x])
  BY DEF Bytes
<1>2. IsFiniteSet({x}) /\ Cardinality({x}) = 1
  BY FS_Singleton
<1>3. IsFiniteSet(1..w[x]) /\ Cardinality(1..w[x]) = w[x]
  <2> DEFINE n == w[x]
  <2>1. n \in Int /\ 1 \in Int /\ n \in Nat
    OBVIOUS
  <2> HIDE DEF n
  <2>2. /\ IsFiniteSet(1..n)
        /\ Cardinality(1..n) = IF 1 > n THEN 0 ELSE n - 1 + 1
    BY <2>1, FS_Interval
  <2>3. Cardinality(1..n) = n
    BY <2>1, <2>2
  <2> QED BY <2>2, <2>3 DEF n
<1>4. Cardinality({x} \X (1..w[x])) = Cardinality({x}) * Cardinality(1..w[x])
  BY <1>2, <1>3, FS_Product
<1>5. 1 * w[x] = w[x]
  OBVIOUS
<1> QED BY <1>1, <1>2, <1>3, <1>4, <1>5 DEF Volume

(* Totals of disjoint row sets add up. *)
LEMMA VolumeDisjoint ==
  ASSUME NEW S, IsFiniteSet(S), NEW T, IsFiniteSet(T), S \cap T = {},
         NEW w, \A x \in S \cup T : w[x] \in Nat
  PROVE  Volume(w, S \cup T) = Volume(w, S) + Volume(w, T)
<1>1. Bytes(w, S \cup T) = Bytes(w, S) \cup Bytes(w, T)
  BY DEF Bytes
<1>2. Bytes(w, S) \cap Bytes(w, T) = {}
  BY DEF Bytes
<1>3. IsFiniteSet(Bytes(w, S)) /\ IsFiniteSet(Bytes(w, T))
  BY BytesFinite
<1>4. /\ Cardinality(Bytes(w, S)) \in Nat
      /\ Cardinality(Bytes(w, T)) \in Nat
  BY <1>3, FS_CardinalityType
<1>5. Cardinality(Bytes(w, S) \cup Bytes(w, T))
        = Cardinality(Bytes(w, S)) + Cardinality(Bytes(w, T))
          - Cardinality(Bytes(w, S) \cap Bytes(w, T))
  BY <1>3, FS_Union
<1>6. Cardinality(Bytes(w, S) \cap Bytes(w, T)) = 0
  BY <1>2, FS_EmptySet
<1>7. Cardinality(Bytes(w, S) \cup Bytes(w, T))
        = Cardinality(Bytes(w, S)) + Cardinality(Bytes(w, T))
  <2> HIDE DEF Bytes
  <2> QED BY <1>4, <1>5, <1>6
<1> QED BY <1>1, <1>7, Zenon DEF Volume

(* A total depends only on the weights of its own rows. *)
LEMMA VolumeSame ==
  ASSUME NEW S, NEW w, NEW v, \A x \in S : v[x] = w[x]
  PROVE  Volume(v, S) = Volume(w, S)
<1>1. Bytes(v, S) = Bytes(w, S)
  BY DEF Bytes
<1> QED BY <1>1 DEF Volume

(* Rows of weight zero total zero; so does no row. *)
LEMMA VolumeZero ==
  ASSUME NEW S, NEW w, \A x \in S : w[x] = 0
  PROVE  Volume(w, S) = 0
<1>1. Bytes(w, S) = {}
  BY DEF Bytes
<1> QED BY <1>1, FS_EmptySet DEF Volume

(* One row taken out of a set of rows and counted apart. *)
LEMMA VolumeSplit ==
  ASSUME NEW S, IsFiniteSet(S), NEW x \in S, NEW w, \A y \in S : w[y] \in Nat
  PROVE  /\ Volume(w, S) = Volume(w, S \ {x}) + w[x]
         /\ Volume(w, S \ {x}) \in Nat
<1>1. IsFiniteSet(S \ {x}) /\ IsFiniteSet({x})
  BY FS_RemoveElement, FS_Singleton
<1>2. S = (S \ {x}) \cup {x} /\ (S \ {x}) \cap {x} = {}
  OBVIOUS
<1>3. Volume(w, (S \ {x}) \cup {x}) = Volume(w, S \ {x}) + Volume(w, {x})
  BY <1>1, <1>2, VolumeDisjoint
<1> QED BY <1>1, <1>2, <1>3, VolumeSingle, VolumeNat

(* What row x contributes to the total of S. *)
Weight(w, S, x) == IF x \in S THEN w[x] ELSE 0

(* One row enters, leaves or changes: the total moves by that row's old and
   new weight, and it was never smaller than the old one. *)
LEMMA VolumeMove ==
  ASSUME NEW S, IsFiniteSet(S), NEW T, IsFiniteSet(T), NEW x, NEW w, NEW v,
         \A y \in S : w[y] \in Nat, \A y \in T : v[y] \in Nat,
         S \ {x} = T \ {x}, \A y \in S \ {x} : v[y] = w[y]
  PROVE  /\ Volume(v, T) = Volume(w, S) - Weight(w, S, x) + Weight(v, T, x)
         /\ Volume(w, S) >= Weight(w, S, x)
         /\ Volume(w, S) \in Nat
<1> DEFINE before == Weight(w, S, x)
           after == Weight(v, T, x)
           rest == Volume(w, S \ {x})
<1> USE DEF Weight
<1>1. Volume(w, S) = rest + before /\ rest \in Nat
  <2>1. CASE x \in S
    BY <2>1, VolumeSplit
  <2>2. CASE x \notin S
    <3>1. S \ {x} = S
      BY <2>2
    <3>2. Volume(w, S) \in Nat
      BY VolumeNat
    <3> QED BY <2>2, <3>1, <3>2
  <2> QED BY <2>1, <2>2
<1>2. Volume(v, S \ {x}) = rest
  BY VolumeSame
<1>3. Volume(v, T) = rest + after
  <2>1. CASE x \in T
    <3>1. Volume(v, T) = Volume(v, T \ {x}) + v[x]
      BY <2>1, VolumeSplit
    <3> QED BY <2>1, <3>1, <1>2
  <2>2. CASE x \notin T
    <3>1. T \ {x} = T
      BY <2>2
    <3> QED BY <2>2, <3>1, <1>1, <1>2
  <2> QED BY <2>1, <2>2
<1>4. before \in Nat /\ after \in Nat
  OBVIOUS
<1> HIDE DEF before, after, rest
<1>5. /\ Volume(v, T) = Volume(w, S) - before + after
      /\ Volume(w, S) >= before
      /\ Volume(w, S) \in Nat
  BY <1>1, <1>3, <1>4
<1> QED BY <1>5 DEF before, after

-----------------------------------------------------------------------------
(* The sets that the totals range over.                                     *)

(* Slots and the row sets of the queries are finite. *)
LEMMA SlotsFinite ==
  /\ IsFiniteSet(Slots)
  /\ \A b : IsFiniteSet(BucketSlots(b))
  /\ \A s : IsFiniteSet(ObjectsOn(s)) /\ IsFiniteSet(UploadsOn(s))
<1>1. IsFiniteSet(Slots)
  BY FiniteAssumption, FS_Product DEF Slots
<1>2. \A T \in SUBSET Slots : IsFiniteSet(T)
  BY <1>1, FS_Subset
<1> QED BY <1>1, <1>2 DEF BucketSlots, ObjectsOn, UploadsOn

(* The columns the queries sum are natural numbers. *)
LEMMA WeightsNat ==
  ASSUME TypeOK
  PROVE  \A x \in Slots : /\ ObjSize[x] = objects[x].size /\ ObjSize[x] \in Nat
                          /\ UpRes[x] = uploads[x].res /\ UpRes[x] \in Nat
                          /\ UpSRes[x] = uploads[x].sres /\ UpSRes[x] \in Nat
BY DEF TypeOK, ObjSize, UpRes, UpSRes, ObjectRow, UploadRow, NoObject, NoUpload

(* What TypeOK says of one slot. *)
LEMMA SlotTypes ==
  ASSUME TypeOK, NEW x \in Slots
  PROVE  /\ x[1] \in Buckets
         /\ objects[x].src \in Places \cup {None}
         /\ objects[x].size \in Nat
         /\ uploads[x].src \in Places \cup {None}
         /\ uploads[x].size \in Nat
         /\ uploads[x].res \in Nat
         /\ uploads[x].sres \in Nat
         /\ objects[x].src = None => objects[x].size = 0
         /\ uploads[x].src = None
              => uploads[x].size = 0 /\ uploads[x].res = 0 /\ uploads[x].sres = 0
BY DistinctAssumption
DEF TypeOK, Slots, Places, ObjectRow, UploadRow, NoObject, NoUpload

-----------------------------------------------------------------------------
(* Type correctness: the empty catalog is well typed. *)
LEMMA TypeInit == Init => TypeOK
BY DEF Init, TypeOK

(* Every transaction keeps the catalog well typed; one step per transaction. *)
LEMMA TypeStep == TypeOK /\ [Next]_vars => TypeOK'
<1> SUFFICES ASSUME TypeOK, [Next]_vars PROVE TypeOK'
  OBVIOUS
<1> USE NumberAssumption
<1>1. ASSUME NEW b \in Buckets, NEW q \in Quotas \cup {Unlimited},
             CreateBucket(b, q) \/ UpdateBucket(b, q)
      PROVE  TypeOK'
  BY <1>1 DEF CreateBucket, UpdateBucket, TypeOK, sourceVars, rowVars
<1>2. ASSUME NEW s \in Sources, NEW c \in Capacities \cup {Unlimited},
             CreateStorageSource(s, c) \/ UpdateStorageSource(s, c)
      PROVE  TypeOK'
  BY <1>2 DEF CreateStorageSource, UpdateStorageSource, TypeOK, bucketVars, rowVars
<1>3. ASSUME NEW x \in Slots, NEW s \in Places, NEW n \in Sizes, ReserveObject(x, s, n)
      PROVE  TypeOK'
  <2>1. x[1] \in Buckets /\ Growth(x, n) \in Nat /\ SourceGrowth(x, s, n) \in Nat
    BY SlotTypes DEF Growth, SourceGrowth, AtLeastZero
  <2> QED BY <1>3, <2>1 DEF ReserveObject, TypeOK, UploadRow, Places
<1>4. ASSUME NEW x \in Slots, CancelUpload(x)
      PROVE  TypeOK'
  BY <1>4, SlotTypes
  DEF CancelUpload, ReleaseUpload, HasUpload, TypeOK, Places, AtLeastZero
<1>5. ASSUME NEW x \in Slots, CommitUpload(x)
      PROVE  TypeOK'
  <2>1. /\ reserved' \in [Buckets -> Nat] /\ sReserved' \in [Sources -> Nat]
        /\ uploads' \in [Slots -> UploadRow \cup {NoUpload}]
    BY <1>5, SlotTypes
    DEF CommitUpload, ReleaseUpload, HasUpload, TypeOK, Places, AtLeastZero
  <2>2. objects' \in [Slots -> ObjectRow \cup {NoObject}]
    BY <1>5, SlotTypes DEF CommitUpload, HasUpload, TypeOK, ObjectRow, Places
  <2>3. used' \in [Buckets -> Nat]
    BY <1>5, SlotTypes DEF CommitUpload, TypeOK, AtLeastZero
  <2>4. sUsed' \in [Sources -> Nat]
    BY <1>5, SlotTypes DEF CommitUpload, TypeOK, AtLeastZero
  <2> QED BY <1>5, <2>1, <2>2, <2>3, <2>4 DEF CommitUpload, TypeOK
<1>6. ASSUME NEW x \in Slots, DeleteObject(x)
      PROVE  TypeOK'
  BY <1>6, SlotTypes DEF DeleteObject, HasObject, TypeOK, Places, AtLeastZero
<1>7. ASSUME NEW b \in Buckets, BeginBucketDeletion(b)
      PROVE  TypeOK'
  BY <1>7 DEF BeginBucketDeletion, TypeOK, sourceVars, rowVars
<1>8. ASSUME NEW b \in Buckets, FinishBucketDeletion(b)
      PROVE  TypeOK'
  <2>1. \A s \in Sources : /\ Volume(ObjSize, BucketSlots(b) \cap ObjectsOn(s)) \in Nat
                           /\ Volume(UpSRes, BucketSlots(b) \cap UploadsOn(s)) \in Nat
    <3> TAKE s \in Sources
    <3>1. /\ IsFiniteSet(BucketSlots(b) \cap ObjectsOn(s))
          /\ IsFiniteSet(BucketSlots(b) \cap UploadsOn(s))
      BY SlotsFinite, FS_Intersection
    <3>2. \A x \in BucketSlots(b) : ObjSize[x] \in Nat /\ UpSRes[x] \in Nat
      BY WeightsNat DEF BucketSlots
    <3> QED BY <3>1, <3>2, VolumeNat
  <2>2. sUsed' \in [Sources -> Nat] /\ sReserved' \in [Sources -> Nat]
    <3> DEFINE u(s) == Volume(ObjSize, BucketSlots(b) \cap ObjectsOn(s))
               r(s) == Volume(UpSRes, BucketSlots(b) \cap UploadsOn(s))
    <3>1. \A s \in Sources : u(s) \in Nat /\ r(s) \in Nat
      BY <2>1
    <3>2. /\ sUsed' = [s \in Sources |-> IF s \in attached
                          THEN AtLeastZero(sUsed[s] - u(s)) ELSE sUsed[s]]
          /\ sReserved' = [s \in Sources |-> IF s \in attached
                          THEN AtLeastZero(sReserved[s] - r(s)) ELSE sReserved[s]]
      BY <1>8 DEF FinishBucketDeletion
    <3> HIDE DEF u, r
    <3> QED BY <3>1, <3>2 DEF TypeOK, AtLeastZero
  <2> QED BY <1>8, <2>2 DEF FinishBucketDeletion, TypeOK
<1>9. CASE UNCHANGED vars
  BY <1>9 DEF vars, bucketVars, sourceVars, rowVars, TypeOK
<1> QED
  BY <1>1, <1>2, <1>3, <1>4, <1>5, <1>6, <1>7, <1>8, <1>9 DEF Next

(* Counters stay natural numbers and rows well formed: no transaction
   writes a negative byte count or a row without its source. *)
THEOREM TypeCorrect == Spec => []TypeOK
BY TypeInit, TypeStep, PTL DEF Spec
-----------------------------------------------------------------------------
(* Accounting.  Each row transaction changes one slot; every counter moves by
   exactly what that slot's row contributed before and contributes after. *)

(* The totals of objects.size around a change of one slot's object. *)
LEMMA ObjectMove ==
  ASSUME TypeOK, TypeOK', NEW x \in Slots,
         \A y \in Slots \ {x} : objects'[y] = objects[y]
  PROVE  /\ \A b \in Buckets :
              /\ Volume(ObjSize', BucketSlots(b))
                   = Volume(ObjSize, BucketSlots(b))
                     - (IF x[1] = b THEN objects[x].size ELSE 0)
                     + (IF x[1] = b THEN objects'[x].size ELSE 0)
              /\ Volume(ObjSize, BucketSlots(b))
                   >= (IF x[1] = b THEN objects[x].size ELSE 0)
         /\ \A s \in Sources :
              /\ Volume(ObjSize', ObjectsOn(s)')
                   = Volume(ObjSize, ObjectsOn(s))
                     - (IF objects[x].src = s THEN objects[x].size ELSE 0)
                     + (IF objects'[x].src = s THEN objects'[x].size ELSE 0)
              /\ Volume(ObjSize, ObjectsOn(s))
                   >= (IF objects[x].src = s THEN objects[x].size ELSE 0)
<1>1. \A y \in Slots : ObjSize[y] = objects[y].size /\ ObjSize[y] \in Nat
  BY WeightsNat
<1>2. \A y \in Slots : ObjSize'[y] = objects'[y].size /\ ObjSize'[y] \in Nat
  BY DEF TypeOK, ObjSize, ObjectRow, NoObject
<1>3. ASSUME NEW S, NEW T, IsFiniteSet(S), IsFiniteSet(T),
             S \subseteq Slots, T \subseteq Slots, S \ {x} = T \ {x}
      PROVE  /\ Volume(ObjSize', T)
                  = Volume(ObjSize, S) - Weight(ObjSize, S, x) + Weight(ObjSize', T, x)
             /\ Volume(ObjSize, S) >= Weight(ObjSize, S, x)
  <2>1. /\ \A y \in S : ObjSize[y] \in Nat
        /\ \A y \in T : ObjSize'[y] \in Nat
        /\ \A y \in S \ {x} : ObjSize'[y] = ObjSize[y]
    BY <1>1, <1>2, <1>3
  <2>2. S \ {x} = T \ {x} /\ IsFiniteSet(S) /\ IsFiniteSet(T)
    BY <1>3
  <2> HIDE DEF ObjSize
  <2> QED BY <2>1, <2>2, VolumeMove
<1>4. ASSUME NEW b \in Buckets
      PROVE  /\ BucketSlots(b) \subseteq Slots
             /\ IsFiniteSet(BucketSlots(b))
             /\ x \in BucketSlots(b) <=> x[1] = b
  BY SlotsFinite DEF BucketSlots
<1>5. ASSUME NEW s \in Sources
      PROVE  /\ ObjectsOn(s) \subseteq Slots /\ ObjectsOn(s)' \subseteq Slots
             /\ IsFiniteSet(ObjectsOn(s)) /\ IsFiniteSet(ObjectsOn(s)')
             /\ ObjectsOn(s) \ {x} = ObjectsOn(s)' \ {x}
             /\ x \in ObjectsOn(s) <=> objects[x].src = s
             /\ x \in ObjectsOn(s)' <=> objects'[x].src = s
  <2>1. /\ ObjectsOn(s) \subseteq Slots /\ ObjectsOn(s)' \subseteq Slots
        /\ ObjectsOn(s) \ {x} = ObjectsOn(s)' \ {x}
        /\ x \in ObjectsOn(s) <=> objects[x].src = s
        /\ x \in ObjectsOn(s)' <=> objects'[x].src = s
    BY DEF ObjectsOn
  <2> QED BY <2>1, SlotsFinite, FS_Subset
<1> QED BY <1>1, <1>2, <1>3, <1>4, <1>5 DEF Weight

(* The same for the two reserved columns of uploads. *)
LEMMA UploadMove ==
  ASSUME TypeOK, TypeOK', NEW x \in Slots,
         \A y \in Slots \ {x} : uploads'[y] = uploads[y]
  PROVE  /\ \A b \in Buckets :
              /\ Volume(UpRes', BucketSlots(b))
                   = Volume(UpRes, BucketSlots(b))
                     - (IF x[1] = b THEN uploads[x].res ELSE 0)
                     + (IF x[1] = b THEN uploads'[x].res ELSE 0)
              /\ Volume(UpRes, BucketSlots(b))
                   >= (IF x[1] = b THEN uploads[x].res ELSE 0)
         /\ \A s \in Sources :
              /\ Volume(UpSRes', UploadsOn(s)')
                   = Volume(UpSRes, UploadsOn(s))
                     - (IF uploads[x].src = s THEN uploads[x].sres ELSE 0)
                     + (IF uploads'[x].src = s THEN uploads'[x].sres ELSE 0)
              /\ Volume(UpSRes, UploadsOn(s))
                   >= (IF uploads[x].src = s THEN uploads[x].sres ELSE 0)
<1>1. \A y \in Slots : /\ UpRes[y] = uploads[y].res /\ UpRes[y] \in Nat
                       /\ UpSRes[y] = uploads[y].sres /\ UpSRes[y] \in Nat
  BY WeightsNat
<1>2. \A y \in Slots : /\ UpRes'[y] = uploads'[y].res /\ UpRes'[y] \in Nat
                       /\ UpSRes'[y] = uploads'[y].sres /\ UpSRes'[y] \in Nat
  BY DEF TypeOK, UpRes, UpSRes, UploadRow, NoUpload
<1>3. ASSUME NEW S, IsFiniteSet(S), S \subseteq Slots
      PROVE  /\ Volume(UpRes', S)
                  = Volume(UpRes, S) - Weight(UpRes, S, x) + Weight(UpRes', S, x)
             /\ Volume(UpRes, S) >= Weight(UpRes, S, x)
  <2>1. /\ \A y \in S : UpRes[y] \in Nat /\ UpRes'[y] \in Nat
        /\ \A y \in S \ {x} : UpRes'[y] = UpRes[y]
    BY <1>1, <1>2, <1>3
  <2> HIDE DEF UpRes
  <2> QED BY <1>3, <2>1, VolumeMove
<1>4. ASSUME NEW S, NEW T, IsFiniteSet(S), IsFiniteSet(T),
             S \subseteq Slots, T \subseteq Slots, S \ {x} = T \ {x}
      PROVE  /\ Volume(UpSRes', T)
                  = Volume(UpSRes, S) - Weight(UpSRes, S, x) + Weight(UpSRes', T, x)
             /\ Volume(UpSRes, S) >= Weight(UpSRes, S, x)
  <2>1. /\ \A y \in S : UpSRes[y] \in Nat
        /\ \A y \in T : UpSRes'[y] \in Nat
        /\ \A y \in S \ {x} : UpSRes'[y] = UpSRes[y]
    BY <1>1, <1>2, <1>4
  <2>2. S \ {x} = T \ {x} /\ IsFiniteSet(S) /\ IsFiniteSet(T)
    BY <1>4
  <2> HIDE DEF UpSRes
  <2> QED BY <2>1, <2>2, VolumeMove
<1>5. ASSUME NEW b \in Buckets
      PROVE  /\ BucketSlots(b) \subseteq Slots
             /\ IsFiniteSet(BucketSlots(b))
             /\ x \in BucketSlots(b) <=> x[1] = b
  BY SlotsFinite DEF BucketSlots
<1>6. ASSUME NEW s \in Sources
      PROVE  /\ UploadsOn(s) \subseteq Slots /\ UploadsOn(s)' \subseteq Slots
             /\ IsFiniteSet(UploadsOn(s)) /\ IsFiniteSet(UploadsOn(s)')
             /\ UploadsOn(s) \ {x} = UploadsOn(s)' \ {x}
             /\ x \in UploadsOn(s) <=> uploads[x].src = s
             /\ x \in UploadsOn(s)' <=> uploads'[x].src = s
  <2>1. /\ UploadsOn(s) \subseteq Slots /\ UploadsOn(s)' \subseteq Slots
        /\ UploadsOn(s) \ {x} = UploadsOn(s)' \ {x}
        /\ x \in UploadsOn(s) <=> uploads[x].src = s
        /\ x \in UploadsOn(s)' <=> uploads'[x].src = s
    BY DEF UploadsOn
  <2> QED BY <2>1, SlotsFinite, FS_Subset
<1> QED BY <1>1, <1>2, <1>3, <1>4, <1>5, <1>6 DEF Weight

(* Totals of rows that a step leaves alone. *)
LEMMA TotalsUnchanged ==
  /\ objects' = objects =>
       /\ ObjSize' = ObjSize
       /\ \A s : ObjectsOn(s)' = ObjectsOn(s)
  /\ uploads' = uploads =>
       /\ UpRes' = UpRes /\ UpSRes' = UpSRes
       /\ \A s : UploadsOn(s)' = UploadsOn(s)
BY DEF ObjSize, UpRes, UpSRes, ObjectsOn, UploadsOn

(* The two halves of Accounting. *)
ObjectAccounting ==
  /\ \A b \in Buckets : used[b] = Volume(ObjSize, BucketSlots(b))
  /\ \A s \in Sources : sUsed[s] = Volume(ObjSize, ObjectsOn(s))
UploadAccounting ==
  /\ \A b \in Buckets : reserved[b] = Volume(UpRes, BucketSlots(b))
  /\ \A s \in Sources : sReserved[s] = Volume(UpSRes, UploadsOn(s))

(* Accounting is the conjunction of the object half and the upload half. *)
LEMMA AccountingHalves == Accounting <=> ObjectAccounting /\ UploadAccounting
BY DEF Accounting, ObjectAccounting, UploadAccounting

(* The inductive invariant of the accounting proof. *)
IInv == TypeOK /\ RowsHaveParents /\ ObjectAccounting /\ UploadAccounting

(* The empty catalog has no rows, hence none without a parent. *)
LEMMA ParentsInit == Init => RowsHaveParents
BY DEF Init, RowsHaveParents, HasObject, HasUpload, NoObject, NoUpload

(* Every transaction leaves rows only under existing buckets and sources. *)
LEMMA ParentsStep == TypeOK /\ RowsHaveParents /\ [Next]_vars => RowsHaveParents'
<1> SUFFICES ASSUME TypeOK, RowsHaveParents, [Next]_vars PROVE RowsHaveParents'
  OBVIOUS
<1> USE DEF RowsHaveParents, HasObject, HasUpload, NoObject, NoUpload
<1> USE SlotTypes
<1>1. ASSUME NEW b \in Buckets, NEW q \in Quotas \cup {Unlimited},
             CreateBucket(b, q) \/ UpdateBucket(b, q)
      PROVE  RowsHaveParents'
  BY <1>1 DEF CreateBucket, UpdateBucket, TypeOK, sourceVars, rowVars
<1>2. ASSUME NEW s \in Sources, NEW c \in Capacities \cup {Unlimited},
             CreateStorageSource(s, c) \/ UpdateStorageSource(s, c)
      PROVE  RowsHaveParents'
  BY <1>2 DEF CreateStorageSource, UpdateStorageSource, bucketVars, rowVars
<1>3. ASSUME NEW x \in Slots, NEW s \in Places, NEW n \in Sizes, ReserveObject(x, s, n)
      PROVE  RowsHaveParents'
  BY <1>3 DEF ReserveObject, AdmitsSource, TypeOK
<1>4. ASSUME NEW x \in Slots, CancelUpload(x)
      PROVE  RowsHaveParents'
  BY <1>4 DEF CancelUpload, ReleaseUpload, TypeOK
<1>5. ASSUME NEW x \in Slots, CommitUpload(x)
      PROVE  RowsHaveParents'
  BY <1>5 DEF CommitUpload, ReleaseUpload, TypeOK
<1>6. ASSUME NEW x \in Slots, DeleteObject(x)
      PROVE  RowsHaveParents'
  BY <1>6 DEF DeleteObject, TypeOK
<1>7. ASSUME NEW b \in Buckets, BeginBucketDeletion(b)
      PROVE  RowsHaveParents'
  BY <1>7 DEF BeginBucketDeletion, TypeOK, sourceVars, rowVars
<1>8. ASSUME NEW b \in Buckets, FinishBucketDeletion(b)
      PROVE  RowsHaveParents'
  BY <1>8 DEF FinishBucketDeletion, TypeOK
<1>9. CASE UNCHANGED vars
  BY <1>9 DEF vars, bucketVars, sourceVars, rowVars
<1> QED
  BY <1>1, <1>2, <1>3, <1>4, <1>5, <1>6, <1>7, <1>8, <1>9 DEF Next

(* The empty catalog: every counter and every total is zero. *)
LEMMA AccountingInit == Init => ObjectAccounting /\ UploadAccounting
<1> SUFFICES ASSUME Init PROVE ObjectAccounting /\ UploadAccounting
  OBVIOUS
<1>1. \A x \in Slots : ObjSize[x] = 0 /\ UpRes[x] = 0 /\ UpSRes[x] = 0
  BY DEF Init, ObjSize, UpRes, UpSRes, NoObject, NoUpload
<1>2. /\ \A b : BucketSlots(b) \subseteq Slots
      /\ \A s : ObjectsOn(s) \subseteq Slots /\ UploadsOn(s) \subseteq Slots
  BY DEF BucketSlots, ObjectsOn, UploadsOn
<1>3. /\ \A b : Volume(ObjSize, BucketSlots(b)) = 0 /\ Volume(UpRes, BucketSlots(b)) = 0
      /\ \A s : Volume(ObjSize, ObjectsOn(s)) = 0 /\ Volume(UpSRes, UploadsOn(s)) = 0
  BY <1>1, <1>2, VolumeZero
<1> QED BY <1>3 DEF Init, ObjectAccounting, UploadAccounting

(* A bucket without a row has nothing to its name, and neither has a source. *)
LEMMA AbsentIsEmpty ==
  ASSUME TypeOK, RowsHaveParents
  PROVE  /\ \A b \in Buckets : status[b] = "absent" =>
              Volume(ObjSize, BucketSlots(b)) = 0 /\ Volume(UpRes, BucketSlots(b)) = 0
         /\ \A s \in Sources : s \notin attached => ObjectsOn(s) = {} /\ UploadsOn(s) = {}
<1>1. ASSUME NEW b \in Buckets, status[b] = "absent"
      PROVE  Volume(ObjSize, BucketSlots(b)) = 0 /\ Volume(UpRes, BucketSlots(b)) = 0
  <2>1. \A x \in BucketSlots(b) : ObjSize[x] = 0 /\ UpRes[x] = 0
    BY <1>1, SlotTypes DEF BucketSlots, RowsHaveParents, HasObject, HasUpload, ObjSize, UpRes
  <2> QED BY <2>1, VolumeZero
<1>2. \A s \in Sources : s \notin attached => ObjectsOn(s) = {} /\ UploadsOn(s) = {}
  BY DistinctAssumption DEF RowsHaveParents, ObjectsOn, UploadsOn
<1> QED BY <1>1, <1>2

(* The removal of a bucket takes exactly its rows out of every total. *)
LEMMA FinishMove ==
  ASSUME TypeOK, NEW b \in Buckets, FinishBucketDeletion(b)
  PROVE  /\ \A c \in Buckets :
              /\ Volume(ObjSize', BucketSlots(c))
                   = IF c = b THEN 0 ELSE Volume(ObjSize, BucketSlots(c))
              /\ Volume(UpRes', BucketSlots(c))
                   = IF c = b THEN 0 ELSE Volume(UpRes, BucketSlots(c))
         /\ \A s \in Sources :
              /\ Volume(ObjSize, ObjectsOn(s))
                   = Volume(ObjSize, BucketSlots(b) \cap ObjectsOn(s))
                     + Volume(ObjSize', ObjectsOn(s)')
              /\ Volume(UpSRes, UploadsOn(s))
                   = Volume(UpSRes, BucketSlots(b) \cap UploadsOn(s))
                     + Volume(UpSRes', UploadsOn(s)')
              /\ Volume(ObjSize, BucketSlots(b) \cap ObjectsOn(s)) \in Nat
              /\ Volume(UpSRes, BucketSlots(b) \cap UploadsOn(s)) \in Nat
              /\ Volume(ObjSize', ObjectsOn(s)') \in Nat
              /\ Volume(UpSRes', UploadsOn(s)') \in Nat
<1>1. \A x \in Slots :
        /\ ObjSize'[x] = IF x[1] = b THEN 0 ELSE ObjSize[x]
        /\ UpRes'[x] = IF x[1] = b THEN 0 ELSE UpRes[x]
        /\ UpSRes'[x] = IF x[1] = b THEN 0 ELSE UpSRes[x]
  BY DEF FinishBucketDeletion, ObjSize, UpRes, UpSRes, NoObject, NoUpload
<1>2. \A c : BucketSlots(c) \subseteq Slots /\ \A x \in BucketSlots(c) : x[1] = c
  BY DEF BucketSlots
<1>3. ASSUME NEW c \in Buckets
      PROVE  /\ Volume(ObjSize', BucketSlots(c))
                  = IF c = b THEN 0 ELSE Volume(ObjSize, BucketSlots(c))
             /\ Volume(UpRes', BucketSlots(c))
                  = IF c = b THEN 0 ELSE Volume(UpRes, BucketSlots(c))
  <2>1. CASE c = b
    <3>1. \A x \in BucketSlots(c) : ObjSize'[x] = 0 /\ UpRes'[x] = 0
      BY <1>1, <1>2, <2>1
    <3> HIDE DEF ObjSize, UpRes
    <3> QED BY <2>1, <3>1, VolumeZero
  <2>2. CASE c # b
    <3>1. \A x \in BucketSlots(c) : ObjSize'[x] = ObjSize[x] /\ UpRes'[x] = UpRes[x]
      BY <1>1, <1>2, <2>2
    <3> HIDE DEF ObjSize, UpRes
    <3> QED BY <2>2, <3>1, VolumeSame
  <2> QED BY <2>1, <2>2
<1>4. ASSUME NEW s \in Sources
      PROVE  /\ Volume(ObjSize, ObjectsOn(s))
                  = Volume(ObjSize, BucketSlots(b) \cap ObjectsOn(s))
                    + Volume(ObjSize', ObjectsOn(s)')
             /\ Volume(ObjSize, BucketSlots(b) \cap ObjectsOn(s)) \in Nat
             /\ Volume(ObjSize', ObjectsOn(s)') \in Nat
  <2> DEFINE S == BucketSlots(b) \cap ObjectsOn(s)
             T == ObjectsOn(s) \ BucketSlots(b)
  <2>1. ObjectsOn(s)' = T /\ T \subseteq Slots /\ S \subseteq Slots
    BY DistinctAssumption DEF FinishBucketDeletion, ObjectsOn, BucketSlots, NoObject
  <2>2. IsFiniteSet(S) /\ IsFiniteSet(T) /\ S \cap T = {} /\ S \cup T = ObjectsOn(s)
    BY <2>1, SlotsFinite, FS_Subset
  <2>3. \A x \in S \cup T : ObjSize[x] \in Nat
    BY <2>1, WeightsNat
  <2>4. \A x \in T : ObjSize'[x] = ObjSize[x]
    BY <1>1, <2>1 DEF BucketSlots
  <2>5. Volume(ObjSize, S \cup T) = Volume(ObjSize, S) + Volume(ObjSize, T)
    BY <2>2, <2>3, VolumeDisjoint
  <2>6. Volume(ObjSize, S) \in Nat /\ Volume(ObjSize, T) \in Nat
    BY <2>2, <2>3, VolumeNat
  <2>7. Volume(ObjSize', T) = Volume(ObjSize, T)
    BY <2>4, VolumeSame
  <2> QED BY <2>1, <2>2, <2>5, <2>6, <2>7
<1>5. ASSUME NEW s \in Sources
      PROVE  /\ Volume(UpSRes, UploadsOn(s))
                  = Volume(UpSRes, BucketSlots(b) \cap UploadsOn(s))
                    + Volume(UpSRes', UploadsOn(s)')
             /\ Volume(UpSRes, BucketSlots(b) \cap UploadsOn(s)) \in Nat
             /\ Volume(UpSRes', UploadsOn(s)') \in Nat
  <2> DEFINE S == BucketSlots(b) \cap UploadsOn(s)
             T == UploadsOn(s) \ BucketSlots(b)
  <2>1. UploadsOn(s)' = T /\ T \subseteq Slots /\ S \subseteq Slots
    BY DistinctAssumption DEF FinishBucketDeletion, UploadsOn, BucketSlots, NoUpload
  <2>2. IsFiniteSet(S) /\ IsFiniteSet(T) /\ S \cap T = {} /\ S \cup T = UploadsOn(s)
    BY <2>1, SlotsFinite, FS_Subset
  <2>3. \A x \in S \cup T : UpSRes[x] \in Nat
    BY <2>1, WeightsNat
  <2>4. \A x \in T : UpSRes'[x] = UpSRes[x]
    BY <1>1, <2>1 DEF BucketSlots
  <2>5. Volume(UpSRes, S \cup T) = Volume(UpSRes, S) + Volume(UpSRes, T)
    BY <2>2, <2>3, VolumeDisjoint
  <2>6. Volume(UpSRes, S) \in Nat /\ Volume(UpSRes, T) \in Nat
    BY <2>2, <2>3, VolumeNat
  <2>7. Volume(UpSRes', T) = Volume(UpSRes, T)
    BY <2>4, VolumeSame
  <2> QED BY <2>1, <2>2, <2>5, <2>6, <2>7
<1> QED BY <1>3, <1>4, <1>5

(* Every transaction moves each counter by what its rows' total moves. *)
LEMMA AccountingStep == IInv /\ TypeOK' /\ [Next]_vars => (ObjectAccounting /\ UploadAccounting)'
<1> SUFFICES ASSUME TypeOK, RowsHaveParents, ObjectAccounting, UploadAccounting,
                    TypeOK', [Next]_vars
             PROVE  ObjectAccounting' /\ UploadAccounting'
  BY DEF IInv
<1>a. \A b : BucketSlots(b)' = BucketSlots(b)
  BY DEF BucketSlots
<1>o. (objects' = objects /\ used' = used /\ sUsed' = sUsed) => ObjectAccounting'
  BY <1>a, TotalsUnchanged DEF ObjectAccounting
<1>u. (uploads' = uploads /\ reserved' = reserved /\ sReserved' = sReserved)
        => UploadAccounting'
  BY <1>a, TotalsUnchanged DEF UploadAccounting
<1>1. ASSUME NEW b \in Buckets, NEW q \in Quotas \cup {Unlimited},
             CreateBucket(b, q) \/ UpdateBucket(b, q)
      PROVE  ObjectAccounting' /\ UploadAccounting'
  <2>1. CASE CreateBucket(b, q)
    <3>1. used[b] = 0 /\ reserved[b] = 0
      BY <2>1, AbsentIsEmpty DEF CreateBucket, ObjectAccounting, UploadAccounting
    <3>2. used' = used /\ reserved' = reserved
      BY <2>1, <3>1 DEF CreateBucket, TypeOK
    <3> QED BY <2>1, <3>2, <1>o, <1>u DEF CreateBucket, sourceVars, rowVars
  <2>2. CASE UpdateBucket(b, q)
    BY <2>2, <1>o, <1>u DEF UpdateBucket, sourceVars, rowVars
  <2> QED BY <1>1, <2>1, <2>2
<1>2. ASSUME NEW s \in Sources, NEW c \in Capacities \cup {Unlimited},
             CreateStorageSource(s, c) \/ UpdateStorageSource(s, c)
      PROVE  ObjectAccounting' /\ UploadAccounting'
  <2>1. CASE CreateStorageSource(s, c)
    <3>1. ObjectsOn(s) = {} /\ UploadsOn(s) = {}
      BY <2>1, AbsentIsEmpty DEF CreateStorageSource
    <3>2. sUsed[s] = 0 /\ sReserved[s] = 0
      BY <3>1, VolumeZero DEF ObjectAccounting, UploadAccounting
    <3>3. sUsed' = sUsed /\ sReserved' = sReserved
      BY <2>1, <3>2 DEF CreateStorageSource, TypeOK
    <3> QED BY <2>1, <3>3, <1>o, <1>u DEF CreateStorageSource, bucketVars, rowVars
  <2>2. CASE UpdateStorageSource(s, c)
    BY <2>2, <1>o, <1>u DEF UpdateStorageSource, bucketVars, rowVars
  <2> QED BY <1>2, <2>1, <2>2
<1>3. ASSUME NEW x \in Slots, NEW s \in Places, NEW n \in Sizes, ReserveObject(x, s, n)
      PROVE  ObjectAccounting' /\ UploadAccounting'
  <2>1. ObjectAccounting'
    BY <1>3, <1>o DEF ReserveObject
  <2>2. \A y \in Slots \ {x} : uploads'[y] = uploads[y]
    BY <1>3 DEF ReserveObject, TypeOK
  <2>3. /\ uploads[x].res = 0 /\ uploads[x].sres = 0 /\ uploads[x].src = None
        /\ uploads'[x].res = Growth(x, n) /\ uploads'[x].sres = SourceGrowth(x, s, n)
        /\ uploads'[x].src = s
    BY <1>3, SlotTypes DEF ReserveObject, TypeOK, HasUpload
  <2>4. Growth(x, n) \in Nat /\ SourceGrowth(x, s, n) \in Nat
    BY NumberAssumption, SlotTypes DEF Growth, SourceGrowth, AtLeastZero
  <2>5. /\ \A b \in Buckets : reserved'[b]
              = IF x[1] = b THEN reserved[b] + Growth(x, n) ELSE reserved[b]
        /\ \A t \in Sources : sReserved'[t]
              = IF s = t THEN sReserved[t] + SourceGrowth(x, s, n) ELSE sReserved[t]
    BY <1>3, SlotTypes, DistinctAssumption DEF ReserveObject, TypeOK, Places
  <2>m. /\ \A b \in Buckets : Volume(UpRes', BucketSlots(b))
              = reserved[b] - (IF x[1] = b THEN uploads[x].res ELSE 0)
                            + (IF x[1] = b THEN uploads'[x].res ELSE 0)
        /\ \A t \in Sources : Volume(UpSRes', UploadsOn(t)')
              = sReserved[t] - (IF uploads[x].src = t THEN uploads[x].sres ELSE 0)
                             + (IF uploads'[x].src = t THEN uploads'[x].sres ELSE 0)
    BY <2>2, UploadMove DEF UploadAccounting
  <2>n. /\ \A b \in Buckets : reserved[b] \in Nat
        /\ \A t \in Sources : sReserved[t] \in Nat
    BY DEF TypeOK
  <2>6. \A b \in Buckets : reserved'[b] = Volume(UpRes', BucketSlots(b))
    BY <2>3, <2>4, <2>5, <2>m, <2>n
  <2>7. \A t \in Sources : sReserved'[t] = Volume(UpSRes', UploadsOn(t)')
    BY <2>3, <2>4, <2>5, <2>m, <2>n, DistinctAssumption
  <2> QED BY <1>a, <2>1, <2>6, <2>7 DEF UploadAccounting
<1>r. ASSUME NEW x \in Slots, HasUpload(x), ReleaseUpload(x)
      PROVE  UploadAccounting'
  <2>1. \A y \in Slots \ {x} : uploads'[y] = uploads[y]
    BY <1>r DEF ReleaseUpload, TypeOK
  <2>2. uploads'[x].res = 0 /\ uploads'[x].sres = 0 /\ uploads'[x].src = None
    BY <1>r DEF ReleaseUpload, TypeOK, NoUpload
  <2>3. /\ \A b \in Buckets : reserved'[b]
              = IF x[1] = b THEN AtLeastZero(reserved[b] - uploads[x].res) ELSE reserved[b]
        /\ \A t \in Sources : sReserved'[t]
              = IF uploads[x].src = t THEN AtLeastZero(sReserved[t] - uploads[x].sres)
                ELSE sReserved[t]
    BY <1>r, SlotTypes, DistinctAssumption DEF ReleaseUpload, HasUpload, TypeOK, Places
  <2>4. \A b \in Buckets : reserved'[b] = Volume(UpRes', BucketSlots(b))
    BY <2>1, <2>2, <2>3, UploadMove, SlotTypes DEF UploadAccounting, TypeOK, AtLeastZero
  <2>5. ASSUME NEW t \in Sources
        PROVE  sReserved'[t] = Volume(UpSRes', UploadsOn(t)')
    <3>1. /\ Volume(UpSRes', UploadsOn(t)')
               = sReserved[t] - (IF uploads[x].src = t THEN uploads[x].sres ELSE 0)
                              + (IF uploads'[x].src = t THEN uploads'[x].sres ELSE 0)
          /\ sReserved[t] >= (IF uploads[x].src = t THEN uploads[x].sres ELSE 0)
      BY <2>1, UploadMove DEF UploadAccounting
    <3>2. sReserved[t] \in Nat /\ uploads[x].sres \in Nat
      BY SlotTypes DEF TypeOK
    <3>3. uploads'[x].src # t
      BY <2>2, DistinctAssumption
    <3> QED BY <2>3, <3>1, <3>2, <3>3 DEF AtLeastZero
  <2> QED BY <1>a, <2>4, <2>5 DEF UploadAccounting
<1>4. ASSUME NEW x \in Slots, CancelUpload(x)
      PROVE  ObjectAccounting' /\ UploadAccounting'
  BY <1>4, <1>o, <1>r DEF CancelUpload
<1>5. ASSUME NEW x \in Slots, CommitUpload(x)
      PROVE  ObjectAccounting' /\ UploadAccounting'
  <2>1. UploadAccounting'
    BY <1>5, <1>r DEF CommitUpload
  <2>2. \A y \in Slots \ {x} : objects'[y] = objects[y]
    BY <1>5 DEF CommitUpload, TypeOK
  <2>3. objects'[x].src = uploads[x].src /\ objects'[x].size = uploads[x].size
    BY <1>5 DEF CommitUpload, TypeOK
  <2>4. \A b \in Buckets : used'[b]
          = IF x[1] = b THEN AtLeastZero(used[b] - objects[x].size) + uploads[x].size
            ELSE used[b]
    BY <1>5, SlotTypes DEF CommitUpload, TypeOK
  <2>5. \A s \in Sources :
          LET charged == IF s = uploads[x].src THEN sUsed[s] + uploads[x].size ELSE sUsed[s]
          IN  sUsed'[s] = IF s = objects[x].src THEN AtLeastZero(charged - objects[x].size)
                          ELSE charged
    BY <1>5 DEF CommitUpload
  <2>6. \A b \in Buckets : used'[b] = Volume(ObjSize', BucketSlots(b))
    BY <2>2, <2>3, <2>4, ObjectMove, SlotTypes DEF ObjectAccounting, TypeOK, AtLeastZero
  <2>7. \A s \in Sources : sUsed'[s] = Volume(ObjSize', ObjectsOn(s)')
    BY <2>2, <2>3, <2>5, ObjectMove, SlotTypes DEF ObjectAccounting, TypeOK, AtLeastZero
  <2> QED BY <1>a, <2>1, <2>6, <2>7 DEF ObjectAccounting
<1>6. ASSUME NEW x \in Slots, DeleteObject(x)
      PROVE  ObjectAccounting' /\ UploadAccounting'
  <2>1. UploadAccounting'
    BY <1>6, <1>u DEF DeleteObject
  <2>2. \A y \in Slots \ {x} : objects'[y] = objects[y]
    BY <1>6 DEF DeleteObject, TypeOK
  <2>3. objects'[x].src = None /\ objects'[x].size = 0
    BY <1>6 DEF DeleteObject, TypeOK, NoObject
  <2>4. /\ \A b \in Buckets : used'[b]
              = IF x[1] = b THEN AtLeastZero(used[b] - objects[x].size) ELSE used[b]
        /\ \A s \in Sources : sUsed'[s]
              = IF objects[x].src = s THEN AtLeastZero(sUsed[s] - objects[x].size)
                ELSE sUsed[s]
    BY <1>6, SlotTypes, DistinctAssumption DEF DeleteObject, HasObject, TypeOK, Places
  <2>5. \A b \in Buckets : used'[b] = Volume(ObjSize', BucketSlots(b))
    BY <2>2, <2>3, <2>4, ObjectMove, SlotTypes DEF ObjectAccounting, TypeOK, AtLeastZero
  <2>6. ASSUME NEW s \in Sources
        PROVE  sUsed'[s] = Volume(ObjSize', ObjectsOn(s)')
    <3>1. /\ Volume(ObjSize', ObjectsOn(s)')
               = sUsed[s] - (IF objects[x].src = s THEN objects[x].size ELSE 0)
                          + (IF objects'[x].src = s THEN objects'[x].size ELSE 0)
          /\ sUsed[s] >= (IF objects[x].src = s THEN objects[x].size ELSE 0)
      BY <2>2, ObjectMove DEF ObjectAccounting
    <3>2. sUsed[s] \in Nat /\ objects[x].size \in Nat
      BY SlotTypes DEF TypeOK
    <3>3. objects'[x].src # s
      BY <2>3, DistinctAssumption
    <3> QED BY <2>4, <3>1, <3>2, <3>3 DEF AtLeastZero
  <2> QED BY <1>a, <2>1, <2>5, <2>6 DEF ObjectAccounting
<1>7. ASSUME NEW b \in Buckets, BeginBucketDeletion(b)
      PROVE  ObjectAccounting' /\ UploadAccounting'
  BY <1>7, <1>o, <1>u DEF BeginBucketDeletion, sourceVars, rowVars
<1>8. ASSUME NEW b \in Buckets, FinishBucketDeletion(b)
      PROVE  ObjectAccounting' /\ UploadAccounting'
  <2>1. ASSUME NEW c \in Buckets
        PROVE  /\ used'[c] = Volume(ObjSize', BucketSlots(c))
               /\ reserved'[c] = Volume(UpRes', BucketSlots(c))
    <3>1. /\ Volume(ObjSize', BucketSlots(c)) = IF c = b THEN 0 ELSE used[c]
          /\ Volume(UpRes', BucketSlots(c)) = IF c = b THEN 0 ELSE reserved[c]
      BY <1>8, FinishMove DEF ObjectAccounting, UploadAccounting
    <3>2. /\ used'[c] = IF c = b THEN 0 ELSE used[c]
          /\ reserved'[c] = IF c = b THEN 0 ELSE reserved[c]
      BY <1>8 DEF FinishBucketDeletion, TypeOK
    <3> QED BY <3>1, <3>2
  <2>2. ASSUME NEW s \in Sources
        PROVE  /\ sUsed'[s] = Volume(ObjSize', ObjectsOn(s)')
               /\ sReserved'[s] = Volume(UpSRes', UploadsOn(s)')
    <3> DEFINE mu == Volume(ObjSize, BucketSlots(b) \cap ObjectsOn(s))
               mr == Volume(UpSRes, BucketSlots(b) \cap UploadsOn(s))
               nu == Volume(ObjSize', ObjectsOn(s)')
               nr == Volume(UpSRes', UploadsOn(s)')
    <3>1. /\ sUsed[s] = mu + nu /\ sReserved[s] = mr + nr
          /\ mu \in Nat /\ mr \in Nat /\ nu \in Nat /\ nr \in Nat
      BY <1>8, FinishMove DEF ObjectAccounting, UploadAccounting
    <3>2. s \notin attached => mu = 0 /\ mr = 0
      <4>1. s \notin attached => BucketSlots(b) \cap ObjectsOn(s) = {}
                                 /\ BucketSlots(b) \cap UploadsOn(s) = {}
        BY AbsentIsEmpty
      <4> QED BY <4>1, VolumeZero
    <3>3. /\ sUsed'[s] = IF s \in attached THEN AtLeastZero(sUsed[s] - mu) ELSE sUsed[s]
          /\ sReserved'[s] = IF s \in attached THEN AtLeastZero(sReserved[s] - mr)
                             ELSE sReserved[s]
      BY <1>8 DEF FinishBucketDeletion
    <3> HIDE DEF mu, mr, nu, nr
    <3>4. sUsed'[s] = nu /\ sReserved'[s] = nr
      BY <3>1, <3>2, <3>3 DEF AtLeastZero
    <3> QED BY <3>4 DEF nu, nr
  <2> QED BY <1>a, <2>1, <2>2 DEF ObjectAccounting, UploadAccounting
<1>9. CASE UNCHANGED vars
  BY <1>9, <1>o, <1>u DEF vars, bucketVars, sourceVars, rowVars
<1> QED
  BY <1>1, <1>2, <1>3, <1>4, <1>5, <1>6, <1>7, <1>8, <1>9 DEF Next

(* In every reachable state every used and reserved counter equals the sum
   over the rows it summarises. *)
THEOREM AccountingCorrect == Spec => []Accounting
<1>1. Init => IInv
  BY TypeInit, ParentsInit, AccountingInit DEF IInv
<1>2. IInv /\ [Next]_vars => IInv'
  BY TypeStep, ParentsStep, AccountingStep DEF IInv
<1>3. IInv => Accounting
  BY AccountingHalves DEF IInv
<1> QED BY <1>1, <1>2, <1>3, PTL DEF Spec

(* No row outlives its bucket or the source its bytes are on (the guards of
   FinishBucketDeletion and the foreign keys). *)
THEOREM ParentsCorrect == Spec => []RowsHaveParents
<1>1. TypeOK /\ RowsHaveParents /\ [Next]_vars => TypeOK' /\ RowsHaveParents'
  BY TypeStep, ParentsStep
<1> QED BY <1>1, TypeInit, ParentsInit, PTL DEF Spec

-----------------------------------------------------------------------------
(* The limits: the counts, the quotas and capacities, and what a bucket that *)
(* is being deleted still does.                                              *)

(* A bucket that is being deleted only loses rows: every transaction that    *)
(* adds one requires the bucket to be active (requireActiveBucket).          *)
THEOREM DeletionShrinks == Spec => DeletingOnlyShrinks
<1> DEFINE Shrinks == \A b \in Buckets : status[b] = "deleting" /\ status'[b] = "deleting" =>
                        /\ quota'[b] = quota[b]
                        /\ \A x \in BucketSlots(b) : /\ objects'[x] \in {objects[x], NoObject}
                                                     /\ uploads'[x] \in {uploads[x], NoUpload}
<1>1. TypeOK /\ [Next]_vars => [Shrinks]_vars
  <2> SUFFICES ASSUME TypeOK, Next, NEW b \in Buckets, status[b] = "deleting", status'[b] = "deleting"
               PROVE  /\ quota'[b] = quota[b]
                      /\ \A x \in BucketSlots(b) : /\ objects'[x] \in {objects[x], NoObject}
                                                   /\ uploads'[x] \in {uploads[x], NoUpload}
    OBVIOUS
  <2>0. \A x \in BucketSlots(b) : x \in Slots /\ x[1] = b
    BY DEF BucketSlots
  <2>1. ASSUME NEW c \in Buckets, NEW q \in Quotas \cup {Unlimited}, CreateBucket(c, q) \/ UpdateBucket(c, q)
        PROVE  quota'[b] = quota[b] /\ UNCHANGED rowVars
    BY <2>1 DEF CreateBucket, UpdateBucket, TypeOK
  <2>2. ASSUME NEW s \in Sources, NEW c \in Capacities \cup {Unlimited},
               CreateStorageSource(s, c) \/ UpdateStorageSource(s, c)
        PROVE  quota'[b] = quota[b] /\ UNCHANGED rowVars
    BY <2>2 DEF CreateStorageSource, UpdateStorageSource, bucketVars
  <2>3. ASSUME NEW y \in Slots, NEW s \in Places, NEW n \in Sizes, ReserveObject(y, s, n)
        PROVE  quota'[b] = quota[b] /\ UNCHANGED objects /\ \A x \in BucketSlots(b) : uploads'[x] = uploads[x]
    BY <2>0, <2>3 DEF ReserveObject, TypeOK
  <2>4. ASSUME NEW y \in Slots, CancelUpload(y) \/ DeleteObject(y)
        PROVE  quota'[b] = quota[b] /\ \A x \in BucketSlots(b) : /\ objects'[x] \in {objects[x], NoObject}
                                                                /\ uploads'[x] \in {uploads[x], NoUpload}
    BY <2>0, <2>4 DEF CancelUpload, ReleaseUpload, DeleteObject, TypeOK
  <2>5. ASSUME NEW y \in Slots, CommitUpload(y)
        PROVE  quota'[b] = quota[b] /\ \A x \in BucketSlots(b) : objects'[x] = objects[x] /\ uploads'[x] = uploads[x]
    BY <2>0, <2>5 DEF CommitUpload, ReleaseUpload, TypeOK
  <2>6. ASSUME NEW c \in Buckets, BeginBucketDeletion(c) \/ FinishBucketDeletion(c)
        PROVE  quota'[b] = quota[b] /\ \A x \in BucketSlots(b) : objects'[x] = objects[x] /\ uploads'[x] = uploads[x]
    BY <2>0, <2>6 DEF BeginBucketDeletion, FinishBucketDeletion, rowVars, TypeOK
  <2> QED BY <2>1, <2>2, <2>3, <2>4, <2>5, <2>6 DEF Next, rowVars
<1> QED BY <1>1, TypeInit, TypeStep, PTL DEF Spec, DeletingOnlyShrinks

-----------------------------------------------------------------------------
(* The keys of a bucket.  The bound is inductive: a reservation that adds a   *)
(* key finds fewer than MaxObjects objects and fewer than MaxPending uploads, *)
(* and every other transaction adds none.                                     *)

KeysOf(b) == {x \in BucketSlots(b) : HasObject(x) \/ HasUpload(x)}

(* The keys are no more than the objects and the uploads together. *)
LEMMA KeysCounted ==
  ASSUME NEW b \in Buckets
  PROVE  /\ IsFiniteSet(KeysOf(b)) /\ Cardinality(KeysOf(b)) \in Nat
         /\ ObjectCount(b) \in Nat /\ PendingCount(b) \in Nat
         /\ Cardinality(KeysOf(b)) <= ObjectCount(b) + PendingCount(b)
<1> DEFINE O == {x \in BucketSlots(b) : HasObject(x)}
           U == {x \in BucketSlots(b) : HasUpload(x)}
<1>1. IsFiniteSet(BucketSlots(b))
  BY SlotsFinite
<1>2. IsFiniteSet(O) /\ IsFiniteSet(U) /\ IsFiniteSet(O \cap U)
  BY <1>1, FS_Subset
<1>3. KeysOf(b) = O \cup U
  BY DEF KeysOf
<1>4. /\ IsFiniteSet(O \cup U)
      /\ Cardinality(O \cup U) = Cardinality(O) + Cardinality(U) - Cardinality(O \cap U)
  BY <1>2, FS_Union
<1>5. Cardinality(O) \in Nat /\ Cardinality(U) \in Nat /\ Cardinality(O \cap U) \in Nat
      /\ Cardinality(O \cup U) \in Nat
  BY <1>2, <1>4, FS_CardinalityType
<1> HIDE DEF O, U
<1> QED BY <1>3, <1>4, <1>5 DEF ObjectCount, PendingCount, O, U

(* A transaction that adds no key keeps the bound. *)
LEMMA NoKeyAdded ==
  ASSUME KeyCountBound, \A b \in Buckets : KeysOf(b)' \subseteq KeysOf(b)
  PROVE  KeyCountBound'
<1> SUFFICES ASSUME NEW b \in Buckets
             PROVE  Cardinality(KeysOf(b)') <= MaxObjects + MaxPending - 1
  BY DEF KeyCountBound, KeysOf
<1>1. Cardinality(KeysOf(b)') <= Cardinality(KeysOf(b)) /\ Cardinality(KeysOf(b)') \in Nat
  BY KeysCounted, FS_Subset, FS_CardinalityType
<1>2. Cardinality(KeysOf(b)) <= MaxObjects + MaxPending - 1
  BY DEF KeyCountBound, KeysOf
<1> QED BY <1>1, <1>2, KeysCounted, NumberAssumption

LEMMA KeyCountStep == TypeOK /\ KeyCountBound /\ [Next]_vars => KeyCountBound'
<1> SUFFICES ASSUME TypeOK, KeyCountBound, [Next]_vars PROVE KeyCountBound'
  OBVIOUS
<1>0. ASSUME UNCHANGED rowVars PROVE KeyCountBound'
  BY <1>0, NoKeyAdded DEF KeysOf, HasObject, HasUpload, rowVars, BucketSlots
<1>1. ASSUME NEW b \in Buckets, NEW q \in Quotas \cup {Unlimited}, CreateBucket(b, q) \/ UpdateBucket(b, q)
      PROVE  KeyCountBound'
  BY <1>0, <1>1 DEF CreateBucket, UpdateBucket
<1>2. ASSUME NEW s \in Sources, NEW c \in Capacities \cup {Unlimited},
             CreateStorageSource(s, c) \/ UpdateStorageSource(s, c)
      PROVE  KeyCountBound'
  BY <1>0, <1>2 DEF CreateStorageSource, UpdateStorageSource
<1>3. ASSUME NEW x \in Slots, NEW s \in Places, NEW n \in Sizes, ReserveObject(x, s, n)
      PROVE  KeyCountBound'
  <2>1. UNCHANGED objects /\ \A y \in Slots : y # x => uploads'[y] = uploads[y]
    BY <1>3 DEF ReserveObject, TypeOK
  <2>2. \A b \in Buckets : KeysOf(b)' \subseteq KeysOf(b) \cup {x}
    BY <2>1 DEF KeysOf, HasObject, HasUpload, BucketSlots
  <2>3. \A b \in Buckets : b # x[1] => KeysOf(b)' \subseteq KeysOf(b)
    BY <2>2 DEF KeysOf, BucketSlots
  <2>4. CASE HasObject(x)
    <3>1. \A b \in Buckets : KeysOf(b)' \subseteq KeysOf(b)
      <4>1. x \in KeysOf(x[1])
        BY <2>4 DEF KeysOf, BucketSlots
      <4> QED BY <2>2, <2>3, <4>1
    <3> QED BY <3>1, NoKeyAdded
  <2>5. CASE ~HasObject(x)
    <3> SUFFICES ASSUME NEW b \in Buckets
                 PROVE  Cardinality(KeysOf(b)') <= MaxObjects + MaxPending - 1
      BY DEF KeyCountBound, KeysOf
    <3>1. IsFiniteSet(KeysOf(b) \cup {x}) /\ Cardinality(KeysOf(b) \cup {x}) <= Cardinality(KeysOf(b)) + 1
      <4>1. IsFiniteSet(KeysOf(b)) /\ Cardinality(KeysOf(b)) \in Nat
        BY KeysCounted
      <4> HIDE DEF KeysOf
      <4>2. /\ IsFiniteSet(KeysOf(b) \cup {x})
            /\ Cardinality(KeysOf(b) \cup {x}) = IF x \in KeysOf(b) THEN Cardinality(KeysOf(b))
                                                 ELSE Cardinality(KeysOf(b)) + 1
        BY <4>1, FS_AddElement
      <4> QED BY <4>1, <4>2
    <3>2. Cardinality(KeysOf(b)') <= Cardinality(KeysOf(b) \cup {x}) /\ Cardinality(KeysOf(b)') \in Nat
          /\ Cardinality(KeysOf(b) \cup {x}) \in Nat
      BY <2>2, <3>1, FS_Subset, FS_CardinalityType
    <3>3. CASE b = x[1]
      <4>1. PendingCount(b) < MaxPending /\ ObjectCount(b) < MaxObjects
        BY <1>3, <2>5, <3>3 DEF ReserveObject, AdmitsCount
      <4> QED BY <3>1, <3>2, <4>1, KeysCounted, NumberAssumption
    <3>4. CASE b # x[1]
      <4>1. Cardinality(KeysOf(b)') <= Cardinality(KeysOf(b))
        BY <2>3, <3>4, KeysCounted, FS_Subset
      <4>2. Cardinality(KeysOf(b)) <= MaxObjects + MaxPending - 1
        BY DEF KeyCountBound, KeysOf
      <4> QED BY <3>2, <4>1, <4>2, KeysCounted, NumberAssumption
    <3> QED BY <3>3, <3>4
  <2> QED BY <2>4, <2>5
<1>4. ASSUME NEW x \in Slots, CancelUpload(x) \/ CommitUpload(x) \/ DeleteObject(x) PROVE KeyCountBound'
  <2>1. \A y \in Slots : y # x => objects'[y] = objects[y] /\ uploads'[y] = uploads[y]
    BY <1>4 DEF CancelUpload, CommitUpload, DeleteObject, ReleaseUpload, TypeOK
  <2>2. HasObject(x) \/ HasUpload(x)
    BY <1>4 DEF CancelUpload, CommitUpload, DeleteObject
  <2>3. \A b \in Buckets : KeysOf(b)' \subseteq KeysOf(b)
    BY <2>1, <2>2 DEF KeysOf, HasObject, HasUpload, BucketSlots
  <2> QED BY <2>3, NoKeyAdded
<1>5. ASSUME NEW b \in Buckets, BeginBucketDeletion(b) PROVE KeyCountBound'
  BY <1>0, <1>5 DEF BeginBucketDeletion
<1>6. ASSUME NEW b \in Buckets, FinishBucketDeletion(b) PROVE KeyCountBound'
  <2>1. \A y \in Slots : objects'[y] \in {objects[y], NoObject} /\ uploads'[y] \in {uploads[y], NoUpload}
    BY <1>6 DEF FinishBucketDeletion
  <2>2. \A c \in Buckets : KeysOf(c)' \subseteq KeysOf(c)
    BY <2>1 DEF KeysOf, HasObject, HasUpload, BucketSlots, NoObject, NoUpload
  <2> QED BY <2>2, NoKeyAdded
<1>7. CASE UNCHANGED vars
  BY <1>0, <1>7 DEF vars
<1> QED BY <1>1, <1>2, <1>3, <1>4, <1>5, <1>6, <1>7 DEF Next

(* The keys of a bucket, stored or promised, pass the object limit by less   *)
(* than the limit of pending uploads, in whatever order uploads are admitted *)
(* and committed (the two COUNT queries of ReserveObject).                   *)
THEOREM KeyCountCorrect == Spec => []KeyCountBound
<1>1. Init => KeyCountBound
  <2> SUFFICES ASSUME Init, NEW b \in Buckets
               PROVE  Cardinality(KeysOf(b)) <= MaxObjects + MaxPending - 1
    BY DEF KeyCountBound, KeysOf
  <2>1. KeysOf(b) = {}
    BY DEF Init, KeysOf, HasObject, HasUpload, NoObject, NoUpload, BucketSlots
  <2> QED BY <2>1, FS_EmptySet, NumberAssumption
<1> QED BY <1>1, TypeInit, TypeStep, KeyCountStep, PTL DEF Spec

-----------------------------------------------------------------------------
(* Quotas and capacities.  Nothing but a stale reservation takes a bucket or  *)
(* a source over its limit: what a reservation adds was admitted, and what a  *)
(* commit charges beyond the reservation is released with the old object.     *)
(* That needs the accounting: MAX(0, n - m) would otherwise release less.     *)

(* A row's bytes are part of its bucket's and its source's counters. *)
LEMMA RowsCharged ==
  ASSUME IInv, NEW x \in Slots
  PROVE  /\ used[x[1]] >= objects[x].size /\ reserved[x[1]] >= uploads[x].res
         /\ \A s \in Sources : /\ objects[x].src = s => sUsed[s] >= objects[x].size
                               /\ uploads[x].src = s => sReserved[s] >= uploads[x].sres
<1>1. TypeOK /\ x[1] \in Buckets /\ x \in BucketSlots(x[1])
  BY SlotTypes DEF IInv, BucketSlots
<1>2. \A y \in Slots : /\ ObjSize[y] = objects[y].size /\ ObjSize[y] \in Nat
                       /\ UpRes[y] = uploads[y].res /\ UpRes[y] \in Nat
                       /\ UpSRes[y] = uploads[y].sres /\ UpSRes[y] \in Nat
  BY <1>1, WeightsNat
<1>3. ASSUME NEW S, IsFiniteSet(S), x \in S, NEW w, \A y \in S : w[y] \in Nat
      PROVE  Volume(w, S) >= w[x]
  <2>1. Volume(w, S) = Volume(w, S \ {x}) + w[x] /\ Volume(w, S \ {x}) \in Nat
    BY <1>3, VolumeSplit
  <2> QED BY <1>3, <2>1
<1>4. /\ IsFiniteSet(BucketSlots(x[1])) /\ BucketSlots(x[1]) \subseteq Slots
      /\ \A s : /\ IsFiniteSet(ObjectsOn(s)) /\ ObjectsOn(s) \subseteq Slots
               /\ IsFiniteSet(UploadsOn(s)) /\ UploadsOn(s) \subseteq Slots
  BY SlotsFinite DEF BucketSlots, ObjectsOn, UploadsOn
<1> HIDE DEF ObjSize, UpRes, UpSRes
<1>5. used[x[1]] >= objects[x].size
  <2>1. Volume(ObjSize, BucketSlots(x[1])) >= ObjSize[x]
    BY <1>1, <1>2, <1>3, <1>4
  <2> QED BY <1>1, <1>2, <2>1 DEF IInv, ObjectAccounting
<1>6. reserved[x[1]] >= uploads[x].res
  <2>1. Volume(UpRes, BucketSlots(x[1])) >= UpRes[x]
    BY <1>1, <1>2, <1>3, <1>4
  <2> QED BY <1>1, <1>2, <2>1 DEF IInv, UploadAccounting
<1>7. ASSUME NEW s \in Sources, objects[x].src = s PROVE sUsed[s] >= objects[x].size
  <2>1. x \in ObjectsOn(s)
    BY <1>7 DEF ObjectsOn
  <2>2. Volume(ObjSize, ObjectsOn(s)) >= ObjSize[x]
    BY <1>2, <1>3, <1>4, <2>1
  <2> QED BY <1>2, <2>2 DEF IInv, ObjectAccounting
<1>8. ASSUME NEW s \in Sources, uploads[x].src = s PROVE sReserved[s] >= uploads[x].sres
  <2>1. x \in UploadsOn(s)
    BY <1>8 DEF UploadsOn
  <2>2. Volume(UpSRes, UploadsOn(s)) >= UpSRes[x]
    BY <1>2, <1>3, <1>4, <2>1
  <2> QED BY <1>2, <2>2 DEF IInv, UploadAccounting
<1> QED BY <1>5, <1>6, <1>7, <1>8

(* Admission does not let the sum pass the limit unless it passes int64. *)
LEMMA Admitted ==
  ASSUME NEW u \in Nat, NEW r \in Nat, NEW g \in Nat, NEW q \in Nat,
         Add64(Add64(u, r), g) <= q
  PROVE  u + r + g <= q \/ u + r + g > MaxInt
BY NumberAssumption DEF Add64

(* The excuse for a bucket and for a source that pass their limit. *)
BucketExcess(b) ==
  BucketWithin(b) /\ ~BucketWithin(b)' =>
    \/ \E x \in BucketSlots(b) : StaleReservation(x) /\ ~HasUpload(x)'
    \/ used'[b] + reserved'[b] > MaxInt
SourceExcess(s) ==
  SourceWithin(s) /\ ~SourceWithin(s)' =>
    \/ \E x \in UploadsOn(s) : StaleSourceReservation(x) /\ ~HasUpload(x)'
    \/ sUsed'[s] + sReserved'[s] > MaxInt

(* A bucket whose charge does not grow keeps within its limit; so does a     *)
(* source.                                                                   *)
LEMMA NoBucketGrowth ==
  ASSUME TypeOK, TypeOK', NEW b \in Buckets, quota'[b] = quota[b],
         used'[b] + reserved'[b] <= used[b] + reserved[b]
  PROVE  BucketExcess(b)
BY DistinctAssumption DEF BucketExcess, BucketWithin, TypeOK

LEMMA NoSourceGrowth ==
  ASSUME TypeOK, TypeOK', NEW s \in Sources, capacity'[s] = capacity[s],
         sUsed'[s] + sReserved'[s] <= sUsed[s] + sReserved[s]
  PROVE  SourceExcess(s)
BY DistinctAssumption DEF SourceExcess, SourceWithin, TypeOK

LEMMA ExcessStep ==
  ASSUME IInv, TypeOK', [Next]_vars
  PROVE  (\A b \in Buckets : BucketExcess(b)) /\ (\A s \in Sources : SourceExcess(s))
<1> DEFINE Goal == (\A b \in Buckets : BucketExcess(b)) /\ (\A s \in Sources : SourceExcess(s))
<1>0. /\ TypeOK
      /\ \A b \in Buckets : used[b] \in Nat /\ reserved[b] \in Nat /\ quota[b] \in Nat \cup {Unlimited}
                             /\ used'[b] \in Nat /\ reserved'[b] \in Nat
      /\ \A s \in Sources : sUsed[s] \in Nat /\ sReserved[s] \in Nat /\ capacity[s] \in Nat \cup {Unlimited}
                             /\ sUsed'[s] \in Nat /\ sReserved'[s] \in Nat
  BY DEF IInv, TypeOK
<1>b. ASSUME UNCHANGED <<quota, used, reserved>> PROVE \A b \in Buckets : BucketExcess(b)
  BY <1>b, <1>0, NoBucketGrowth
<1>s. ASSUME UNCHANGED <<capacity, sUsed, sReserved>> PROVE \A s \in Sources : SourceExcess(s)
  BY <1>s, <1>0, NoSourceGrowth
<1>1. ASSUME NEW b \in Buckets, NEW q \in Quotas \cup {Unlimited}, CreateBucket(b, q) \/ UpdateBucket(b, q)
      PROVE  Goal
  <2>1. \A s \in Sources : SourceExcess(s)
    BY <1>1, <1>s DEF CreateBucket, UpdateBucket, sourceVars
  <2>2. ASSUME NEW c \in Buckets, c # b PROVE BucketExcess(c)
    <3>1. quota'[c] = quota[c] /\ used'[c] = used[c] /\ reserved'[c] = reserved[c]
      BY <1>0, <1>1, <2>2 DEF CreateBucket, UpdateBucket, TypeOK
    <3> QED BY <1>0, <3>1, NoBucketGrowth
  <2>3. CASE CreateBucket(b, q)
    <3>1. quota'[b] = q /\ used'[b] = 0 /\ reserved'[b] = 0 /\ (q # Unlimited => q > 0)
      BY <1>0, <2>3 DEF CreateBucket, TypeOK
    <3>2. BucketExcess(b)
      <4>1. q = Unlimited \/ q \in Nat
        BY NumberAssumption
      <4>2. BucketWithin(b)'
        BY <3>1, <4>1 DEF BucketWithin
      <4> QED BY <4>2 DEF BucketExcess
    <3> QED BY <2>1, <2>2, <3>2
  <2>4. CASE UpdateBucket(b, q)
    <3>1. /\ quota'[b] = q /\ used'[b] = used[b] /\ reserved'[b] = reserved[b]
          /\ q # Unlimited => q >= Add64(used[b], reserved[b]) /\ q \in Nat
      BY <1>0, <2>4, NumberAssumption DEF UpdateBucket, TypeOK
    <3>2. BucketExcess(b)
      BY <1>0, <3>1, NumberAssumption DEF BucketExcess, BucketWithin, Add64
    <3> QED BY <2>1, <2>2, <3>2
  <2> QED BY <1>1, <2>3, <2>4
<1>2. ASSUME NEW s \in Sources, NEW c \in Capacities \cup {Unlimited},
             CreateStorageSource(s, c) \/ UpdateStorageSource(s, c)
      PROVE  Goal
  <2>1. \A b \in Buckets : BucketExcess(b)
    BY <1>2, <1>b DEF CreateStorageSource, UpdateStorageSource, bucketVars
  <2>2. ASSUME NEW t \in Sources, t # s PROVE SourceExcess(t)
    <3>1. capacity'[t] = capacity[t] /\ sUsed'[t] = sUsed[t] /\ sReserved'[t] = sReserved[t]
      BY <1>0, <1>2, <2>2 DEF CreateStorageSource, UpdateStorageSource, TypeOK
    <3> QED BY <1>0, <3>1, NoSourceGrowth
  <2>3. c # Unlimited => c \in Nat
    BY NumberAssumption
  <2>4. CASE CreateStorageSource(s, c)
    <3>1. capacity'[s] = c /\ sUsed'[s] = 0 /\ sReserved'[s] = 0
      BY <1>0, <2>4 DEF CreateStorageSource, TypeOK
    <3>2. SourceExcess(s)
      BY <2>3, <3>1 DEF SourceExcess, SourceWithin
    <3> QED BY <2>1, <2>2, <3>2
  <2>5. CASE UpdateStorageSource(s, c)
    <3>1. /\ capacity'[s] = c /\ sUsed'[s] = sUsed[s] /\ sReserved'[s] = sReserved[s]
          /\ c # Unlimited => c >= Add64(sUsed[s], sReserved[s])
      BY <1>0, <2>5 DEF UpdateStorageSource, TypeOK
    <3>2. SourceExcess(s)
      BY <1>0, <2>3, <3>1, NumberAssumption DEF SourceExcess, SourceWithin, Add64
    <3> QED BY <2>1, <2>2, <3>2
  <2> QED BY <1>2, <2>4, <2>5
<1>3. ASSUME NEW x \in Slots, NEW p \in Places, NEW n \in Sizes, ReserveObject(x, p, n) PROVE Goal
  <2>0. x[1] \in Buckets /\ Growth(x, n) \in Nat /\ SourceGrowth(x, p, n) \in Nat
    BY <1>0, SlotTypes, NumberAssumption DEF Growth, SourceGrowth, AtLeastZero
  <2>1. ASSUME NEW b \in Buckets PROVE BucketExcess(b)
    <3>1. quota'[b] = quota[b] /\ used'[b] = used[b]
          /\ reserved'[b] = (IF b = x[1] THEN reserved[b] + Growth(x, n) ELSE reserved[b])
      BY <1>0, <1>3 DEF ReserveObject, TypeOK
    <3>2. CASE b = x[1]
      <4>1. quota[b] # Unlimited => Add64(Add64(used[b], reserved[b]), Growth(x, n)) <= quota[b]
        BY <1>3, <3>2 DEF ReserveObject, AdmitsQuota
      <4>2. quota[b] # Unlimited => \/ used[b] + reserved[b] + Growth(x, n) <= quota[b]
                                    \/ used[b] + reserved[b] + Growth(x, n) > MaxInt
        BY <1>0, <2>0, <4>1, Admitted
      <4> QED BY <1>0, <2>0, <3>1, <3>2, <4>2 DEF BucketExcess, BucketWithin
    <3>3. CASE b # x[1]
      BY <1>0, <3>1, <3>3, NoBucketGrowth
    <3> QED BY <3>2, <3>3
  <2>2. ASSUME NEW s \in Sources PROVE SourceExcess(s)
    <3>1. capacity'[s] = capacity[s] /\ sUsed'[s] = sUsed[s]
          /\ sReserved'[s] = (IF s = p THEN sReserved[s] + SourceGrowth(x, p, n) ELSE sReserved[s])
      BY <1>0, <1>3, DistinctAssumption DEF ReserveObject, TypeOK
    <3>2. CASE s = p
      <4>1. capacity[s] # Unlimited => Add64(Add64(sUsed[s], sReserved[s]), SourceGrowth(x, p, n)) <= capacity[s]
        BY <1>3, <3>2, DistinctAssumption DEF ReserveObject, AdmitsSource
      <4>2. capacity[s] # Unlimited => \/ sUsed[s] + sReserved[s] + SourceGrowth(x, p, n) <= capacity[s]
                                       \/ sUsed[s] + sReserved[s] + SourceGrowth(x, p, n) > MaxInt
        BY <1>0, <2>0, <4>1, Admitted
      <4> QED BY <1>0, <2>0, <3>1, <3>2, <4>2 DEF SourceExcess, SourceWithin
    <3>3. CASE s # p
      BY <1>0, <3>1, <3>3, NoSourceGrowth
    <3> QED BY <3>2, <3>3
  <2> QED BY <2>1, <2>2
<1>4. ASSUME NEW x \in Slots, CancelUpload(x) PROVE Goal
  <2>0. uploads[x].res \in Nat /\ uploads[x].sres \in Nat
    BY <1>0, SlotTypes
  <2>1. ASSUME NEW b \in Buckets PROVE BucketExcess(b)
    <3>1. quota'[b] = quota[b] /\ used'[b] = used[b]
          /\ reserved'[b] \in {reserved[b], AtLeastZero(reserved[b] - uploads[x].res)}
      BY <1>0, <1>4 DEF CancelUpload, ReleaseUpload, TypeOK
    <3>2. reserved'[b] <= reserved[b]
      BY <1>0, <2>0, <3>1 DEF AtLeastZero
    <3> QED BY <1>0, <3>1, <3>2, NoBucketGrowth
  <2>2. ASSUME NEW s \in Sources PROVE SourceExcess(s)
    <3>1. capacity'[s] = capacity[s] /\ sUsed'[s] = sUsed[s]
          /\ sReserved'[s] \in {sReserved[s], AtLeastZero(sReserved[s] - uploads[x].sres)}
      BY <1>0, <1>4 DEF CancelUpload, ReleaseUpload, TypeOK
    <3>2. sReserved'[s] <= sReserved[s]
      BY <1>0, <2>0, <3>1 DEF AtLeastZero
    <3> QED BY <1>0, <3>1, <3>2, NoSourceGrowth
  <2> QED BY <2>1, <2>2
<1>5. ASSUME NEW x \in Slots, CommitUpload(x) PROVE Goal
  <2> DEFINE old == objects[x].size
             size == uploads[x].size
  <2>0. /\ x[1] \in Buckets /\ x \in BucketSlots(x[1])
        /\ old \in Nat /\ size \in Nat /\ uploads[x].res \in Nat /\ uploads[x].sres \in Nat
    BY <1>0, SlotTypes DEF BucketSlots
  <2>1. HasUpload(x) /\ ~HasUpload(x)'
    BY <1>0, <1>5 DEF CommitUpload, ReleaseUpload, HasUpload, NoUpload, TypeOK
  <2>2. ASSUME NEW b \in Buckets PROVE BucketExcess(b)
    <3>1. CASE b # x[1]
      <4>1. quota'[b] = quota[b] /\ used'[b] = used[b] /\ reserved'[b] = reserved[b]
        BY <1>0, <1>5, <3>1 DEF CommitUpload, ReleaseUpload, TypeOK
      <4> QED BY <1>0, <4>1, NoBucketGrowth
    <3>2. CASE b = x[1]
      <4>1. /\ quota'[b] = quota[b] /\ used'[b] = AtLeastZero(used[b] - old) + size
            /\ reserved'[b] = AtLeastZero(reserved[b] - uploads[x].res)
        BY <1>0, <1>5, <3>2 DEF CommitUpload, ReleaseUpload, TypeOK
      <4>2. used[b] >= old /\ reserved[b] >= uploads[x].res
        BY <3>2, RowsCharged
      <4>3. CASE StaleReservation(x)
        BY <2>0, <2>1, <3>2, <4>3 DEF BucketExcess
      <4>4. CASE ~StaleReservation(x)
        <5>1. size <= uploads[x].res + old
          BY <2>0, <2>1, <4>4 DEF StaleReservation
        <5> HIDE DEF old, size
        <5>2. used'[b] + reserved'[b] <= used[b] + reserved[b]
          BY <1>0, <2>0, <4>1, <4>2, <5>1 DEF AtLeastZero
        <5> QED BY <1>0, <4>1, <5>2, NoBucketGrowth
      <4> QED BY <4>3, <4>4
    <3> QED BY <3>1, <3>2
  <2>3. ASSUME NEW s \in Sources PROVE SourceExcess(s)
    <3> DEFINE back == IF objects[x].src = s THEN old ELSE 0
               more == IF uploads[x].src = s THEN size ELSE 0
               free == IF uploads[x].src = s THEN uploads[x].sres ELSE 0
    <3>1. /\ back \in Nat /\ more \in Nat /\ free \in Nat
          /\ back <= sUsed[s] /\ free <= sReserved[s]
      BY <1>0, <2>0, RowsCharged
    <3>2. capacity'[s] = capacity[s]
          /\ sUsed'[s] = (IF objects[x].src = s THEN AtLeastZero(sUsed[s] + more - back) ELSE sUsed[s] + more)
          /\ sReserved'[s] = (IF uploads[x].src = s THEN AtLeastZero(sReserved[s] - free) ELSE sReserved[s])
      <4>1. capacity'[s] = capacity[s]
            /\ sUsed'[s] = (IF objects[x].src = s THEN AtLeastZero(sUsed[s] + more - back) ELSE sUsed[s] + more)
        <5>1. /\ capacity' = capacity
              /\ sUsed' = [t \in Sources |->
                            IF t = objects[x].src
                            THEN AtLeastZero((IF t = uploads[x].src THEN sUsed[t] + uploads[x].size ELSE sUsed[t])
                                               - objects[x].size)
                            ELSE IF t = uploads[x].src THEN sUsed[t] + uploads[x].size ELSE sUsed[t]]
          BY <1>5 DEF CommitUpload
        <5> QED BY <1>0, <2>0, <5>1
      <4>2. sReserved'[s] = (IF uploads[x].src = s THEN AtLeastZero(sReserved[s] - free) ELSE sReserved[s])
        <5>1. sReserved' = IF uploads[x].src = Legacy THEN sReserved
                           ELSE [sReserved EXCEPT ![uploads[x].src] = AtLeastZero(@ - uploads[x].sres)]
          BY <1>5 DEF CommitUpload, ReleaseUpload
        <5>2. sReserved \in [Sources -> Nat] /\ s # Legacy
          BY <1>0, DistinctAssumption DEF TypeOK
        <5> QED BY <5>1, <5>2
      <4> QED BY <4>1, <4>2
    <3>3. CASE more > free + back
      <4>1. x \in UploadsOn(s) /\ StaleSourceReservation(x)
        BY <2>0, <2>1, <3>1, <3>3 DEF UploadsOn, StaleSourceReservation
      <4> QED BY <2>1, <4>1 DEF SourceExcess
    <3>4. CASE more <= free + back
      <4>1. sUsed'[s] = sUsed[s] + more - back /\ sReserved'[s] = sReserved[s] - free
        <5> HIDE DEF more
        <5> QED BY <1>0, <3>1, <3>2 DEF AtLeastZero
      <4> HIDE DEF more, back, free
      <4>2. sUsed'[s] + sReserved'[s] <= sUsed[s] + sReserved[s]
        BY <1>0, <3>1, <3>4, <4>1
      <4> QED BY <1>0, <3>2, <4>2, NoSourceGrowth
    <3> QED BY <3>1, <3>3, <3>4
  <2> QED BY <2>2, <2>3
<1>6. ASSUME NEW x \in Slots, DeleteObject(x) PROVE Goal
  <2>0. objects[x].size \in Nat
    BY <1>0, SlotTypes
  <2>1. ASSUME NEW b \in Buckets PROVE BucketExcess(b)
    <3>1. quota'[b] = quota[b] /\ reserved'[b] = reserved[b]
          /\ used'[b] \in {used[b], AtLeastZero(used[b] - objects[x].size)}
      BY <1>0, <1>6 DEF DeleteObject, TypeOK
    <3>2. used'[b] <= used[b]
      BY <1>0, <2>0, <3>1 DEF AtLeastZero
    <3> QED BY <1>0, <3>1, <3>2, NoBucketGrowth
  <2>2. ASSUME NEW s \in Sources PROVE SourceExcess(s)
    <3>1. capacity'[s] = capacity[s] /\ sReserved'[s] = sReserved[s]
          /\ sUsed'[s] \in {sUsed[s], AtLeastZero(sUsed[s] - objects[x].size)}
      BY <1>0, <1>6 DEF DeleteObject, TypeOK
    <3>2. sUsed'[s] <= sUsed[s]
      BY <1>0, <2>0, <3>1 DEF AtLeastZero
    <3> QED BY <1>0, <3>1, <3>2, NoSourceGrowth
  <2> QED BY <2>1, <2>2
<1>7. ASSUME NEW b \in Buckets, BeginBucketDeletion(b) PROVE Goal
  BY <1>7, <1>b, <1>s DEF BeginBucketDeletion, sourceVars
<1>8. ASSUME NEW b \in Buckets, FinishBucketDeletion(b) PROVE Goal
  <2>1. ASSUME NEW c \in Buckets PROVE BucketExcess(c)
    <3>1. CASE c = b
      <4>1. quota'[b] = 0 /\ used'[b] = 0 /\ reserved'[b] = 0
        BY <1>0, <1>8 DEF FinishBucketDeletion, TypeOK
      <4> QED BY <3>1, <4>1 DEF BucketExcess, BucketWithin
    <3>2. CASE c # b
      <4>1. quota'[c] = quota[c] /\ used'[c] = used[c] /\ reserved'[c] = reserved[c]
        BY <1>0, <1>8, <3>2 DEF FinishBucketDeletion, TypeOK
      <4> QED BY <1>0, <4>1, NoBucketGrowth
    <3> QED BY <3>1, <3>2
  <2>2. ASSUME NEW s \in Sources PROVE SourceExcess(s)
    <3> DEFINE mu == Volume(ObjSize, BucketSlots(b) \cap ObjectsOn(s))
               mr == Volume(UpSRes, BucketSlots(b) \cap UploadsOn(s))
    <3>1. mu \in Nat /\ mr \in Nat
      BY <1>0, <1>8, FinishMove
    <3>2. /\ capacity'[s] = capacity[s]
          /\ sUsed'[s] \in {sUsed[s], AtLeastZero(sUsed[s] - mu)}
          /\ sReserved'[s] \in {sReserved[s], AtLeastZero(sReserved[s] - mr)}
      BY <1>8 DEF FinishBucketDeletion
    <3> HIDE DEF mu, mr
    <3>3. sUsed'[s] <= sUsed[s] /\ sReserved'[s] <= sReserved[s]
      BY <1>0, <3>1, <3>2 DEF AtLeastZero
    <3> QED BY <1>0, <3>2, <3>3, NoSourceGrowth
  <2> QED BY <2>1, <2>2
<1>9. CASE UNCHANGED vars
  BY <1>9, <1>b, <1>s DEF vars, bucketVars, sourceVars
<1> QED BY <1>1, <1>2, <1>3, <1>4, <1>5, <1>6, <1>7, <1>8, <1>9 DEF Next

(* A bucket passes its quota, and a source its capacity, only in the commit  *)
(* of an upload whose reservation has become stale, or when the sum no       *)
(* longer fits an int64 (ReserveObject, CommitUpload).                       *)
THEOREM OnlyStaleReservationsExceed == Spec => ExcessNeedsStaleReservation
<1> DEFINE Excess == /\ \A b \in Buckets : BucketWithin(b) /\ ~BucketWithin(b)' =>
                            \/ \E x \in BucketSlots(b) : StaleReservation(x) /\ ~HasUpload(x)'
                            \/ used'[b] + reserved'[b] > MaxInt
                     /\ \A s \in Sources : SourceWithin(s) /\ ~SourceWithin(s)' =>
                            \/ \E x \in UploadsOn(s) : StaleSourceReservation(x) /\ ~HasUpload(x)'
                            \/ sUsed'[s] + sReserved'[s] > MaxInt
<1>1. Init => IInv
  BY TypeInit, ParentsInit, AccountingInit DEF IInv
<1>2. IInv /\ [Next]_vars => IInv'
  BY TypeStep, ParentsStep, AccountingStep DEF IInv
<1>3. IInv /\ [Next]_vars => [Excess]_vars
  <2> SUFFICES ASSUME IInv, [Next]_vars PROVE Excess
    OBVIOUS
  <2>1. TypeOK'
    BY TypeStep DEF IInv
  <2>2. (\A b \in Buckets : BucketExcess(b)) /\ (\A s \in Sources : SourceExcess(s))
    BY <2>1, ExcessStep
  <2> QED BY <2>2 DEF BucketExcess, SourceExcess
<1> QED BY <1>1, <1>2, <1>3, PTL DEF Spec, ExcessNeedsStaleReservation

-----------------------------------------------------------------------------
(* The quotas that are set, in three cases: the limited buckets stay the     *)
(* same, lose b, or are those without b and b with the quota it is given.    *)

LimitedBuckets == {b \in Buckets : Limited(b)}

AllocatedSums ==
  /\ IsFiniteSet(LimitedBuckets)
  /\ \A b \in LimitedBuckets : b \in Buckets /\ quota[b] \in Nat
  /\ Allocated(Buckets) = Volume(quota, LimitedBuckets)
  /\ Allocated(Buckets) \in Nat

LEMMA LimitedFinite == TypeOK => AllocatedSums
<1> SUFFICES ASSUME TypeOK PROVE AllocatedSums
  OBVIOUS
<1>1. LimitedBuckets \subseteq Buckets /\ IsFiniteSet(LimitedBuckets)
  BY FiniteAssumption, FS_Subset DEF LimitedBuckets
<1>2. \A b \in LimitedBuckets : b \in Buckets /\ quota[b] \in Nat
  BY <1>1 DEF LimitedBuckets, Limited, TypeOK
<1>3. Allocated(Buckets) = Volume(quota, LimitedBuckets)
  BY DEF Allocated, LimitedBuckets
<1> QED BY <1>1, <1>2, <1>3, VolumeNat DEF AllocatedSums

LEMMA AllocatedKept ==
  ASSUME UNCHANGED quota, \A b \in Buckets : Limited(b)' <=> Limited(b)
  PROVE  Allocated(Buckets)' = Allocated(Buckets)
<1>1. {b \in Buckets : Limited(b)}' = {b \in Buckets : Limited(b)}
  OBVIOUS
<1> QED BY <1>1 DEF Allocated

(* b ends without a limit, or with q; the others are left alone. *)
LEMMA AllocatedMoves ==
  ASSUME TypeOK, TypeOK', NEW b \in Buckets,
         \A c \in Buckets \ {b} : quota'[c] = quota[c] /\ (Limited(c)' <=> Limited(c))
  PROVE  /\ Allocated(Buckets \ {b}) \in Nat /\ Allocated(Buckets \ {b}) <= Allocated(Buckets)
         /\ ~Limited(b)' => Allocated(Buckets)' = Allocated(Buckets \ {b})
         /\ Limited(b)' => Allocated(Buckets)' = Allocated(Buckets \ {b}) + quota'[b]
<1> DEFINE M == {c \in Buckets \ {b} : Limited(c)}
<1>1. /\ IsFiniteSet(LimitedBuckets) /\ \A c \in LimitedBuckets : quota[c] \in Nat
      /\ Allocated(Buckets) = Volume(quota, LimitedBuckets)
  BY LimitedFinite DEF AllocatedSums
<1>2. /\ IsFiniteSet(LimitedBuckets') /\ \A c \in LimitedBuckets' : c \in Buckets /\ quota'[c] \in Nat
      /\ Allocated(Buckets)' = Volume(quota', LimitedBuckets')
  <2>1. AllocatedSums'
    BY LimitedFinite, PTL
  <2> QED BY <2>1 DEF AllocatedSums
<1>3. Allocated(Buckets \ {b}) = Volume(quota, M)
  BY DEF Allocated
<1>4. M = LimitedBuckets \ {b} /\ M = LimitedBuckets' \ {b} /\ (b \in LimitedBuckets <=> Limited(b)) /\ (b \in LimitedBuckets' <=> Limited(b)')
  BY DEF LimitedBuckets
<1>5. IsFiniteSet(M) /\ \A c \in M : quota[c] \in Nat /\ quota'[c] = quota[c]
  BY <1>1, <1>4, FS_Subset
<1>6. Volume(quota', M) = Volume(quota, M) /\ Volume(quota, M) \in Nat
  BY <1>5, VolumeSame, VolumeNat
<1> HIDE DEF M
<1>7. Volume(quota, M) <= Volume(quota, LimitedBuckets)
  <2>1. CASE b \in LimitedBuckets
    <3>1. Volume(quota, LimitedBuckets) = Volume(quota, LimitedBuckets \ {b}) + quota[b] /\ quota[b] \in Nat
      BY <1>1, <2>1, VolumeSplit
    <3> QED BY <1>4, <1>6, <3>1
  <2>2. CASE b \notin LimitedBuckets
    <3>1. M = LimitedBuckets
      BY <1>4, <2>2
    <3> QED BY <1>6, <3>1
  <2> QED BY <2>1, <2>2
<1>8. CASE b \in LimitedBuckets'
  <2>1. Volume(quota', LimitedBuckets') = Volume(quota', LimitedBuckets' \ {b}) + quota'[b]
    BY <1>2, <1>8, VolumeSplit
  <2> QED BY <1>1, <1>2, <1>3, <1>4, <1>6, <1>7, <1>8, <2>1
<1>9. CASE b \notin LimitedBuckets'
  <2>1. M = LimitedBuckets'
    BY <1>4, <1>9
  <2> QED BY <1>1, <1>2, <1>3, <1>4, <1>6, <1>7, <1>9, <2>1
<1> QED BY <1>8, <1>9

(* The quotas set by CreateBucket and UpdateBucket stay within               *)
(* RVS_TOTAL_QUOTA together, as long as no quota asked for can make the sum   *)
(* of the test wrap round int64.                                             *)
THEOREM QuotasShareTheTotal ==
  ASSUME \A q \in Quotas : TotalLimit + q <= MaxInt
  PROVE  Spec => []TotalQuota
<1>1. TypeOK /\ Init => TotalQuota
  <2> SUFFICES ASSUME TypeOK, Init PROVE TotalQuota
    OBVIOUS
  <2>1. LimitedBuckets = {}
    BY DEF LimitedBuckets, Limited, Init
  <2>2. Volume(quota, {}) = 0
    BY VolumeZero
  <2> QED BY <2>1, <2>2, LimitedFinite, NumberAssumption DEF TotalQuota, AllocatedSums
<1>2. TypeOK /\ TotalQuota /\ TypeOK' /\ [Next]_vars => TotalQuota'
  <2> SUFFICES ASSUME TypeOK, TotalQuota, TypeOK', [Next]_vars PROVE TotalQuota'
    OBVIOUS
  <2>0. ASSUME UNCHANGED quota, \A b \in Buckets : Limited(b)' <=> Limited(b) PROVE TotalQuota'
    BY <2>0, AllocatedKept DEF TotalQuota
  <2>1. ASSUME NEW b \in Buckets, NEW q \in Quotas \cup {Unlimited}, CreateBucket(b, q)
        PROVE  TotalQuota'
    <3>1. \A c \in Buckets \ {b} : quota'[c] = quota[c] /\ (Limited(c)' <=> Limited(c))
      BY <2>1 DEF CreateBucket, Limited, TypeOK
    <3>2. quota'[b] = q /\ (Limited(b)' <=> q # Unlimited)
      BY <2>1 DEF CreateBucket, Limited, TypeOK
    <3>3. Allocated(Buckets) \in Nat /\ Allocated(Buckets) <= TotalLimit
      BY LimitedFinite DEF TotalQuota, AllocatedSums
    <3>4. q # Unlimited => Add64(Allocated(Buckets), q) <= TotalLimit
      BY <2>1 DEF CreateBucket, FitsPlatform
    <3>5. q # Unlimited => Allocated(Buckets) + q <= TotalLimit
      BY <3>3, <3>4, NumberAssumption DEF Add64
    <3>6. /\ Allocated(Buckets \ {b}) \in Nat /\ Allocated(Buckets \ {b}) <= Allocated(Buckets)
          /\ q = Unlimited => Allocated(Buckets)' = Allocated(Buckets \ {b})
          /\ q # Unlimited => Allocated(Buckets)' = Allocated(Buckets \ {b}) + q
      BY <3>1, <3>2, AllocatedMoves
    <3> QED BY <3>3, <3>5, <3>6, NumberAssumption DEF TotalQuota
  <2>2. ASSUME NEW b \in Buckets, NEW q \in Quotas \cup {Unlimited}, UpdateBucket(b, q)
        PROVE  TotalQuota'
    <3>1. \A c \in Buckets \ {b} : quota'[c] = quota[c] /\ (Limited(c)' <=> Limited(c))
      BY <2>2 DEF UpdateBucket, Limited, TypeOK
    <3>2. quota'[b] = q /\ (Limited(b)' <=> q # Unlimited)
      BY <2>2 DEF UpdateBucket, Limited, TypeOK
    <3>3. Allocated(Buckets) \in Nat /\ Allocated(Buckets) <= TotalLimit
      BY LimitedFinite DEF TotalQuota, AllocatedSums
    <3>4. q # Unlimited => Add64(Allocated(Buckets \ {b}), q) <= TotalLimit
      BY <2>2 DEF UpdateBucket, FitsPlatform
    <3>5. /\ Allocated(Buckets \ {b}) \in Nat /\ Allocated(Buckets \ {b}) <= Allocated(Buckets)
          /\ q = Unlimited => Allocated(Buckets)' = Allocated(Buckets \ {b})
          /\ q # Unlimited => Allocated(Buckets)' = Allocated(Buckets \ {b}) + q
      BY <3>1, <3>2, AllocatedMoves
    <3>6. q # Unlimited => Allocated(Buckets \ {b}) + q <= TotalLimit
      BY <3>3, <3>4, <3>5, NumberAssumption DEF Add64
    <3> QED BY <3>3, <3>5, <3>6, NumberAssumption DEF TotalQuota
  <2>3. ASSUME NEW s \in Sources, NEW c \in Capacities \cup {Unlimited},
               CreateStorageSource(s, c) \/ UpdateStorageSource(s, c)
        PROVE  TotalQuota'
    BY <2>0, <2>3 DEF CreateStorageSource, UpdateStorageSource, bucketVars, Limited
  <2>4. ASSUME NEW x \in Slots, NEW s \in Places, NEW n \in Sizes, ReserveObject(x, s, n)
        PROVE  TotalQuota'
    BY <2>0, <2>4 DEF ReserveObject, Limited
  <2>5. ASSUME NEW x \in Slots, CancelUpload(x) \/ CommitUpload(x) \/ DeleteObject(x)
        PROVE  TotalQuota'
    BY <2>0, <2>5 DEF CancelUpload, CommitUpload, DeleteObject, Limited
  <2>6. ASSUME NEW b \in Buckets, BeginBucketDeletion(b) PROVE TotalQuota'
    <3>1. UNCHANGED quota /\ \A c \in Buckets : status'[c] = "absent" <=> status[c] = "absent"
      BY <2>6 DEF BeginBucketDeletion, TypeOK
    <3> QED BY <2>0, <3>1 DEF Limited
  <2>7. ASSUME NEW b \in Buckets, FinishBucketDeletion(b) PROVE TotalQuota'
    <3>1. \A c \in Buckets \ {b} : quota'[c] = quota[c] /\ (Limited(c)' <=> Limited(c))
      BY <2>7 DEF FinishBucketDeletion, Limited, TypeOK
    <3>2. ~Limited(b)'
      BY <2>7 DEF FinishBucketDeletion, Limited, TypeOK
    <3>3. /\ Allocated(Buckets \ {b}) \in Nat /\ Allocated(Buckets \ {b}) <= Allocated(Buckets)
          /\ Allocated(Buckets)' = Allocated(Buckets \ {b})
      BY <3>1, <3>2, AllocatedMoves
    <3> QED BY <3>3, LimitedFinite, NumberAssumption DEF TotalQuota, AllocatedSums
  <2>8. CASE UNCHANGED vars
    BY <2>0, <2>8 DEF vars, bucketVars, Limited
  <2> HIDE DEF TotalQuota
  <2> QED BY <2>1, <2>2, <2>3, <2>4, <2>5, <2>6, <2>7, <2>8 DEF Next
<1> QED BY <1>1, <1>2, TypeInit, TypeStep, PTL DEF Spec
=============================================================================
