--------------------------- MODULE ObjectsProofs ---------------------------
(***************************************************************************)
(* Theorems about Objects, for every finite set of keys, every set of       *)
(* payloads and requests and every bound.  What the catalog promises is     *)
(* taken from the theorems of CatalogProofs, instantiated as the requests   *)
(* use it.  MappedStaysIntact, NothingLeftBehind and PromiseImplemented are *)
(* about clients that do not rotate: a rotation breaks MappedIntact, as the *)
(* run ObjectsRotateRace shows.  BytesAlwaysSurvive is about rotations that *)
(* race, and the last three theorems about rotations that nothing races.    *)
(***************************************************************************)
EXTENDS Objects, FiniteSetTheorems, TLAPS

(* Catalog with its theorems, under the substitution of C. *)
CP == INSTANCE CatalogProofs WITH
       Buckets <- {Bucket}, Sources <- {}, Legacy <- S3, Quotas <- {},
       Capacities <- {}, Sizes <- {1}, TotalLimit <- 1, MaxObjects <- 100,
       MaxPending <- 100, MaxInt <- 1000

(* The requests' catalog meets the assumptions of Catalog. *)
LEMMA CatalogAssumptions == CP!FiniteAssumption /\ CP!DistinctAssumption /\ CP!NumberAssumption
<1>1. \A S : IsFiniteSet(S) <=> CP!IsFiniteSet(S)
  BY DEF IsFiniteSet, CP!IsFiniteSet
<1>2. IsFiniteSet({Bucket}) /\ IsFiniteSet({})
  BY FS_Singleton, FS_EmptySet
<1> QED
  BY <1>1, <1>2, NamesAssumption
  DEF CP!FiniteAssumption, CP!DistinctAssumption, CP!NumberAssumption

(* The two instances of Catalog, the one the requests use and the one its
   theorems come with, are one catalog. *)
LEMMA SameTypes == C!TypeOK <=> CP!TypeOK
BY DEF C!TypeOK, CP!TypeOK, C!Slots, CP!Slots, C!Places, CP!Places, C!ObjectRow, CP!ObjectRow,
       C!NoObject, CP!NoObject, C!UploadRow, CP!UploadRow, C!NoUpload, CP!NoUpload

LEMMA SameInit == C!Init <=> CP!Init
BY DEF C!Init, CP!Init, C!Slots, CP!Slots,  C!NoObject, CP!NoObject, C!NoUpload, CP!NoUpload

LEMMA SameVars == C!vars = CP!vars
BY DEF C!vars, CP!vars, C!bucketVars, CP!bucketVars, C!sourceVars, CP!sourceVars, C!rowVars, CP!rowVars

LEMMA SameNext == C!Next <=> CP!Next
BY DEF C!Next, CP!Next, C!CreateBucket, CP!CreateBucket, C!UpdateBucket, CP!UpdateBucket,
       C!CreateStorageSource, CP!CreateStorageSource, C!UpdateStorageSource,
       CP!UpdateStorageSource, C!ReserveObject, CP!ReserveObject, C!CancelUpload,
       CP!CancelUpload, C!CommitUpload, CP!CommitUpload, C!DeleteObject, CP!DeleteObject,
       C!BeginBucketDeletion, CP!BeginBucketDeletion, C!FinishBucketDeletion,
       CP!FinishBucketDeletion, C!ReleaseUpload, CP!ReleaseUpload, C!Growth, CP!Growth,
       C!SourceGrowth, CP!SourceGrowth, C!AtLeastZero, CP!AtLeastZero, C!AdmitsCount,
       CP!AdmitsCount, C!AdmitsQuota, CP!AdmitsQuota, C!AdmitsSource, CP!AdmitsSource, C!Add64,
       CP!Add64, C!HasUpload, CP!HasUpload, C!HasObject, CP!HasObject, C!PendingCount,
       CP!PendingCount, C!ObjectCount, CP!ObjectCount, C!BucketSlots, CP!BucketSlots, C!Slots,
       CP!Slots, C!Places, CP!Places, C!ObjectsOn, CP!ObjectsOn, C!UploadsOn, CP!UploadsOn,
       C!ObjSize, CP!ObjSize, C!UpSRes, CP!UpSRes, C!Volume, CP!Volume, C!Bytes, CP!Bytes,
       C!Cardinality, CP!Cardinality, C!FitsPlatform, CP!FitsPlatform, C!Allocated, CP!Allocated,
       C!Limited, CP!Limited, C!NoObject, CP!NoObject, C!NoUpload, CP!NoUpload, C!bucketVars,
       CP!bucketVars, C!sourceVars, CP!sourceVars, C!rowVars, CP!rowVars

-----------------------------------------------------------------------------
(* The physical keys. *)
Drawn == {Final(n) : n \in 1..finals}

(* Staging keys, final keys and no key are three different things. *)
LEMMA KeyFacts ==
  /\ \A u \in Ids : Staging(u) \in PhysKeys /\ Staging(u) # NoKey
  /\ \A n \in 1..MaxFinals : Final(n) \in PhysKeys /\ Final(n) # NoKey
  /\ \A u \in Ids, n \in Int : Staging(u) # Final(n)
  /\ \A m, n \in Int : Final(m) = Final(n) => m = n
BY DEF PhysKeys, Staging, Final, NoKey

(* What the handlers remember. *)
HandlerTypes ==
  [pc : Pcs, x : Slots \cup {None}, up : Ids \cup {0}, id : Ids \cup {0},
   old : PhysKeys \cup {NoKey}, new : PhysKeys \cup {NoKey},
   tag : Payloads \cup {Gone}, todo : SUBSET Ids]

Local(r) ==
  /\ req[r] \in HandlerTypes
  /\ ~At(r, "idle") => req[r].x \in Slots
  /\ req[r].pc \in {"cancel", "grant", "head", "copy", "verify", "commit", "delstaging"} =>
       req[r].up \in Ids
  /\ req[r].pc \in {"verify", "commit", "undo", "rotatedelete", "rotaterow", "restore", "unrotate"} =>
       req[r].new \in Drawn
  /\ req[r].pc \in {"delold", "delete", "deleterow", "rotatecopy", "rotatedelete", "rotaterow",
                    "restore"} => req[r].old \in Drawn
  /\ At(r, "delstaging") => req[r].old \in Drawn \cup {NoKey}
  /\ At(r, "commit") => req[r].tag \in Payloads
  /\ req[r].pc \in {"delete", "deleterow"} => req[r].id \in Ids

(* A row that has an id has a physical key that was drawn for it. *)
Rows ==
  \A x \in Slots : /\ objPhys[x] \in Drawn \cup {NoKey}
                   /\ objId[x] # 0 => objPhys[x] # NoKey

IInv == TypeOK /\ (\A r \in Requests : Local(r)) /\ Rows

(* The bounds are numbers. *)
LEMMA BoundsInt == MaxUploads \in Nat /\ MaxFinals \in Nat /\ MaxPuts \in Nat /\ MaxFaults \in Nat
BY BoundsAssumption

(* Drawn keys are physical keys, and only grow. *)
LEMMA DrawnFacts == TypeOK => Drawn \subseteq PhysKeys /\ NoKey \notin Drawn /\ finals \in Nat
<1> SUFFICES ASSUME TypeOK PROVE Drawn \subseteq PhysKeys /\ NoKey \notin Drawn /\ finals \in Nat
  OBVIOUS
<1>1. finals \in 0..MaxFinals
  BY DEF TypeOK
<1> QED BY <1>1, BoundsInt, KeyFacts DEF Drawn

LEMMA DrawnGrows ==
  ASSUME TypeOK, finals' \in {finals, finals + 1} PROVE Drawn \subseteq Drawn'
BY DrawnFacts DEF Drawn

(* A handler at rest. *)
LEMMA IdleLocal == Idle \in HandlerTypes /\ Idle.pc = "idle"
BY DEF Idle, HandlerTypes, Pcs

-----------------------------------------------------------------------------
(* Every step of a handler leaves it with what its next step needs. *)

(* A handler that returns. *)
LEMMA ReturnLocal ==
  ASSUME IInv, NEW r \in Requests, Return(r)
  PROVE  Local(r)' /\ req'[r] = Idle /\ DOMAIN req' = Requests
         /\ \A q \in Requests \ {r} : req'[q] = req[q]
<1>1. DOMAIN req = Requests /\ req' = [req EXCEPT ![r] = Idle]
  BY DEF IInv, TypeOK, Return
<1>2. req'[r] = Idle /\ \A q \in Requests \ {r} : req'[q] = req[q]
  BY <1>1
<1> QED BY <1>1, <1>2, IdleLocal DEF Local, At

Acts(r) ==
  \/ Step(r) \/ Cut(r)
  \/ \E k \in Keys : BeginSweep(r, k) \/ CommitGet(r, k) \/ DeleteGet(r, k) \/ RotateGet(r, k)

(* The keys drawn only grow, one by one. *)
LEMMA FinalsStep ==
  ASSUME IInv, NEW r \in Requests, Acts(r)
  PROVE  finals' \in {finals, finals + 1} /\ finals' \in 0..MaxFinals
<1>1. UNCHANGED finals \/ (finals < MaxFinals /\ finals' = finals + 1)
  BY DEF Acts, Step, Cut, BeginSweep, CommitGet, DeleteGet, RotateGet, ReadRow, SweepDelete,
     SweepCancel, BeginReserve, BeginRefused, BeginGrant, CommitHead, CommitCopy, CommitVerify,
     CommitRow, CommitRowFails, CommitUndo, CommitDeleteStaging, CommitDeleteOld, DeletePhysical,
     DeleteRow, RotateCopy, RotateDelete, RotateRow, RotateRestore, RotateUndo, StoreAlone,
     TryUnlink, CopyFails, CopyTo
<1> QED BY <1>1, BoundsInt DEF IInv, TypeOK

(* A handler that starts, goes on or moves its locals. *)
LEMMA MoveLocal ==
  ASSUME IInv, NEW r \in Requests, NEW h \in HandlerTypes, req' = [req EXCEPT ![r] = h]
  PROVE  req'[r] = h /\ req'[r] \in HandlerTypes /\ DOMAIN req' = Requests
         /\ \A q \in Requests \ {r} : req'[q] = req[q]
BY DEF IInv, TypeOK

Kept(r) == /\ Local(r)' /\ DOMAIN req' = Requests
           /\ \A q \in Requests \ {r} : req'[q] = req[q]

LEMMA GotoLocal ==
  ASSUME IInv, NEW r \in Requests, NEW pc \in Pcs, Goto(r, pc)
  PROVE  /\ req'[r] = [req[r] EXCEPT !.pc = pc] /\ req'[r] \in HandlerTypes
         /\ req'[r].pc = pc /\ req'[r].x = req[r].x /\ req'[r].up = req[r].up
         /\ req'[r].old = req[r].old /\ req'[r].new = req[r].new /\ req'[r].tag = req[r].tag
         /\ req'[r].id = req[r].id
         /\ DOMAIN req' = Requests /\ \A q \in Requests \ {r} : req'[q] = req[q]
<1>1. req[r] \in HandlerTypes
  BY DEF IInv, Local
<1>2. [req[r] EXCEPT !.pc = pc] \in HandlerTypes
  BY <1>1 DEF HandlerTypes
<1>3. req' = [req EXCEPT ![r] = [req[r] EXCEPT !.pc = pc]]
  BY DEF Goto
<1>4. req'[r] = [req[r] EXCEPT !.pc = pc]
  BY <1>2, <1>3, MoveLocal
<1> QED BY <1>1, <1>2, <1>3, <1>4, MoveLocal DEF HandlerTypes

(* Handlers that begin. *)
LEMMA BeginKept ==
  ASSUME IInv, NEW r \in Requests, NEW k \in Keys,
         BeginSweep(r, k) \/ CommitGet(r, k) \/ DeleteGet(r, k) \/ RotateGet(r, k)
  PROVE  Kept(r)
<1> DEFINE x == <<Bucket, k>>
<1>0. x \in Slots /\ UNCHANGED finals
  BY DEF Slots, BeginSweep, CommitGet, DeleteGet, RotateGet, ReadRow, StoreAlone
<1>1. Drawn' = Drawn
  BY <1>0 DEF Drawn
<1>2. CASE BeginSweep(r, k)
  <2> DEFINE todo == {u \in expired : \E y \in Slots : upId[y] = u}
             h == [Idle EXCEPT !.pc = "sweep", !.x = x, !.todo = todo]
  <2>1. req' = [req EXCEPT ![r] = h]
    BY <1>2 DEF BeginSweep
  <2>2. todo \in SUBSET Ids
    BY DEF IInv, TypeOK
  <2> HIDE DEF todo, x
  <2>3. h \in HandlerTypes /\ h.pc = "sweep" /\ h.x = x
    BY <1>0, <2>2, IdleLocal DEF HandlerTypes, Pcs
  <2> HIDE DEF h
  <2> QED BY <1>0, <2>1, <2>3, MoveLocal DEF Kept, Local, At
<1>3. CASE CommitGet(r, k)
  <2> DEFINE h == [Idle EXCEPT !.pc = "head", !.x = x, !.up = upId[x]]
  <2>1. req' = [req EXCEPT ![r] = h] /\ upId[x] \in granted
    BY <1>3 DEF CommitGet
  <2>2. upId[x] \in Ids
    BY <2>1 DEF IInv, TypeOK
  <2> HIDE DEF x
  <2>3. h \in HandlerTypes /\ h.pc = "head" /\ h.x = x /\ h.up = upId[x]
    BY <1>0, <2>2, IdleLocal DEF HandlerTypes, Pcs
  <2> HIDE DEF h
  <2> QED BY <1>0, <2>1, <2>2, <2>3, MoveLocal DEF Kept, Local, At
<1>4. ASSUME NEW pc \in {"delete", "rotatecopy"}, NEW op, ReadRow(r, k, op, pc) PROVE Kept(r)
  <2> DEFINE h == [Idle EXCEPT !.pc = pc, !.x = x, !.id = objId[x], !.old = objPhys[x]]
  <2>1. req' = [req EXCEPT ![r] = h] /\ objId[x] # 0
    BY <1>4 DEF ReadRow
  <2>2. objId[x] \in Ids /\ objPhys[x] \in Drawn /\ Drawn \subseteq PhysKeys
    BY <1>0, <2>1, DrawnFacts DEF IInv, TypeOK, Rows
  <2> HIDE DEF x
  <2>3. h \in HandlerTypes /\ h.pc = pc /\ h.x = x /\ h.old = objPhys[x] /\ h.id = objId[x]
    BY <1>0, <2>2, IdleLocal DEF HandlerTypes, Pcs
  <2> HIDE DEF h
  <2> QED BY <1>0, <1>1, <2>1, <2>2, <2>3, MoveLocal DEF Kept, Local, At
<1> QED BY <1>2, <1>3, <1>4 DEF DeleteGet, RotateGet

(* Handlers that go on. *)
LEMMA StepKept ==
  ASSUME IInv, NEW r \in Requests, Step(r) \/ Cut(r)
  PROVE  Kept(r)
<1>0. /\ req[r] \in HandlerTypes /\ Local(r)
      /\ finals' \in {finals, finals + 1} /\ finals \in Nat /\ Drawn \subseteq PhysKeys
  BY FinalsStep, DrawnFacts DEF Acts, IInv, Local
<1>1. Drawn \subseteq Drawn'
  BY <1>0, DrawnGrows DEF IInv
<1>2. CASE Return(r)
  BY <1>2, ReturnLocal DEF Kept
<1>3. ASSUME NEW u \in Ids, SweepDelete(r, u) PROVE Kept(r)
  <2>1. CASE req' = [req EXCEPT ![r].pc = "cancel", ![r].up = u]
    <3> DEFINE h == [req[r] EXCEPT !.pc = "cancel", !.up = u]
    <3>1. req' = [req EXCEPT ![r] = h]
      BY <2>1
    <3>2. h \in HandlerTypes /\ h.pc = "cancel" /\ h.x = req[r].x /\ h.up = u
      BY <1>0 DEF HandlerTypes, Pcs
    <3>3. req[r].x \in Slots
      BY <1>0, <1>3 DEF SweepDelete, Local, At
    <3> HIDE DEF h
    <3> QED BY <3>1, <3>2, <3>3, MoveLocal DEF Kept, Local, At
  <2>2. CASE req' = [req EXCEPT ![r].todo = @ \ {u}]
    <3> DEFINE h == [req[r] EXCEPT !.todo = @ \ {u}]
    <3>1. req' = [req EXCEPT ![r] = h]
      BY <2>2
    <3>2. h \in HandlerTypes /\ h.pc = req[r].pc /\ h.x = req[r].x
      BY <1>0 DEF HandlerTypes
    <3>3. req[r].x \in Slots /\ req[r].pc = "sweep"
      BY <1>0, <1>3 DEF SweepDelete, Local, At
    <3> HIDE DEF h
    <3> QED BY <3>1, <3>2, <3>3, MoveLocal DEF Kept, Local, At
  <2> QED BY <1>3, <2>1, <2>2 DEF SweepDelete
<1>4. CASE SweepCancel(r)
  <2> DEFINE h == [req[r] EXCEPT !.pc = "sweep", !.todo = @ \ {req[r].up}, !.up = 0]
  <2>1. req' = [req EXCEPT ![r] = h] /\ At(r, "cancel")
    BY <1>4 DEF SweepCancel
  <2>2. h \in HandlerTypes /\ h.pc = "sweep" /\ h.x = req[r].x
    BY <1>0 DEF HandlerTypes, Pcs
  <2>3. req[r].x \in Slots
    BY <1>0, <2>1 DEF Local, At
  <2> HIDE DEF h
  <2> QED BY <2>1, <2>2, <2>3, MoveLocal DEF Kept, Local, At
<1>5. CASE BeginReserve(r)
  <2> DEFINE h == [req[r] EXCEPT !.pc = "grant", !.up = ids + 1]
  <2>1. req' = [req EXCEPT ![r] = h] /\ At(r, "sweep") /\ ids < MaxUploads
    BY <1>5 DEF BeginReserve
  <2>2. ids + 1 \in Ids
    BY <2>1, BoundsInt DEF IInv, TypeOK, Ids
  <2>3. h \in HandlerTypes /\ h.pc = "grant" /\ h.x = req[r].x /\ h.up = ids + 1
    BY <1>0, <2>2 DEF HandlerTypes, Pcs
  <2>4. req[r].x \in Slots
    BY <1>0, <2>1 DEF Local, At
  <2> HIDE DEF h
  <2> QED BY <2>1, <2>2, <2>3, <2>4, MoveLocal DEF Kept, Local, At
<1>6. ASSUME NEW pc \in {"copy", "undo", "delold", "deleterow", "rotaterow", "restore", "unrotate"},
             Goto(r, pc), req[r].pc # "idle",
             pc = "copy" => req[r].up \in Ids,
             pc \in {"undo", "rotaterow", "restore", "unrotate"} => req[r].new \in Drawn,
             pc \in {"delold", "deleterow", "rotaterow", "restore"} => req[r].old \in Drawn,
             pc = "deleterow" => req[r].id \in Ids
      PROVE  Kept(r)
  <2>1. pc \in Pcs
    BY DEF Pcs
  <2>2. /\ req'[r] \in HandlerTypes
        /\ req'[r].pc = pc /\ req'[r].x = req[r].x /\ req'[r].up = req[r].up
        /\ req'[r].old = req[r].old /\ req'[r].new = req[r].new /\ req'[r].id = req[r].id
        /\ DOMAIN req' = Requests /\ \A q \in Requests \ {r} : req'[q] = req[q]
    BY <1>6, <2>1, GotoLocal
  <2>3. req[r].x \in Slots
    BY <1>0, <1>6 DEF Local, At
  <2> QED BY <1>1, <1>6, <2>2, <2>3 DEF Kept, Local, At
<1>7. CASE CommitHead(r) \/ CommitRowFails(r) \/ CommitDeleteStaging(r) \/ DeletePhysical(r)
           \/ RotateDelete(r) \/ RotateRestore(r)
  BY <1>0, <1>2, <1>6, <1>7
  DEF CommitHead, CommitRowFails, CommitDeleteStaging, DeletePhysical, RotateDelete, RotateRestore,
      Local, At
<1>8. CASE CommitCopy(r) \/ RotateCopy(r)
  <2>1. CASE Return(r)
    BY <1>2, <2>1
  <2>3. ASSUME NEW pc \in {"verify", "rotatedelete"}, finals' = finals + 1,
               finals < MaxFinals, req' = [req EXCEPT ![r].pc = pc, ![r].new = FreshFinal],
               pc = "verify" => At(r, "copy"), pc = "rotatedelete" => At(r, "rotatecopy")
        PROVE  Kept(r)
    <3> DEFINE h == [req[r] EXCEPT !.pc = pc, !.new = FreshFinal]
    <3>1. req' = [req EXCEPT ![r] = h]
      BY <2>3
    <3>2. FreshFinal \in Drawn' /\ FreshFinal \in PhysKeys
      BY <1>0, <2>3, KeyFacts, BoundsInt DEF FreshFinal, Drawn
    <3>3. h \in HandlerTypes /\ h.pc = pc /\ h.x = req[r].x /\ h.up = req[r].up /\ h.new = FreshFinal
          /\ h.old = req[r].old
      BY <1>0, <3>2 DEF HandlerTypes, Pcs
    <3>4. /\ req[r].x \in Slots /\ (pc = "verify" => req[r].up \in Ids)
          /\ (pc = "rotatedelete" => req[r].old \in Drawn)
      BY <1>0, <2>3 DEF Local, At
    <3> HIDE DEF h
    <3> QED BY <1>1, <3>1, <3>2, <3>3, <3>4, MoveLocal DEF Kept, Local, At
  <2>4. CASE CommitCopy(r)
    BY <2>1, <2>3, <2>4 DEF CommitCopy, CopyTo
  <2>5. CASE RotateCopy(r)
    BY <2>1, <2>3, <2>5 DEF RotateCopy, CopyTo
  <2> QED BY <1>8, <2>4, <2>5
<1>9. CASE CommitVerify(r)
  <2>1. At(r, "verify") /\ UNCHANGED finals
    BY <1>9 DEF CommitVerify, StoreAlone
  <2>2. CASE Goto(r, "undo")
    BY <1>0, <1>6, <2>1, <2>2 DEF Local, At
  <2>3. CASE /\ store[req[r].new] \in Payloads
             /\ req' = [req EXCEPT ![r].pc = "commit", ![r].tag = store[req[r].new]]
    <3> DEFINE h == [req[r] EXCEPT !.pc = "commit", !.tag = store[req[r].new]]
    <3>1. req' = [req EXCEPT ![r] = h]
      BY <2>3
    <3>2. h \in HandlerTypes /\ h.pc = "commit" /\ h.x = req[r].x /\ h.up = req[r].up
          /\ h.new = req[r].new /\ h.tag = store[req[r].new]
      BY <1>0, <2>3 DEF HandlerTypes, Pcs
    <3>3. req[r].x \in Slots /\ req[r].up \in Ids /\ req[r].new \in Drawn
      BY <1>0, <2>1 DEF Local, At
    <3> HIDE DEF h
    <3> QED BY <1>1, <2>3, <3>1, <3>2, <3>3, MoveLocal DEF Kept, Local, At
  <2> QED BY <1>9, <2>2, <2>3 DEF CommitVerify
<1>10. CASE CommitRow(r)
  <2> DEFINE h == [req[r] EXCEPT !.pc = "delstaging", !.old = objPhys[req[r].x]]
  <2>1. req' = [req EXCEPT ![r] = h] /\ At(r, "commit")
    BY <1>10 DEF CommitRow
  <2>2. req[r].x \in Slots /\ req[r].up \in Ids
    BY <1>0, <2>1 DEF Local, At
  <2>3. objPhys[req[r].x] \in Drawn \cup {NoKey}
    BY <2>2 DEF IInv, Rows
  <2>4. h \in HandlerTypes /\ h.pc = "delstaging" /\ h.x = req[r].x /\ h.up = req[r].up
        /\ h.old = objPhys[req[r].x]
    BY <1>0, <2>3 DEF HandlerTypes, Pcs
  <2> HIDE DEF h
  <2> QED BY <1>1, <2>1, <2>2, <2>3, <2>4, MoveLocal DEF Kept, Local, At
<1>11. CASE RotateRow(r)
  BY <1>0, <1>2, <1>6, <1>11 DEF RotateRow, Local, At
<1>12. CASE Cut(r) \/ BeginRefused(r) \/ BeginGrant(r) \/ CommitUndo(r) \/ CommitDeleteOld(r)
            \/ DeleteRow(r) \/ RotateUndo(r)
  BY <1>2, <1>12 DEF Cut, BeginRefused, BeginGrant, CommitUndo, CommitDeleteOld, DeleteRow, RotateUndo
<1> QED BY <1>3, <1>4, <1>5, <1>7, <1>8, <1>9, <1>10, <1>11, <1>12 DEF Step

-----------------------------------------------------------------------------
(* A step that leaves the rows of the catalog alone. *)
LEMMA CatalogStill == UNCHANGED catalogVars => UNCHANGED C!vars
BY DEF catalogVars, C!vars, C!bucketVars, C!sourceVars, C!rowVars

(* The four transactions of the requests are transactions of Catalog. *)
LEMMA RowActions ==
  ASSUME NEW x \in Slots,
         C!ReserveObject(x, S3, 1) \/ C!CancelUpload(x) \/ C!CommitUpload(x) \/ C!DeleteObject(x)
  PROVE  C!Next
BY DEF C!Next, C!Slots, Slots, C!Places

(* So is the removal of an upload by its id. *)
LEMMA CancelRowStep ==
  ASSUME NEW u, CancelRow(u) PROVE C!Next \/ UNCHANGED C!vars
<1>1. CASE \E x \in Slots : upId[x] = u
  <2>1. PICK x \in Slots : C!CancelUpload(x)
    BY <1>1 DEF CancelRow
  <2> QED BY <2>1, RowActions
<1>2. CASE ~ \E x \in Slots : upId[x] = u
  BY <1>2, CatalogStill DEF CancelRow
<1> QED BY <1>1, <1>2

(* Every step of the requests is a transaction of Catalog or leaves it alone. *)
LEMMA CatalogStep == IInv /\ [Next]_vars => [C!Next]_(C!vars)
<1> SUFFICES ASSUME IInv, [Next]_vars PROVE C!Next \/ UNCHANGED C!vars
  OBVIOUS
<1>1. CASE UNCHANGED vars
  BY <1>1, CatalogStill DEF vars
<1>2. CASE CreateBucket
  BY <1>2 DEF CreateBucket, C!Next
<1>3. CASE Restart \/ (\E u \in Ids : Expire(u) \/ \E v \in Payloads \cup {Partial} : Put(u, v))
  BY <1>3, CatalogStill DEF Restart, Expire, Put, ProviderOnly
<1>4. ASSUME NEW r \in Requests, Acts(r) PROVE C!Next \/ UNCHANGED C!vars
  <2>1. ~At(r, "idle") => req[r].x \in Slots
    BY DEF IInv, Local
  <2>2. CASE ProviderOnly
    BY <2>2, CatalogStill DEF ProviderOnly
  <2>3. CASE SweepCancel(r)
    BY <2>3, CancelRowStep, CatalogStill DEF SweepCancel
  <2>4. CASE BeginReserve(r)
    BY <2>1, <2>4, RowActions DEF BeginReserve, At
  <2>5. CASE BeginGrant(r)
    BY <2>5, CancelRowStep, CatalogStill DEF BeginGrant
  <2>6. CASE CommitRow(r)
    BY <2>1, <2>6, RowActions DEF CommitRow, At
  <2>7. CASE DeleteRow(r)
    BY <2>1, <2>7, RowActions, CatalogStill DEF DeleteRow, At
  <2>8. CASE RotateRow(r)
    BY <2>8, CatalogStill DEF RotateRow
  <2> QED BY <1>4, <2>2, <2>3, <2>4, <2>5, <2>6, <2>7, <2>8
          DEF Acts, Step, Cut, BeginSweep, CommitGet, DeleteGet, RotateGet, ReadRow, SweepDelete,
              BeginRefused, CommitHead, CommitCopy, CommitVerify,
              CommitRowFails, CommitUndo, CommitDeleteStaging, CommitDeleteOld, DeletePhysical,
              RotateCopy, RotateDelete, RotateRestore, RotateUndo
<1> QED BY <1>1, <1>2, <1>3, <1>4 DEF Next, Acts

-----------------------------------------------------------------------------
(* The rows, the store and the clients' side of a step. *)

Tables ==
  /\ objId \in [Slots -> Ids \cup {0}]
  /\ objPhys \in [Slots -> PhysKeys \cup {NoKey}]
  /\ objTag \in [Slots -> Payloads \cup {Gone}]
  /\ upId \in [Slots -> Ids \cup {0}]
  /\ missed \subseteq PhysKeys
  /\ Rows

Provider == store \in [PhysKeys -> Payloads \cup {Partial, Gone}]

Counts ==
  /\ granted \subseteq Ids /\ expired \subseteq Ids
  /\ ids \in 0..MaxUploads /\ finals \in 0..MaxFinals
  /\ puts \in 0..MaxPuts /\ faults \in 0..MaxFaults
  /\ delivered \in [Ids -> SUBSET Payloads]

(* The invariant, part by part. *)
LEMMA TypeParts ==
  IInv <=> /\ C!TypeOK /\ Tables /\ Provider /\ Counts
           /\ DOMAIN req = Requests /\ \A r \in Requests : Local(r)
BY DEF IInv, TypeOK, Tables, Provider, Counts, Local, HandlerTypes

(* Failures are counted within their bound. *)
LEMMA FaultStep == ASSUME IInv, Fault \/ NoFault PROVE faults' \in 0..MaxFaults
<1>1. faults \in 0..MaxFaults
  BY DEF IInv, TypeOK
<1> QED BY <1>1, BoundsInt DEF Fault, NoFault

(* Ids, grants, expiries and counters stay in their sets. *)
LEMMA CountsStep == ASSUME IInv, NEW r \in Requests, Acts(r) PROVE Counts'
<1>1. finals' \in 0..MaxFinals
  BY FinalsStep
<1>2. faults' \in 0..MaxFaults
  <2>1. Fault \/ NoFault
    BY DEF Acts, Step, Cut, BeginSweep, CommitGet, DeleteGet, RotateGet, ReadRow, SweepDelete,
     SweepCancel, BeginReserve, BeginRefused, BeginGrant, CommitHead, CommitCopy, CommitVerify,
     CommitRow, CommitRowFails, CommitUndo, CommitDeleteStaging, CommitDeleteOld, DeletePhysical,
     DeleteRow, RotateCopy, RotateDelete, RotateRow, RotateRestore, RotateUndo, TryUnlink, CopyFails
  <2> QED BY <2>1, FaultStep
<1>3. /\ UNCHANGED <<expired, puts, delivered>>
      /\ ids' = ids \/ (ids < MaxUploads /\ ids' = ids + 1)
      /\ granted' = granted \/ (At(r, "grant") /\ granted' = granted \cup {req[r].up})
  BY DEF Acts, Step, Cut, BeginSweep, CommitGet, DeleteGet, RotateGet, ReadRow, SweepDelete,
     SweepCancel, BeginReserve, BeginRefused, BeginGrant, CommitHead, CommitCopy, CommitVerify,
     CommitRow, CommitRowFails, CommitUndo, CommitDeleteStaging, CommitDeleteOld, DeletePhysical,
     DeleteRow, RotateCopy, RotateDelete, RotateRow, RotateRestore, RotateUndo, ProviderOnly, clientVars
<1>4. ids' \in 0..MaxUploads
  BY <1>3, BoundsInt DEF IInv, TypeOK
<1>5. granted' \subseteq Ids
  BY <1>3 DEF IInv, TypeOK, Local, At
<1> QED BY <1>1, <1>2, <1>3, <1>4, <1>5 DEF Counts, IInv, TypeOK, Ids

(* The provider holds a body or nothing under every physical key. *)
LEMMA StoreStep == ASSUME IInv, NEW r \in Requests, Acts(r) PROVE Provider'
<1>0. store \in [PhysKeys -> Payloads \cup {Partial, Gone}]
  BY DEF IInv, TypeOK
<1>1. ASSUME NEW p \in PhysKeys, TryUnlink(p) \/ Unlink(p) PROVE Provider'
  BY <1>0, <1>1 DEF TryUnlink, Unlink, Provider
<1>2. CASE StoreAlone
  BY <1>0, <1>2 DEF StoreAlone, Provider
<1>3. ASSUME NEW p \in PhysKeys, CopyTo(p) PROVE Provider'
  <2>1. finals \in 0..MaxFinals
    BY DEF IInv, TypeOK
  <2>2. FreshFinal \in PhysKeys
    BY <1>3, <2>1, BoundsInt, KeyFacts DEF CopyTo, FreshFinal
  <2> QED BY <1>0, <1>3, <2>2 DEF CopyTo, Provider
<1>4. ASSUME NEW p \in PhysKeys, CopyFails(p) PROVE Provider'
  BY <1>0, <1>3, <1>4 DEF CopyFails, Provider
<1>5. Local(r) /\ Drawn \subseteq PhysKeys /\ \A u \in Ids : Staging(u) \in PhysKeys
  BY DrawnFacts, KeyFacts DEF IInv
<1>6. ASSUME NEW u \in Ids, SweepDelete(r, u) PROVE Provider'
  <2>1. Unlink(Staging(u)) \/ UNCHANGED store
    BY <1>6 DEF SweepDelete
  <2> QED BY <1>0, <1>1, <1>5, <2>1 DEF Provider
<1>7. CASE CommitCopy(r) \/ RotateCopy(r)
  <2>1. CASE CommitCopy(r)
    BY <1>2, <1>3, <1>4, <1>5, <2>1 DEF CommitCopy, Local, At
  <2>2. CASE RotateCopy(r)
    BY <1>2, <1>3, <1>4, <1>5, <2>2 DEF RotateCopy, Local, At
  <2> QED BY <1>7, <2>1, <2>2
<1>8. CASE CommitUndo(r) \/ CommitDeleteStaging(r) \/ CommitDeleteOld(r) \/ DeletePhysical(r)
           \/ RotateDelete(r) \/ RotateUndo(r)
  BY <1>1, <1>5, <1>8 DEF CommitUndo, CommitDeleteStaging, CommitDeleteOld, DeletePhysical,
     RotateDelete, RotateUndo, Local, At
<1>9. CASE RotateRestore(r)
  <2>1. req[r].new \in PhysKeys
    BY <1>5, <1>9 DEF RotateRestore, Local, At
  <2>2. store' = store \/ store' = [store EXCEPT ![req[r].old] = store[req[r].new]]
    BY <1>9 DEF RotateRestore
  <2> QED BY <1>0, <2>1, <2>2 DEF Provider
<1> QED BY <1>2, <1>6, <1>7, <1>8, <1>9
        DEF Acts, Step, Cut, BeginSweep, CommitGet, DeleteGet, RotateGet, ReadRow,
     SweepCancel, BeginReserve, BeginRefused, BeginGrant, CommitHead, CommitVerify,
     CommitRow, CommitRowFails, DeleteRow, RotateRow

(* Removing an upload row clears ids and nothing else. *)
LEMMA CancelledTables ==
  ASSUME IInv, NEW u, CancelRow(u) PROVE upId' \in [Slots -> Ids \cup {0}]
BY DEF CancelRow, IInv, TypeOK

(* The rows keep their types, and a row its physical key. *)
LEMMA TablesStep == ASSUME IInv, NEW r \in Requests, Acts(r) PROVE Tables'
<1>0. Tables /\ Local(r) /\ Drawn \subseteq PhysKeys /\ Drawn \subseteq Drawn'
  BY TypeParts, DrawnFacts, FinalsStep, DrawnGrows DEF IInv
<1>1. CASE UNCHANGED rowVars /\ UNCHANGED missed
  BY <1>0, <1>1 DEF rowVars, Tables, Rows
<1>2. ASSUME upId' \in [Slots -> Ids \cup {0}], UNCHANGED <<objId, objPhys, objTag, missed>>
      PROVE  Tables'
  BY <1>0, <1>2 DEF Tables, Rows
<1>3. CASE SweepCancel(r)
  <2>1. upId' \in [Slots -> Ids \cup {0}]
    BY <1>0, <1>3, CancelledTables DEF SweepCancel, Tables
  <2> QED BY <1>2, <1>3, <2>1 DEF SweepCancel, clientVars
<1>4. CASE BeginReserve(r)
  <2>1. ids + 1 \in Ids
    BY <1>4, BoundsInt DEF BeginReserve, IInv, TypeOK, Ids
  <2>2. upId' \in [Slots -> Ids \cup {0}]
    BY <1>0, <1>4, <2>1 DEF BeginReserve, Tables
  <2> QED BY <1>2, <1>4, <2>2 DEF BeginReserve, clientVars
<1>5. CASE BeginGrant(r)
  <2>1. upId' \in [Slots -> Ids \cup {0}]
    BY <1>0, <1>5, CancelledTables DEF BeginGrant, Tables
  <2> QED BY <1>2, <1>5, <2>1 DEF BeginGrant
<1>6. CASE CommitRow(r)
  <2> DEFINE x == req[r].x
  <2>1. x \in Slots /\ req[r].up \in Ids /\ req[r].new \in Drawn /\ req[r].tag \in Payloads
    BY <1>0, <1>6 DEF CommitRow, Local, At
  <2>2. PICK i \in {req[r].up, objId[x]} :
          /\ upId' = [upId EXCEPT ![x] = 0]
          /\ objId' = [objId EXCEPT ![x] = i]
          /\ objPhys' = [objPhys EXCEPT ![x] = req[r].new]
          /\ objTag' = [objTag EXCEPT ![x] = req[r].tag]
          /\ missed' = missed
    BY <1>6 DEF CommitRow, clientVars
  <2>3. i \in Ids \cup {0}
    BY <1>0, <2>1 DEF Tables
  <2> HIDE DEF x
  <2>4. /\ upId' \in [Slots -> Ids \cup {0}] /\ objId' \in [Slots -> Ids \cup {0}]
        /\ objPhys' \in [Slots -> PhysKeys \cup {NoKey}]
        /\ objTag' \in [Slots -> Payloads \cup {Gone}]
    BY <1>0, <2>1, <2>2, <2>3 DEF Tables
  <2>5. req[r].new # NoKey
    BY <2>1, DrawnFacts DEF IInv
  <2>6. Rows'
    BY <1>0, <2>1, <2>2, <2>5 DEF Tables, Rows
  <2> QED BY <1>0, <2>2, <2>4, <2>6 DEF Tables
<1>7. CASE DeleteRow(r)
  <2> DEFINE x == req[r].x
  <2>1. x \in Slots /\ req[r].id \in Ids /\ 0 \notin Ids
    BY <1>0, <1>7 DEF DeleteRow, Local, At, Ids
  <2>2. CASE objId[x] # req[r].id
    BY <1>1, <1>7, <2>2 DEF DeleteRow, rowVars
  <2>3. CASE objId[x] = req[r].id
    <3>1. /\ objId' = [objId EXCEPT ![x] = 0]
          /\ objPhys' = [objPhys EXCEPT ![x] = NoKey]
          /\ objTag' = [objTag EXCEPT ![x] = Gone]
          /\ missed' = missed \cup ({objPhys[x]} \ {req[r].old}) /\ upId' = upId
      BY <1>7, <2>3 DEF DeleteRow
    <3>2. objPhys[x] \in PhysKeys
      BY <1>0, <2>1, <2>3 DEF Tables, Rows
    <3> HIDE DEF x
    <3>3. Rows'
      BY <1>0, <3>1 DEF Tables, Rows
    <3> QED BY <1>0, <3>1, <3>2, <3>3 DEF Tables
  <2> QED BY <2>2, <2>3
<1>8. CASE RotateRow(r)
  <2>1. req[r].new \in Drawn
    BY <1>0, <1>8 DEF RotateRow, Local, At
  <2>2. /\ UNCHANGED <<objId, objTag, upId, missed>>
        /\ \/ objPhys' = objPhys
           \/ objPhys' = [objPhys EXCEPT ![req[r].x] = req[r].new]
    BY <1>8 DEF RotateRow, clientVars
  <2>3. req[r].new # NoKey
    BY <2>1, DrawnFacts DEF IInv
  <2> QED BY <1>0, <2>1, <2>2, <2>3 DEF Tables, Rows
<1> QED BY <1>1, <1>3, <1>4, <1>5, <1>6, <1>7, <1>8
        DEF Acts, Step, Cut, BeginSweep, CommitGet, DeleteGet, RotateGet, ReadRow, SweepDelete,
     BeginRefused, CommitHead, CommitCopy, CommitVerify, CommitRowFails, CommitUndo,
     CommitDeleteStaging, CommitDeleteOld, DeletePhysical, RotateCopy, RotateDelete, RotateRestore,
     RotateUndo, ProviderOnly, clientVars

(* One handler moves; the others keep what they remember. *)
LEMMA OthersKept ==
  ASSUME IInv, NEW r \in Requests, Kept(r), Drawn \subseteq Drawn'
  PROVE  DOMAIN req' = Requests /\ \A q \in Requests : Local(q)'
<1>1. ASSUME NEW q \in Requests \ {r} PROVE Local(q)'
  <2>1. Local(q) /\ req'[q] = req[q]
    BY DEF Kept, IInv
  <2> QED BY <2>1 DEF Local, At
<1> QED BY <1>1 DEF Kept

(* The catalog stays well typed, by the theorem about Catalog. *)
LEMMA CatalogTypeStep == IInv /\ [Next]_vars => C!TypeOK'
<1> SUFFICES ASSUME IInv, [Next]_vars PROVE C!TypeOK'
  OBVIOUS
<1>1. [CP!Next]_(CP!vars)
  <2>1. C!Next \/ UNCHANGED C!vars
    BY CatalogStep
  <2>2. (C!vars = CP!vars)'
    BY SameVars, PTL
  <2>3. CP!Next \/ UNCHANGED CP!vars
    BY <2>1, <2>2, SameNext, SameVars
  <2> QED BY <2>3
<1>2. CP!TypeOK
  BY SameTypes DEF IInv, TypeOK
<1>3. CP!TypeOK'
  BY <1>1, <1>2, CP!TypeStep, CatalogAssumptions
<1>4. (C!TypeOK <=> CP!TypeOK)'
  BY SameTypes, PTL
<1> QED BY <1>3, <1>4

(* The invariant is inductive: one step per action of Next. *)
LEMMA IInvStep == IInv /\ [Next]_vars => IInv'
<1> SUFFICES ASSUME IInv, [Next]_vars PROVE IInv'
  OBVIOUS
<1>0. /\ Tables /\ Provider /\ Counts /\ DOMAIN req = Requests
      /\ \A r \in Requests : Local(r)
  BY TypeParts
<1>1. C!TypeOK'
  BY CatalogTypeStep
<1>2. Tables' /\ Provider' /\ Counts' /\ DOMAIN req' = Requests /\ \A r \in Requests : Local(r)'
  <2>1. CASE UNCHANGED vars
    BY <1>0, <2>1 DEF vars, catalogVars, rowVars, clientVars, Tables, Rows, Drawn, Provider, Counts, Local, At
  <2>2. CASE CreateBucket
    BY <1>0, <2>2 DEF CreateBucket, catalogVars, rowVars, clientVars, Tables, Rows, Drawn, Provider, Counts, Local, At
  <2>3. CASE Restart
    <3>1. Tables' /\ Provider' /\ UNCHANGED <<granted, expired, ids, finals, puts, delivered>>
      BY <1>0, <2>3 DEF Restart, ProviderOnly, StoreAlone, rowVars, clientVars, Tables, Rows, Drawn, Provider
    <3>2. faults' \in 0..MaxFaults
      BY <2>3, FaultStep DEF Restart
    <3>3. Counts'
      BY <1>0, <3>1, <3>2 DEF Counts
    <3>4. req' = [r \in Requests |-> Idle]
      BY <2>3 DEF Restart
    <3>5. \A r \in Requests : Local(r)'
      BY <3>4, IdleLocal DEF Local, At
    <3> QED BY <3>1, <3>3, <3>4, <3>5
  <2>4. ASSUME NEW u \in Ids, Expire(u)
        PROVE  Tables' /\ Provider' /\ Counts' /\ DOMAIN req' = Requests /\ \A r \in Requests : Local(r)'
    BY <1>0, <2>4 DEF Expire, rowVars, Tables, Rows, Drawn, Provider, Counts, Local, At
  <2>5. ASSUME NEW u \in Ids, NEW v \in Payloads \cup {Partial}, Put(u, v)
        PROVE  Tables' /\ Provider' /\ Counts' /\ DOMAIN req' = Requests /\ \A r \in Requests : Local(r)'
    <3>1. Tables' /\ DOMAIN req' = Requests /\ \A r \in Requests : Local(r)'
      BY <1>0, <2>5 DEF Put, rowVars, Tables, Rows, Drawn, Local, At
    <3>2. Provider'
      BY <1>0, <2>5 DEF Put, Provider
    <3>3. puts' \in 0..MaxPuts
      BY <1>0, <2>5, BoundsInt DEF Put, Counts
    <3>4. delivered' \in [Ids -> SUBSET Payloads]
      BY <1>0, <2>5 DEF Put, Counts
    <3>5. Counts'
      BY <1>0, <2>5, <3>3, <3>4 DEF Put, Counts
    <3> QED BY <3>1, <3>2, <3>5
  <2>6. ASSUME NEW r \in Requests, Acts(r)
        PROVE  Tables' /\ Provider' /\ Counts' /\ DOMAIN req' = Requests /\ \A q \in Requests : Local(q)'
    <3>1. Kept(r)
      BY <2>6, StepKept, BeginKept DEF Acts
    <3>2. Drawn \subseteq Drawn'
      BY <2>6, FinalsStep, DrawnGrows DEF IInv
    <3> QED BY <2>6, <3>1, <3>2, TablesStep, StoreStep, CountsStep, OthersKept
  <2> QED BY <2>1, <2>2, <2>3, <2>4, <2>5, <2>6 DEF Next, Acts
<1>3. (IInv <=> /\ C!TypeOK /\ Tables /\ Provider /\ Counts
           /\ DOMAIN req = Requests /\ \A r \in Requests : Local(r))'
  BY TypeParts, PTL
<1> QED BY <1>1, <1>2, <1>3

(* The empty service satisfies it. *)
LEMMA IInvInit == Init => IInv
<1> SUFFICES ASSUME Init PROVE IInv
  OBVIOUS
<1>1. C!TypeOK
  <2>1. CP!Init
    BY SameInit DEF Init
  <2> QED BY <2>1, CP!TypeInit, CatalogAssumptions, SameTypes
<1>2. Tables /\ Provider /\ Counts
  BY BoundsInt DEF Init, Tables, Rows, Provider, Counts, Ids
<1>3. DOMAIN req = Requests /\ \A r \in Requests : Local(r)
  BY IdleLocal DEF Init, Local, At
<1> QED BY <1>1, <1>2, <1>3, TypeParts

(* The requests keep every table, the store, the counters and the handlers'
   program counters well typed: begin, sweep, commit, delete and rotate, with
   failures, disconnections and restarts, for every number of requests. *)
THEOREM ObjectsTypeCorrect == Spec => []TypeOK
<1>1. IInv => TypeOK
  BY DEF IInv
<1> QED BY IInvInit, IInvStep, <1>1, PTL DEF Spec

(* The catalog underneath keeps its promises: every step of BeginUpload,
   CommitUpload, Delete and RotateObjectKey is a transaction of Catalog or
   leaves its rows alone, whatever fails or is cut short. *)
THEOREM CatalogImplemented == Spec => CatalogSpec
<1>1. Init => C!Init
  BY DEF Init
<1> QED BY <1>1, IInvInit, IInvStep, CatalogStep, PTL DEF Spec, CatalogSpec, C!Spec

-----------------------------------------------------------------------------
(* Without rotations. *)

RotatePcs == {"rotatecopy", "rotatedelete", "rotaterow", "restore", "unrotate"}
NoRotation == \A r \in Requests : req[r].pc \notin RotatePcs

(* A written final key keeps its body until it is deleted. *)
Written == \A p \in Drawn : store'[p] \in {store[p], Gone}

(* Where no client rotates, no handler is ever inside a rotation. *)
LEMMA NoRotationStep ==
  ASSUME "rotate" \notin Ops PROVE IInv /\ NoRotation /\ [Next]_vars => NoRotation'
<1> SUFFICES ASSUME IInv, NoRotation, [Next]_vars PROVE NoRotation'
  OBVIOUS
<1>1. CASE UNCHANGED req
  BY <1>1 DEF NoRotation
<1>2. CASE Restart
  BY <1>2, IdleLocal DEF Restart, NoRotation, RotatePcs
<1>3. ASSUME NEW r \in Requests, Acts(r) PROVE NoRotation'
  <2>1. Kept(r)
    BY <1>3, StepKept, BeginKept DEF Acts
  <2>2. req'[r].pc \notin RotatePcs
    <3>0. req[r] \in HandlerTypes /\ DOMAIN req = Requests /\ req[r].pc \notin RotatePcs
      BY DEF IInv, TypeOK, Local, NoRotation
    <3>1. CASE Return(r)
      BY <3>1, ReturnLocal, IdleLocal DEF RotatePcs
    <3>2. ASSUME NEW pc \in Pcs \ RotatePcs, Goto(r, pc) PROVE req'[r].pc \notin RotatePcs
      BY <3>2, GotoLocal
    <3>3. CASE \E k \in Keys : BeginSweep(r, k) \/ CommitGet(r, k) \/ DeleteGet(r, k) \/ RotateGet(r, k)
      <4>1. ASSUME NEW h, h.pc \notin RotatePcs, req' = [req EXCEPT ![r] = h] PROVE req'[r].pc \notin RotatePcs
        BY <3>0, <4>1
      <4>2. PICK k \in Keys : BeginSweep(r, k) \/ CommitGet(r, k) \/ ReadRow(r, k, "delete", "delete")
        BY <3>3 DEF DeleteGet, RotateGet, ReadRow
      <4>3. CASE BeginSweep(r, k)
        BY <4>1, <4>3 DEF BeginSweep, RotatePcs, Idle
      <4>4. CASE CommitGet(r, k)
        BY <4>1, <4>4 DEF CommitGet, RotatePcs, Idle
      <4>5. CASE ReadRow(r, k, "delete", "delete")
        BY <4>1, <4>5 DEF ReadRow, RotatePcs, Idle
      <4> QED BY <4>2, <4>3, <4>4, <4>5
    <3>4. CASE \E u \in Ids : SweepDelete(r, u)
      BY <3>0, <3>4 DEF SweepDelete, RotatePcs, HandlerTypes
    <3>5. CASE SweepCancel(r) \/ BeginReserve(r) \/ CommitCopy(r) \/ CommitVerify(r) \/ CommitRow(r)
      BY <3>0, <3>1, <3>2, <3>5
      DEF SweepCancel, BeginReserve, CommitCopy, CommitVerify, CommitRow, RotatePcs, HandlerTypes, Pcs
    <3>6. CASE CommitHead(r) \/ CommitRowFails(r) \/ CommitDeleteStaging(r) \/ DeletePhysical(r)
      BY <3>1, <3>2, <3>6
      DEF CommitHead, CommitRowFails, CommitDeleteStaging, DeletePhysical, RotatePcs, Pcs
    <3>7. CASE Cut(r) \/ BeginRefused(r) \/ BeginGrant(r) \/ CommitUndo(r) \/ CommitDeleteOld(r)
               \/ DeleteRow(r)
      BY <3>1, <3>7 DEF Cut, BeginRefused, BeginGrant, CommitUndo, CommitDeleteOld, DeleteRow
    <3>8. ~(RotateCopy(r) \/ RotateDelete(r) \/ RotateRow(r) \/ RotateRestore(r) \/ RotateUndo(r))
      BY <3>0 DEF RotateCopy, RotateDelete, RotateRow, RotateRestore, RotateUndo, At, RotatePcs
    <3> QED BY <1>3, <3>3, <3>4, <3>5, <3>6, <3>7, <3>8 DEF Acts, Step
  <2> QED BY <2>1, <2>2 DEF NoRotation, Kept
<1> QED BY <1>1, <1>2, <1>3
        DEF Next, Acts, CreateBucket, Expire, Put, vars

(* Where nobody rotates, a body under a final key is immutable until deleted. *)
LEMMA WrittenStep == IInv /\ NoRotation /\ [Next]_vars => Written
<1> SUFFICES ASSUME IInv, NoRotation, [Next]_vars PROVE Written
  OBVIOUS
<1>0. /\ store \in [PhysKeys -> Payloads \cup {Partial, Gone}] /\ Drawn \subseteq PhysKeys
      /\ finals \in Nat
  BY DrawnFacts DEF IInv, TypeOK
<1>1. CASE UNCHANGED store
  BY <1>1 DEF Written
<1>2. ASSUME NEW p, Unlink(p) PROVE Written
  BY <1>0, <1>2 DEF Unlink, Written
<1>3. ASSUME NEW p, CopyTo(p) PROVE Written
  <2>1. FreshFinal \notin Drawn
    BY <1>0, KeyFacts DEF FreshFinal, Drawn
  <2> QED BY <1>0, <1>3, <2>1 DEF CopyTo, Written
<1>4. ASSUME NEW u \in Ids, NEW v, Put(u, v) PROVE Written
  <2>1. Staging(u) \notin Drawn
    BY <1>0, KeyFacts DEF Drawn
  <2> QED BY <1>0, <1>4, <2>1 DEF Put, Written
<1>5. ASSUME NEW r \in Requests, Acts(r) PROVE Written
  <2>1. ~(RotateCopy(r) \/ RotateDelete(r) \/ RotateRow(r) \/ RotateRestore(r) \/ RotateUndo(r))
    BY DEF RotateCopy, RotateDelete, RotateRow, RotateRestore, RotateUndo, At, RotatePcs, NoRotation
  <2>2. CASE CommitCopy(r)
    BY <1>1, <1>3, <2>2 DEF CommitCopy, CopyFails, StoreAlone
  <2> QED BY <1>1, <1>2, <1>5, <2>1, <2>2
          DEF Acts, Step, Cut, BeginSweep, CommitGet, DeleteGet, RotateGet, ReadRow, SweepDelete,
     SweepCancel, BeginReserve, BeginRefused, BeginGrant, CommitHead, CommitVerify,
     CommitRow, CommitRowFails, CommitUndo, CommitDeleteStaging, CommitDeleteOld, DeletePhysical,
     DeleteRow, TryUnlink, StoreAlone
<1> QED BY <1>1, <1>4, <1>5 DEF Next, Acts, CreateBucket, Restart, Expire, StoreAlone, vars

-----------------------------------------------------------------------------
Sound ==
  /\ \A x \in Slots : objPhys[x] # NoKey => store[objPhys[x]] \in {objTag[x], Gone}
  /\ \A r \in Requests : At(r, "commit") => store[req[r].new] \in {req[r].tag, Gone}

(* Rows and commits agree with the bodies they name. *)
LEMMA SoundStep ==
  IInv /\ NoRotation /\ Sound /\ [Next]_vars => Sound'
<1> SUFFICES ASSUME IInv, NoRotation, Sound, [Next]_vars PROVE Sound'
  OBVIOUS
<1>0. /\ Written /\ DOMAIN req = Requests
      /\ \A x \in Slots : objPhys[x] \in Drawn \cup {NoKey}
      /\ \A r \in Requests : At(r, "commit") => req[r].new \in Drawn
  BY WrittenStep DEF IInv, TypeOK, Rows, Local, At
<1>1. CASE UNCHANGED <<objPhys, objTag, req>>
  BY <1>0, <1>1 DEF Sound, Written, At
<1>2. CASE Restart
  BY <1>0, <1>2, IdleLocal DEF Restart, ProviderOnly, rowVars, StoreAlone, Sound, At
<1>3. ASSUME NEW r \in Requests, Acts(r) PROVE Sound'
  <2>0. Kept(r)
    BY <1>3, StepKept, BeginKept DEF Acts
  <2>1. ASSUME UNCHANGED <<objPhys, objTag>>,
               req'[r].pc # "commit" \/ store'[req'[r].new] \in {req'[r].tag, Gone}
        PROVE  Sound'
    BY <1>0, <2>0, <2>1 DEF Sound, Written, At, Kept
  <2>2. ~(RotateCopy(r) \/ RotateDelete(r) \/ RotateRow(r) \/ RotateRestore(r) \/ RotateUndo(r))
    BY DEF RotateCopy, RotateDelete, RotateRow, RotateRestore, RotateUndo, At, RotatePcs, NoRotation
  <2>3. req[r] \in HandlerTypes
    BY DEF IInv, Local
  <2>4. CASE Return(r) /\ UNCHANGED <<objPhys, objTag>>
    BY <2>1, <2>4, ReturnLocal, IdleLocal
  <2>5. ASSUME NEW pc \in Pcs \ {"commit"}, Goto(r, pc), UNCHANGED <<objPhys, objTag>> PROVE Sound'
    BY <2>1, <2>5, GotoLocal
  <2>6. CASE \E k \in Keys : BeginSweep(r, k) \/ CommitGet(r, k) \/ DeleteGet(r, k) \/ RotateGet(r, k)
    BY <1>0, <2>1, <2>6 DEF BeginSweep, CommitGet, DeleteGet, RotateGet, ReadRow, Idle,
       ProviderOnly, rowVars
  <2>7. CASE (\E u \in Ids : SweepDelete(r, u)) \/ SweepCancel(r) \/ BeginReserve(r)
    BY <1>0, <2>1, <2>3, <2>7 DEF SweepDelete, SweepCancel, BeginReserve, ProviderOnly, rowVars, At,
       HandlerTypes
  <2>8. CASE CommitCopy(r)
    BY <1>0, <2>1, <2>3, <2>4, <2>8 DEF CommitCopy, ProviderOnly, rowVars, HandlerTypes
  <2>9. CASE CommitVerify(r)
    <3>1. UNCHANGED <<objPhys, objTag, store>>
      BY <2>9 DEF CommitVerify, ProviderOnly, rowVars, StoreAlone
    <3>2. CASE Goto(r, "undo")
      BY <2>5, <3>1, <3>2 DEF Pcs
    <3>3. CASE req' = [req EXCEPT ![r].pc = "commit", ![r].tag = store[req[r].new]]
      BY <1>0, <2>1, <2>3, <3>1, <3>3 DEF HandlerTypes
    <3> QED BY <2>9, <3>2, <3>3 DEF CommitVerify
  <2>10. CASE CommitRow(r)
    <3> DEFINE x == req[r].x
    <3>1. /\ objPhys' = [objPhys EXCEPT ![x] = req[r].new]
          /\ objTag' = [objTag EXCEPT ![x] = req[r].tag]
          /\ store' = store /\ At(r, "commit")
          /\ req' = [req EXCEPT ![r].pc = "delstaging", ![r].old = objPhys[x]]
      BY <2>10 DEF CommitRow, StoreAlone
    <3>2. objPhys \in [Slots -> PhysKeys \cup {NoKey}] /\ objTag \in [Slots -> Payloads \cup {Gone}]
      BY DEF IInv, TypeOK
    <3>3. req'[r].pc = "delstaging"
      BY <1>0, <2>3, <3>1 DEF HandlerTypes
    <3>4. \A y \in Slots : objPhys'[y] # NoKey => store'[objPhys'[y]] \in {objTag'[y], Gone}
      BY <3>1, <3>2 DEF Sound, At
    <3> QED BY <2>0, <3>1, <3>3, <3>4 DEF Sound, At, Kept
  <2>11. CASE DeleteRow(r)
    <3> DEFINE x == req[r].x
    <3>1. CASE UNCHANGED <<objPhys, objTag>>
      BY <2>4, <2>11, <3>1 DEF DeleteRow
    <3>2. CASE /\ objPhys' = [objPhys EXCEPT ![x] = NoKey]
               /\ objTag' = [objTag EXCEPT ![x] = Gone]
      <4>1. req'[r] = Idle /\ store' = store
        BY <2>11, ReturnLocal DEF DeleteRow, StoreAlone
      <4>2. objPhys \in [Slots -> PhysKeys \cup {NoKey}] /\ objTag \in [Slots -> Payloads \cup {Gone}]
        BY DEF IInv, TypeOK
      <4> QED BY <2>0, <3>2, <4>1, <4>2, IdleLocal DEF Sound, At, Kept
    <3> QED BY <2>11, <3>1, <3>2 DEF DeleteRow
  <2>12. CASE CommitHead(r) \/ CommitRowFails(r) \/ CommitDeleteStaging(r) \/ DeletePhysical(r)
    BY <2>4, <2>5, <2>12
    DEF CommitHead, CommitRowFails, CommitDeleteStaging, DeletePhysical, ProviderOnly, rowVars, Pcs
  <2>13. CASE Cut(r) \/ BeginRefused(r) \/ BeginGrant(r) \/ CommitUndo(r) \/ CommitDeleteOld(r)
    BY <2>4, <2>13 DEF Cut, BeginRefused, BeginGrant, CommitUndo, CommitDeleteOld, ProviderOnly, rowVars
  <2> QED BY <1>3, <2>2, <2>6, <2>7, <2>8, <2>9, <2>10, <2>11, <2>12, <2>13 DEF Acts, Step
<1> QED BY <1>1, <1>2, <1>3
        DEF Next, Acts, CreateBucket, Expire, Put, vars, rowVars

HeldBy(r, p) ==
  \/ req[r].pc \in {"verify", "commit", "undo"} /\ req[r].new = p
  \/ req[r].pc \in {"delstaging", "delold"} /\ req[r].old = p

Held(p) == \E r \in Requests : HeldBy(r, p)
Mapped(p) == \E x \in Slots : objPhys[x] = p

Unlinked == \A r \in Requests : At(r, "deleterow") => store[req[r].old] = Gone

Accounted ==
  \A n \in 1..MaxFinals :
    store[Final(n)] # Gone => Final(n) \in missed \/ Mapped(Final(n)) \/ Held(Final(n))

(* A step without a failure says so. *)
LEMMA FaultsCounted == ASSUME NEW r \in Requests, Acts(r) PROVE Fault \/ NoFault
BY DEF Acts, Step, Cut, BeginSweep, CommitGet, DeleteGet, RotateGet, ReadRow, SweepDelete,
   SweepCancel, BeginReserve, BeginRefused, BeginGrant, CommitHead, CommitCopy, CommitVerify,
   CommitRow, CommitRowFails, CommitUndo, CommitDeleteStaging, CommitDeleteOld, DeletePhysical,
   DeleteRow, RotateCopy, RotateDelete, RotateRow, RotateRestore, RotateUndo, TryUnlink, CopyFails

(* What a delete has unlinked stays gone until its row goes. *)
LEMMA UnlinkedStep == IInv /\ NoRotation /\ Unlinked /\ [Next]_vars => Unlinked'
<1> SUFFICES ASSUME IInv, NoRotation, Unlinked, [Next]_vars PROVE Unlinked'
  OBVIOUS
<1>0. /\ Written /\ DOMAIN req = Requests /\ Drawn \subseteq PhysKeys
      /\ \A r \in Requests : At(r, "deleterow") => req[r].old \in Drawn
  BY WrittenStep, DrawnFacts DEF IInv, TypeOK, Local, At
<1>1. CASE UNCHANGED req
  BY <1>0, <1>1 DEF Unlinked, Written, At
<1>2. CASE Restart
  BY <1>0, <1>2, IdleLocal DEF Restart, Unlinked, At
<1>3. ASSUME NEW r \in Requests, Acts(r) PROVE Unlinked'
  <2>0. Kept(r)
    BY <1>3, StepKept, BeginKept DEF Acts
  <2>1. CASE req'[r].pc # "deleterow" \/ store'[req'[r].old] = Gone
    BY <1>0, <2>0, <2>1 DEF Unlinked, Written, At, Kept
  <2>2. ~(RotateCopy(r) \/ RotateDelete(r) \/ RotateRow(r) \/ RotateRestore(r) \/ RotateUndo(r))
    BY DEF RotateCopy, RotateDelete, RotateRow, RotateRestore, RotateUndo, At, RotatePcs, NoRotation
  <2>3. req[r] \in HandlerTypes
    BY DEF IInv, Local
  <2>4. CASE Return(r)
    BY <2>1, <2>4, ReturnLocal, IdleLocal
  <2>5. ASSUME NEW pc \in Pcs \ {"deleterow"}, Goto(r, pc) PROVE Unlinked'
    BY <2>1, <2>5, GotoLocal
  <2>6. CASE \E k \in Keys : BeginSweep(r, k) \/ CommitGet(r, k) \/ DeleteGet(r, k) \/ RotateGet(r, k)
    BY <1>0, <2>1, <2>6 DEF BeginSweep, CommitGet, DeleteGet, RotateGet, ReadRow, Idle
  <2>7. CASE (\E u \in Ids : SweepDelete(r, u)) \/ SweepCancel(r) \/ BeginReserve(r)
    BY <1>0, <2>1, <2>3, <2>7 DEF SweepDelete, SweepCancel, BeginReserve, At, HandlerTypes
  <2>8. CASE CommitCopy(r) \/ CommitVerify(r) \/ CommitRow(r)
    BY <1>0, <2>1, <2>3, <2>4, <2>5, <2>8 DEF CommitCopy, CommitVerify, CommitRow, HandlerTypes, Pcs
  <2>9. CASE DeletePhysical(r)
    <3>1. req[r].old \in Drawn /\ store' = [store EXCEPT ![req[r].old] = Gone]
      BY <2>9 DEF DeletePhysical, Unlink, IInv, Local, At
    <3>2. req'[r].old = req[r].old
      BY <2>9, GotoLocal DEF DeletePhysical, Pcs
    <3> QED BY <1>0, <2>1, <3>1, <3>2 DEF IInv, TypeOK
  <2>12. CASE CommitHead(r) \/ CommitRowFails(r) \/ CommitDeleteStaging(r)
    BY <2>4, <2>5, <2>12 DEF CommitHead, CommitRowFails, CommitDeleteStaging, Pcs
  <2>13. CASE Cut(r) \/ BeginRefused(r) \/ BeginGrant(r) \/ CommitUndo(r) \/ CommitDeleteOld(r)
              \/ DeleteRow(r)
    BY <2>4, <2>13 DEF Cut, BeginRefused, BeginGrant, CommitUndo, CommitDeleteOld, DeleteRow
  <2> QED BY <1>3, <2>2, <2>6, <2>7, <2>8, <2>9, <2>12, <2>13 DEF Acts, Step
<1> QED BY <1>1, <1>2, <1>3 DEF Next, Acts, CreateBucket, Expire, Put, vars

(* The new key of a commit passes from its handler to the row, the replaced
   one from the row to the handler that deletes it. *)
LEMMA AccountedStep ==
  IInv /\ NoRotation /\ Unlinked /\ (faults = 0 => Accounted) /\ [Next]_vars => (faults' = 0 => Accounted')
<1> SUFFICES ASSUME IInv, NoRotation, Unlinked, faults = 0 => Accounted, [Next]_vars, faults' = 0
             PROVE  Accounted'
  OBVIOUS
<1>0. /\ Written /\ DOMAIN req = Requests
      /\ store \in [PhysKeys -> Payloads \cup {Partial, Gone}] /\ Drawn \subseteq PhysKeys
      /\ \A u \in Ids : Staging(u) \in PhysKeys /\ \A n \in Int : Staging(u) # Final(n)
      /\ \A n \in 1..MaxFinals : Final(n) \in PhysKeys /\ Final(n) # NoKey
  BY WrittenStep, DrawnFacts, KeyFacts DEF IInv, TypeOK
<1>1. faults = 0 /\ ~Fault
  <2>1. faults \in 0..MaxFaults /\ faults \in Int
    BY BoundsInt DEF IInv, TypeOK
  <2>2. ~Fault
    BY <2>1, BoundsInt DEF Fault
  <2>3. Fault \/ UNCHANGED faults
    BY FaultsCounted DEF Next, Acts, CreateBucket, Restart, Expire, Put, vars, NoFault
  <2> QED BY <2>2, <2>3
<1>a. Accounted
  BY <1>1
<1>2. CASE UNCHANGED <<store, objPhys, missed, req>>
  BY <1>a, <1>2 DEF Accounted, Mapped, Held, HeldBy
<1>3. ASSUME NEW u \in Ids, NEW v, Put(u, v) PROVE Accounted'
  <2>1. UNCHANGED <<objPhys, missed, req>> /\ \A n \in 1..MaxFinals : store'[Final(n)] = store[Final(n)]
    BY <1>0, <1>3 DEF Put, rowVars
  <2> QED BY <1>a, <2>1 DEF Accounted, Mapped, Held, HeldBy
<1>4. ASSUME NEW r \in Requests, Acts(r) PROVE Accounted'
  <2>0. /\ \A q \in Requests \ {r} : \A p : HeldBy(q, p) => HeldBy(q, p)'
        /\ req[r] \in HandlerTypes /\ Local(r)
    BY <1>4, StepKept, BeginKept DEF Acts, Kept, HeldBy, IInv, Local
  <2>1. ASSUME UNCHANGED objPhys, missed \subseteq missed',
               \A n \in 1..MaxFinals : store'[Final(n)] # Gone => store[Final(n)] # Gone,
               \A n \in 1..MaxFinals : HeldBy(r, Final(n)) => store'[Final(n)] = Gone \/ HeldBy(r, Final(n))'
        PROVE  Accounted'
    BY <1>a, <2>0, <2>1 DEF Accounted, Mapped, Held
  <2>2. ~(RotateCopy(r) \/ RotateDelete(r) \/ RotateRow(r) \/ RotateRestore(r) \/ RotateUndo(r) \/ Cut(r))
    BY <1>1 DEF Cut, RotateCopy, RotateDelete, RotateRow, RotateRestore, RotateUndo, At, RotatePcs, NoRotation
  <2>3. ASSUME NEW p \in PhysKeys, TryUnlink(p) \/ Unlink(p)
        PROVE  /\ \A n \in 1..MaxFinals : store'[Final(n)] # Gone => store[Final(n)] # Gone
               /\ store'[p] = Gone
    BY <1>0, <1>1, <2>3 DEF TryUnlink, Unlink
  <2>4. ASSUME StoreAlone
        PROVE  \A n \in 1..MaxFinals : store'[Final(n)] # Gone => store[Final(n)] # Gone
    BY <2>4 DEF StoreAlone
  <2>5. ASSUME ProviderOnly PROVE UNCHANGED objPhys /\ missed \subseteq missed'
    BY <2>5 DEF ProviderOnly, rowVars, clientVars
  <2>6. CASE \E k \in Keys : BeginSweep(r, k) \/ CommitGet(r, k) \/ DeleteGet(r, k) \/ RotateGet(r, k)
    <3>1. At(r, "idle") /\ ProviderOnly /\ StoreAlone
      BY <2>6 DEF BeginSweep, CommitGet, DeleteGet, RotateGet, ReadRow, Enter
    <3>2. \A p : ~HeldBy(r, p)
      BY <3>1 DEF At, HeldBy
    <3> QED BY <2>1, <2>4, <2>5, <3>1, <3>2
  <2>7. CASE SweepCancel(r) \/ BeginReserve(r) \/ BeginRefused(r) \/ BeginGrant(r) \/ CommitHead(r)
    <3>1. /\ req[r].pc \in {"sweep", "cancel", "grant", "head"} /\ StoreAlone
          /\ UNCHANGED <<objPhys, missed>>
      BY <2>7 DEF SweepCancel, BeginReserve, BeginRefused, BeginGrant, CommitHead, At, ProviderOnly,
         rowVars, clientVars
    <3>2. \A p : ~HeldBy(r, p)
      BY <3>1 DEF HeldBy
    <3> QED BY <2>1, <2>4, <3>1, <3>2
  <2>8. CASE \E u \in Ids : SweepDelete(r, u)
    <3>1. PICK u \in Ids : SweepDelete(r, u)
      BY <2>8
    <3>2. At(r, "sweep") /\ ProviderOnly /\ Unlink(Staging(u))
      BY <1>1, <3>1 DEF SweepDelete
    <3>3. \A p : ~HeldBy(r, p)
      BY <3>2 DEF HeldBy, At
    <3> QED BY <1>0, <2>1, <2>3, <2>5, <3>2, <3>3
  <2>9. CASE DeletePhysical(r)
    <3>1. At(r, "delete") /\ ProviderOnly /\ Unlink(req[r].old) /\ req[r].old \in PhysKeys
      BY <1>0, <2>0, <2>9 DEF DeletePhysical, Local, At
    <3>2. \A p : ~HeldBy(r, p)
      BY <3>1 DEF HeldBy, At
    <3> QED BY <2>1, <2>3, <2>5, <3>1, <3>2
  <2>10. CASE CommitCopy(r)
    <3>1. At(r, "copy") /\ ProviderOnly
      BY <2>10 DEF CommitCopy
    <3>2. \A p : ~HeldBy(r, p)
      BY <3>1 DEF HeldBy, At
    <3>3. CASE StoreAlone
      BY <2>1, <2>4, <2>5, <3>1, <3>2, <3>3
    <3>4. CASE /\ CopyTo(Staging(req[r].up))
               /\ req' = [req EXCEPT ![r].pc = "verify", ![r].new = FreshFinal]
      <4>1. \A p : p = FreshFinal => HeldBy(r, p)'
        BY <1>0, <2>0, <3>4 DEF HeldBy, HandlerTypes
      <4>2. \A n \in 1..MaxFinals : store'[Final(n)] = store[Final(n)] \/ Final(n) = FreshFinal
        BY <1>0, <3>4 DEF CopyTo
      <4>3. ASSUME NEW n \in 1..MaxFinals, store'[Final(n)] # Gone
            PROVE  (Final(n) \in missed \/ Mapped(Final(n)) \/ Held(Final(n)))'
        <5>1. CASE Final(n) = FreshFinal
          BY <4>1, <5>1 DEF Held
        <5>2. CASE store'[Final(n)] = store[Final(n)]
          BY <1>a, <2>0, <2>5, <3>1, <3>2, <4>3, <5>2 DEF Accounted, Mapped, Held
        <5> QED BY <4>2, <5>1, <5>2
      <4> QED BY <4>3 DEF Accounted
    <3> QED BY <1>1, <2>10, <3>3, <3>4 DEF CommitCopy, CopyFails, StoreAlone
  <2>11. CASE CommitVerify(r) \/ CommitRowFails(r)
    <3>1. /\ req[r].pc \in {"verify", "commit"} /\ ProviderOnly /\ StoreAlone
          /\ \/ Goto(r, "undo")
             \/ req' = [req EXCEPT ![r].pc = "commit", ![r].tag = store[req[r].new]]
      BY <2>11 DEF CommitVerify, CommitRowFails, At
    <3>2. req'[r].new = req[r].new /\ req'[r].pc \in {"commit", "undo"}
      BY <1>0, <2>0, <3>1 DEF Goto, HandlerTypes
    <3>3. \A p : HeldBy(r, p) => HeldBy(r, p)'
      BY <3>1, <3>2 DEF HeldBy
    <3> QED BY <2>1, <2>4, <2>5, <3>1, <3>3
  <2>12. CASE CommitUndo(r)
    <3>1. At(r, "undo") /\ ProviderOnly /\ TryUnlink(req[r].new) /\ req[r].new \in PhysKeys
      BY <1>0, <2>0, <2>12 DEF CommitUndo, Local, At
    <3>2. \A p : HeldBy(r, p) => p = req[r].new
      BY <3>1 DEF HeldBy, At
    <3> QED BY <2>1, <2>3, <2>5, <3>1, <3>2
  <2>13. CASE CommitDeleteOld(r)
    <3>1. At(r, "delold") /\ ProviderOnly /\ TryUnlink(req[r].old) /\ req[r].old \in PhysKeys
      BY <1>0, <2>0, <2>13 DEF CommitDeleteOld, Local, At
    <3>2. \A p : HeldBy(r, p) => p = req[r].old
      BY <3>1 DEF HeldBy, At
    <3> QED BY <2>1, <2>3, <2>5, <3>1, <3>2
  <2>14. CASE CommitDeleteStaging(r)
    <3>1. /\ At(r, "delstaging") /\ ProviderOnly /\ TryUnlink(Staging(req[r].up))
          /\ Staging(req[r].up) \in PhysKeys
          /\ IF req[r].old = NoKey THEN Return(r) ELSE Goto(r, "delold")
      BY <1>0, <2>0, <2>14 DEF CommitDeleteStaging, Local, At
    <3>2. req[r].old # NoKey => req'[r].pc = "delold" /\ req'[r].old = req[r].old
      BY <1>0, <2>0, <3>1 DEF Goto, HandlerTypes
    <3>3. \A n \in 1..MaxFinals : HeldBy(r, Final(n)) => HeldBy(r, Final(n))'
      BY <1>0, <3>1, <3>2 DEF HeldBy, At
    <3> QED BY <2>1, <2>3, <2>5, <3>1, <3>3
  <2>15. CASE CommitRow(r)
    <3> DEFINE x == req[r].x
    <3>1. /\ objPhys' = [objPhys EXCEPT ![x] = req[r].new]
          /\ store' = store /\ missed' = missed /\ At(r, "commit") /\ x \in Slots
          /\ req' = [req EXCEPT ![r].pc = "delstaging", ![r].old = objPhys[x]]
      BY <2>0, <2>15 DEF CommitRow, StoreAlone, clientVars, Local, At
    <3>2. req'[r].pc = "delstaging" /\ req'[r].old = objPhys[x]
      BY <1>0, <2>0, <3>1 DEF HandlerTypes
    <3>3. \A p : p = objPhys[x] => HeldBy(r, p)'
      BY <3>2 DEF HeldBy
    <3>4. objPhys \in [Slots -> PhysKeys \cup {NoKey}]
      BY DEF IInv, TypeOK
    <3>5. ASSUME NEW p, Mapped(p) PROVE Mapped(p)' \/ Held(p)'
      BY <3>1, <3>3, <3>4, <3>5 DEF Mapped, Held
    <3>6. ASSUME NEW p, Held(p) PROVE Held(p)' \/ Mapped(p)'
      <4>1. CASE HeldBy(r, p)
        <5>1. p = req[r].new
          BY <3>1, <4>1 DEF HeldBy, At
        <5> QED BY <3>1, <3>4, <5>1 DEF Mapped
      <4>2. CASE ~HeldBy(r, p)
        BY <2>0, <3>6, <4>2 DEF Held
      <4> QED BY <4>1, <4>2
    <3> QED BY <1>a, <3>1, <3>5, <3>6 DEF Accounted
  <2>16. CASE DeleteRow(r)
    <3> DEFINE x == req[r].x
    <3>1. At(r, "deleterow") /\ StoreAlone /\ x \in Slots /\ store[req[r].old] = Gone
      BY <2>0, <2>16 DEF DeleteRow, Local, At, Unlinked
    <3>2. \A p : ~HeldBy(r, p)
      BY <3>1 DEF HeldBy, At
    <3>3. CASE UNCHANGED <<objPhys, missed>>
      BY <2>1, <2>4, <3>1, <3>2, <3>3
    <3>4. CASE /\ objPhys' = [objPhys EXCEPT ![x] = NoKey]
               /\ missed' = missed \cup ({objPhys[x]} \ {req[r].old})
      <4>1. objPhys \in [Slots -> PhysKeys \cup {NoKey}] /\ store' = store
        BY <3>1 DEF IInv, TypeOK, StoreAlone
      <4>2. ASSUME NEW p, Mapped(p), store'[p] # Gone PROVE Mapped(p)' \/ p \in missed'
        BY <3>1, <3>4, <4>1, <4>2 DEF Mapped
      <4>3. ASSUME NEW p, Held(p) PROVE Held(p)'
        BY <2>0, <3>2, <4>3 DEF Held
      <4> QED BY <1>a, <3>4, <4>1, <4>2, <4>3 DEF Accounted
    <3> QED BY <2>16, <3>3, <3>4 DEF DeleteRow
  <2> QED BY <1>4, <2>2, <2>6, <2>7, <2>8, <2>9, <2>10, <2>11, <2>12, <2>13, <2>14, <2>15, <2>16
          DEF Acts, Step
<1>5. ~Restart
  BY <1>1 DEF Restart
<1> QED BY <1>2, <1>3, <1>4, <1>5 DEF Next, Acts, CreateBucket, Expire, vars, rowVars, clientVars

(* Where clients do not rotate, a row never points at a truncated body or at
   the bytes of another upload, although deletes, replacements and restarts
   cut into commits.  With rotations it fails: the run ObjectsRotateRace. *)
THEOREM MappedStaysIntact ==
  ASSUME "rotate" \notin Ops PROVE Spec => []MappedIntact
<1>1. Init => NoRotation /\ Sound
  BY IdleLocal DEF Init, NoRotation, RotatePcs, Sound, At
<1>2. IInv /\ Sound => MappedIntact
  BY DEF Sound, MappedIntact, Body, IInv
<1> QED BY <1>1, <1>2, IInvInit, IInvStep, NoRotationStep, SoundStep, PTL DEF Spec

(* Where clients do not rotate and nothing failed, no final key is forgotten:
   each is mapped, or a commit replaced it under a delete that had read an
   earlier one. *)
THEOREM NothingLeftBehind ==
  ASSUME "rotate" \notin Ops PROVE Spec => []NoOrphans
<1> DEFINE Balanced == faults = 0 => Accounted
<1>1. Init => NoRotation /\ Unlinked /\ Balanced
  BY IdleLocal, KeyFacts DEF Init, NoRotation, RotatePcs, Unlinked, Accounted, At
<1>2. IInv /\ NoRotation /\ Unlinked /\ Balanced /\ [Next]_vars => Balanced'
  BY AccountedStep
<1>3. IInv /\ Balanced => NoOrphans
  BY DEF NoOrphans, Accounted, Held, HeldBy, Mapped, At
<1> HIDE DEF Balanced
<1> QED BY <1>1, <1>2, <1>3, IInvInit, IInvStep, NoRotationStep, UnlinkedStep, PTL DEF Spec

-----------------------------------------------------------------------------
(* Which upload ids are open, granted and filled. *)

UploadRows ==
  /\ \A x \in Slots : upId[x] <= ids /\ (upId[x] # 0 <=> C!HasUpload(x))
  /\ \A x, y \in Slots : upId[x] # 0 /\ upId[x] = upId[y] => x = y

Grants ==
  /\ granted \subseteq 1..ids
  /\ \A u \in Ids : /\ delivered[u] # {} => u \in granted
                    /\ store[Staging(u)] \in delivered[u] \cup {Partial, Gone}
  /\ \A r \in Requests : At(r, "grant") => req[r].up \in 1..ids

Opens(x) ==
  /\ upId[x] = 0 /\ ids < MaxUploads /\ ids' = ids + 1
  /\ upId' = [upId EXCEPT ![x] = ids + 1]
  /\ ~C!HasUpload(x)
  /\ uploads' = [uploads EXCEPT ![x] = [src |-> S3, size |-> 1, res |-> C!Growth(x, 1),
                                        sres |-> C!SourceGrowth(x, S3, 1)]]

Closes(x) ==
  /\ upId[x] # 0 /\ ids' = ids
  /\ upId' = [upId EXCEPT ![x] = 0]
  /\ uploads' = [uploads EXCEPT ![x] = C!NoUpload]

(* A step opens at most one upload, or closes at most one. *)
LEMMA UploadMoves ==
  ASSUME IInv, UploadRows, NEW r \in Requests, Acts(r)
  PROVE  \/ UNCHANGED <<upId, uploads, ids>>
         \/ BeginReserve(r) /\ Opens(req[r].x) /\ req[r].x \in Slots
         \/ CommitRow(r) /\ Closes(req[r].x) /\ req[r].x \in Slots /\ req[r].up \in Ids
            /\ upId[req[r].x] = req[r].up
         \/ /\ SweepCancel(r) \/ BeginGrant(r)
            /\ UNCHANGED granted
            /\ \E x \in Slots : Closes(x)
<1>0. ~At(r, "idle") => req[r].x \in Slots
  BY DEF IInv, Local
<1>1. ASSUME NEW x \in Slots, C!CancelUpload(x) \/ C!CommitUpload(x)
      PROVE  C!HasUpload(x) /\ uploads' = [uploads EXCEPT ![x] = C!NoUpload]
  BY <1>1 DEF C!CancelUpload, C!CommitUpload, C!ReleaseUpload
<1>2. ASSUME NEW u, CancelRow(u), UNCHANGED ids
      PROVE  UNCHANGED <<upId, uploads, ids>> \/ \E x \in Slots : Closes(x)
  <2>1. CASE \E x \in Slots : upId[x] = u
    <3>1. PICK x \in Slots : upId[x] = u /\ C!CancelUpload(x) /\ upId' = [upId EXCEPT ![x] = 0]
      BY <1>2, <2>1 DEF CancelRow
    <3>2. upId[x] # 0
      BY <1>1, <3>1 DEF UploadRows
    <3> QED BY <1>1, <1>2, <3>1, <3>2 DEF Closes
  <2>2. CASE ~ \E x \in Slots : upId[x] = u
    BY <1>2, <2>2 DEF CancelRow, catalogVars
  <2> QED BY <2>1, <2>2
<1>3. CASE SweepCancel(r)
  BY <1>2, <1>3 DEF SweepCancel, catalogVars, clientVars
<1>4. CASE BeginReserve(r)
  <2>1. req[r].x \in Slots /\ C!ReserveObject(req[r].x, S3, 1)
    BY <1>0, <1>4 DEF BeginReserve, At
  <2>2. ~C!HasUpload(req[r].x) /\ uploads' = [uploads EXCEPT ![req[r].x] =
          [src |-> S3, size |-> 1, res |-> C!Growth(req[r].x, 1),
           sres |-> C!SourceGrowth(req[r].x, S3, 1)]]
    BY <2>1 DEF C!ReserveObject
  <2>3. upId[req[r].x] = 0
    BY <2>1, <2>2 DEF UploadRows
  <2> QED BY <1>4, <2>1, <2>2, <2>3 DEF BeginReserve, Opens
<1>5. CASE BeginGrant(r)
  <2>1. CASE UNCHANGED <<catalogVars, upId>>
    BY <1>5, <2>1 DEF BeginGrant, catalogVars
  <2>2. CASE CancelRow(req[r].up) /\ UNCHANGED granted
    BY <1>2, <1>5, <2>2 DEF BeginGrant
  <2> QED BY <1>5, <2>1, <2>2 DEF BeginGrant
<1>6. CASE CommitRow(r)
  <2>1. /\ req[r].x \in Slots /\ req[r].up \in Ids /\ upId[req[r].x] = req[r].up
        /\ C!CommitUpload(req[r].x)
    BY <1>0, <1>6 DEF CommitRow, At, IInv, Local
  <2>2. upId[req[r].x] # 0
    BY <1>1, <2>1 DEF UploadRows
  <2> QED BY <1>1, <1>6, <2>1, <2>2 DEF CommitRow, Closes
<1>7. CASE DeleteRow(r)
  <2>1. UNCHANGED uploads
    BY <1>7 DEF DeleteRow, C!DeleteObject, catalogVars
  <2> QED BY <1>7, <2>1 DEF DeleteRow
<1>8. CASE RotateRow(r)
  BY <1>8 DEF RotateRow, catalogVars
<1>9. CASE ProviderOnly
  BY <1>9 DEF ProviderOnly, catalogVars, rowVars
<1> QED BY <1>3, <1>4, <1>5, <1>6, <1>7, <1>8, <1>9
        DEF Acts, Step, Cut, BeginSweep, CommitGet, DeleteGet, RotateGet, ReadRow, SweepDelete,
            BeginRefused, CommitHead, CommitCopy, CommitVerify,
            CommitRowFails, CommitUndo, CommitDeleteStaging, CommitDeleteOld, DeletePhysical,
            RotateCopy, RotateDelete, RotateRestore, RotateUndo

(* Ids are drawn once and name one row each. *)
LEMMA UploadRowsStep == IInv /\ UploadRows /\ [Next]_vars => UploadRows'
<1> SUFFICES ASSUME IInv, UploadRows, [Next]_vars PROVE UploadRows'
  OBVIOUS
<1>0. /\ upId \in [Slots -> Ids \cup {0}] /\ ids \in 0..MaxUploads /\ MaxUploads \in Nat
      /\ uploads \in [Slots -> C!UploadRow \cup {C!NoUpload}] /\ ids \in Nat
      /\ C!NoUpload.src = None
  BY BoundsInt DEF IInv, TypeOK, C!TypeOK, C!NoUpload, C!Slots, Slots
<1>1. CASE UNCHANGED <<upId, uploads, ids>>
  BY <1>1 DEF UploadRows, C!HasUpload
<1>2. ASSUME NEW x \in Slots, Opens(x) PROVE UploadRows'
  <2>1. uploads'[x].src = S3 /\ \A y \in Slots : y # x => uploads'[y] = uploads[y]
    BY <1>0, <1>2 DEF Opens
  <2>2. upId'[x] = ids + 1 /\ ids' = ids + 1 /\ \A y \in Slots : y # x => upId'[y] = upId[y]
    BY <1>0, <1>2 DEF Opens
  <2>3. \A y \in Slots : upId[y] \in Int /\ upId[y] <= ids
    BY <1>0 DEF Ids, UploadRows
  <2> QED BY <1>0, <2>1, <2>2, <2>3, NamesAssumption DEF UploadRows, C!HasUpload
<1>3. ASSUME NEW x \in Slots, Closes(x) PROVE UploadRows'
  <2>1. uploads'[x].src = None /\ \A y \in Slots : y # x => uploads'[y] = uploads[y]
    BY <1>0, <1>3 DEF Closes
  <2>2. upId'[x] = 0 /\ ids' = ids /\ \A y \in Slots : y # x => upId'[y] = upId[y]
    BY <1>0, <1>3 DEF Closes
  <2> QED BY <1>0, <2>1, <2>2 DEF UploadRows, C!HasUpload
<1>4. ASSUME NEW r \in Requests, Acts(r) PROVE UploadRows'
  BY <1>1, <1>2, <1>3, <1>4, UploadMoves
<1>5. CASE CreateBucket
  BY <1>1, <1>5 DEF CreateBucket, C!CreateBucket, C!rowVars, rowVars
<1> QED BY <1>1, <1>4, <1>5 DEF Next, Acts, Restart, Expire, Put, ProviderOnly, vars, rowVars, catalogVars

(* A handler without rotation leaves staged bodies alone or deletes them. *)
LEMMA StagedStep ==
  ASSUME IInv, NoRotation, NEW r \in Requests, Acts(r), NEW u \in Ids
  PROVE  store'[Staging(u)] \in {store[Staging(u)], Gone}
<1>0. /\ store \in [PhysKeys -> Payloads \cup {Partial, Gone}] /\ finals \in Nat
      /\ Staging(u) \in PhysKeys /\ \A n \in Int : Staging(u) # Final(n)
  BY DrawnFacts, KeyFacts DEF IInv, TypeOK
<1>2. ASSUME NEW p, Unlink(p) PROVE store'[Staging(u)] \in {store[Staging(u)], Gone}
  BY <1>0, <1>2 DEF Unlink
<1>3. ASSUME NEW p, CopyTo(p) PROVE store'[Staging(u)] \in {store[Staging(u)], Gone}
  BY <1>0, <1>3 DEF CopyTo, FreshFinal
<1>4. ~(RotateCopy(r) \/ RotateDelete(r) \/ RotateRow(r) \/ RotateRestore(r) \/ RotateUndo(r))
  BY DEF RotateCopy, RotateDelete, RotateRow, RotateRestore, RotateUndo, At, RotatePcs, NoRotation
<1>5. CASE CommitCopy(r)
  BY <1>3, <1>5 DEF CommitCopy, CopyFails, StoreAlone
<1> QED BY <1>2, <1>4, <1>5
        DEF Acts, Step, Cut, BeginSweep, CommitGet, DeleteGet, RotateGet, ReadRow, SweepDelete,
   SweepCancel, BeginReserve, BeginRefused, BeginGrant, CommitHead, CommitVerify,
   CommitRow, CommitRowFails, CommitUndo, CommitDeleteStaging, CommitDeleteOld, DeletePhysical,
   DeleteRow, TryUnlink, StoreAlone

(* Only the handler that reserved an id hands it out. *)
LEMMA GrantMoves ==
  ASSUME IInv, NEW r \in Requests, Acts(r)
  PROVE  /\ UNCHANGED delivered
         /\ granted' = granted \/ (At(r, "grant") /\ granted' = granted \cup {req[r].up})
         /\ ids' \in {ids, ids + 1}
         /\ At(r, "grant")' => ids' = ids + 1 /\ req'[r].up = ids'
<1>0. req[r] \in HandlerTypes /\ DOMAIN req = Requests
  BY DEF IInv, Local, TypeOK
<1>1. /\ UNCHANGED delivered
      /\ granted' = granted \/ (At(r, "grant") /\ granted' = granted \cup {req[r].up})
      /\ ids' \in {ids, ids + 1}
  BY DEF Acts, Step, Cut, BeginSweep, CommitGet, DeleteGet, RotateGet, ReadRow, SweepDelete,
     SweepCancel, BeginReserve, BeginRefused, BeginGrant, CommitHead, CommitCopy, CommitVerify,
     CommitRow, CommitRowFails, CommitUndo, CommitDeleteStaging, CommitDeleteOld, DeletePhysical,
     DeleteRow, RotateCopy, RotateDelete, RotateRow, RotateRestore, RotateUndo, ProviderOnly, clientVars
<1>2. ASSUME BeginReserve(r) PROVE ids' = ids + 1 /\ req'[r].up = ids'
  <2> DEFINE h == [req[r] EXCEPT !.pc = "grant", !.up = ids + 1]
  <2>1. req' = [req EXCEPT ![r] = h] /\ ids' = ids + 1
    BY <1>2 DEF BeginReserve
  <2>2. h.up = ids + 1
    BY <1>0 DEF HandlerTypes
  <2> HIDE DEF h
  <2> QED BY <1>0, <2>1, <2>2
<1>3. ASSUME ~BeginReserve(r) PROVE ~At(r, "grant")'
  <2>1. CASE Return(r)
    BY <1>0, <2>1 DEF Return, Idle, At
  <2>2. ASSUME NEW pc \in Pcs \ {"grant"}, Goto(r, pc) PROVE ~At(r, "grant")'
    BY <1>0, <2>2 DEF Goto, At, HandlerTypes
  <2>3. CASE \E k \in Keys : BeginSweep(r, k) \/ CommitGet(r, k) \/ DeleteGet(r, k) \/ RotateGet(r, k)
    BY <1>0, <2>3 DEF BeginSweep, CommitGet, DeleteGet, RotateGet, ReadRow, Idle, At
  <2>4. CASE (\E u \in Ids : SweepDelete(r, u)) \/ SweepCancel(r)
    BY <1>0, <2>4 DEF SweepDelete, SweepCancel, At, HandlerTypes
  <2>5. CASE CommitCopy(r) \/ CommitVerify(r) \/ CommitRow(r) \/ RotateCopy(r) \/ RotateRow(r)
    BY <1>0, <2>1, <2>2, <2>5
    DEF CommitCopy, CommitVerify, CommitRow, RotateCopy, RotateRow, HandlerTypes, Pcs, At
  <2>6. CASE CommitHead(r) \/ CommitRowFails(r) \/ CommitDeleteStaging(r) \/ DeletePhysical(r)
             \/ RotateDelete(r) \/ RotateRestore(r)
    BY <2>1, <2>2, <2>6
    DEF CommitHead, CommitRowFails, CommitDeleteStaging, DeletePhysical, RotateDelete, RotateRestore, Pcs
  <2>7. CASE Cut(r) \/ BeginRefused(r) \/ BeginGrant(r) \/ CommitUndo(r) \/ CommitDeleteOld(r)
             \/ DeleteRow(r) \/ RotateUndo(r)
    BY <2>1, <2>7 DEF Cut, BeginRefused, BeginGrant, CommitUndo, CommitDeleteOld, DeleteRow, RotateUndo
  <2> QED BY <1>3, <2>3, <2>4, <2>5, <2>6, <2>7 DEF Acts, Step
<1> QED BY <1>1, <1>2, <1>3

(* Staged bodies come from clients that hold the upload's URL. *)
LEMMA GrantsStep == IInv /\ NoRotation /\ Grants /\ [Next]_vars => Grants'
<1> SUFFICES ASSUME IInv, NoRotation, Grants, [Next]_vars PROVE Grants'
  OBVIOUS
<1>0. ids \in Nat /\ DOMAIN req = Requests /\ delivered \in [Ids -> SUBSET Payloads]
      /\ store \in [PhysKeys -> Payloads \cup {Partial, Gone}]
  BY BoundsInt DEF IInv, TypeOK
<1>1. CASE UNCHANGED <<granted, ids, delivered, store, req>>
  BY <1>1 DEF Grants, At
<1>2. CASE Restart
  BY <1>2, IdleLocal DEF Restart, ProviderOnly, StoreAlone, clientVars, Grants, At
<1>3. ASSUME NEW u \in Ids, NEW v \in Payloads \cup {Partial}, Put(u, v) PROVE Grants'
  <2>1. /\ u \in granted /\ UNCHANGED <<granted, ids, req>>
        /\ store' = [store EXCEPT ![Staging(u)] = v]
        /\ (delivered' = delivered /\ v = Partial)
           \/ delivered' = [delivered EXCEPT ![u] = @ \cup {v}]
    BY <1>3 DEF Put
  <2>2. \A w \in Ids : w # u => Staging(w) # Staging(u)
    BY DEF Staging
  <2>3. \A w \in Ids : store'[Staging(w)] = IF w = u THEN v ELSE store[Staging(w)]
    BY <1>0, <2>1, <2>2, KeyFacts
  <2>4. \A w \in Ids : /\ delivered[w] \subseteq delivered'[w]
                       /\ w # u => delivered'[w] = delivered[w]
                       /\ w = u => v \in delivered'[w] \cup {Partial}
    BY <1>0, <2>1
  <2>5. \A w \in Ids : /\ delivered'[w] # {} => w \in granted'
                       /\ store'[Staging(w)] \in delivered'[w] \cup {Partial, Gone}
    BY <2>1, <2>3, <2>4 DEF Grants
  <2> QED BY <2>1, <2>5 DEF Grants, At
<1>4. ASSUME NEW r \in Requests, Acts(r) PROVE Grants'
  <2>0. Kept(r)
    BY <1>4, StepKept, BeginKept DEF Acts
  <2>1. \A u \in Ids : store'[Staging(u)] \in {store[Staging(u)], Gone}
    BY <1>4, StagedStep
  <2>2. granted' \subseteq 1..ids' /\ 1..ids \subseteq 1..ids' /\ UNCHANGED delivered /\ granted \subseteq granted'
    <3>1. ids' \in Nat /\ 1..ids \subseteq 1..ids' /\ UNCHANGED delivered
      BY <1>0, <1>4, GrantMoves
    <3>2. granted' = granted \/ (req[r].up \in 1..ids /\ granted' = granted \cup {req[r].up})
      BY <1>4, GrantMoves DEF Grants
    <3> QED BY <3>1, <3>2 DEF Grants
  <2>3. \A q \in Requests : At(q, "grant")' => req'[q].up \in 1..ids'
    <3>1. At(r, "grant")' => req'[r].up \in 1..ids'
      BY <1>0, <1>4, GrantMoves
    <3>2. \A q \in Requests \ {r} : At(q, "grant")' => req'[q].up \in 1..ids'
      BY <2>0, <2>2 DEF Grants, At, Kept
    <3> QED BY <3>1, <3>2
  <2> QED BY <2>1, <2>2, <2>3 DEF Grants
<1> QED BY <1>1, <1>2, <1>3, <1>4 DEF Next, Acts, CreateBucket, Expire, vars, clientVars

(* A written final key changes only when its own handler deletes it. *)
LEMMA StoreExact ==
  ASSUME IInv, NoRotation, NEW r \in Requests, Acts(r), NEW p \in Drawn, store'[p] # store[p]
  PROVE  \/ At(r, "undo") /\ p = req[r].new
         \/ req[r].pc \in {"delold", "delete"} /\ p = req[r].old
<1>0. /\ store \in [PhysKeys -> Payloads \cup {Partial, Gone}] /\ finals \in Nat
      /\ p \in PhysKeys /\ FreshFinal # p /\ \A u \in Ids : Staging(u) # p
  BY DrawnFacts, KeyFacts DEF IInv, TypeOK, Drawn, FreshFinal
<1>2. ASSUME NEW q, Unlink(q) \/ TryUnlink(q) PROVE p = q
  BY <1>0, <1>2 DEF Unlink, TryUnlink
<1>3. ASSUME NEW q PROVE ~CopyTo(q)
  BY <1>0, <1>3 DEF CopyTo
<1>4. ~(RotateCopy(r) \/ RotateDelete(r) \/ RotateRow(r) \/ RotateRestore(r) \/ RotateUndo(r))
  BY DEF RotateCopy, RotateDelete, RotateRow, RotateRestore, RotateUndo, At, RotatePcs, NoRotation
<1>5. ~CommitCopy(r)
  BY <1>3 DEF CommitCopy, CopyFails, StoreAlone
<1>6. CASE CommitUndo(r) \/ CommitDeleteOld(r) \/ DeletePhysical(r)
  BY <1>2, <1>6 DEF CommitUndo, CommitDeleteOld, DeletePhysical, At
<1>7. ~CommitDeleteStaging(r)
  BY <1>0, <1>2 DEF CommitDeleteStaging, IInv, Local, At
<1>8. ~ \E u \in Ids : SweepDelete(r, u)
  BY <1>0, <1>2 DEF SweepDelete
<1>9. ~StoreAlone
  BY DEF StoreAlone
<1> QED BY <1>4, <1>5, <1>6, <1>7, <1>8, <1>9
        DEF Acts, Step, Cut, BeginSweep, CommitGet, DeleteGet, RotateGet, ReadRow,
   SweepCancel, BeginReserve, BeginRefused, BeginGrant, CommitHead, CommitVerify,
   CommitRow, CommitRowFails, DeleteRow

-----------------------------------------------------------------------------
(* Who may touch a final key. *)
Writes(r) == req[r].pc \in {"verify", "commit", "undo"}
Clears(r) == req[r].pc \in {"delstaging", "delold"}
Removes(r) == req[r].pc \in {"delete", "deleterow"}

Exclusive ==
  /\ \A x, y \in Slots : objPhys[x] # NoKey /\ objPhys[x] = objPhys[y] => x = y
  /\ \A r \in Requests : Writes(r) =>
       /\ \A x \in Slots : objPhys[x] # req[r].new
       /\ \A q \in Requests : /\ q # r /\ Writes(q) => req[q].new # req[r].new
                              /\ Clears(q) \/ Removes(q) => req[q].old # req[r].new
  /\ \A r \in Requests : Clears(r) /\ req[r].old # NoKey => \A x \in Slots : objPhys[x] # req[r].old
  /\ \A r \in Requests : Removes(r) => \A x \in Slots : objPhys[x] = req[r].old => x = req[r].x

GoesOn(r) ==
  /\ UNCHANGED objPhys
  /\ Writes(r)' => Writes(r) /\ req'[r].new = req[r].new
  /\ Clears(r)' => Clears(r) /\ req'[r].old = req[r].old
  /\ Removes(r)' => Removes(r) /\ req'[r].old = req[r].old /\ req'[r].x = req[r].x

Copies(r) ==
  /\ CommitCopy(r) /\ CopyTo(Staging(req[r].up)) /\ At(r, "copy")
  /\ At(r, "verify")' /\ req'[r].new = FreshFinal /\ req'[r].up = req[r].up
  /\ UNCHANGED objPhys

Switches(r) ==
  /\ CommitRow(r) /\ At(r, "commit") /\ At(r, "delstaging")' /\ req'[r].old = objPhys[req[r].x]
  /\ objPhys' = [objPhys EXCEPT ![req[r].x] = req[r].new]

Reads(r) ==
  /\ At(r, "idle") /\ At(r, "delete")' /\ UNCHANGED objPhys
  /\ req'[r].x \in Slots /\ req'[r].old = objPhys[req'[r].x] /\ objPhys[req'[r].x] \in Drawn

Drops(r) ==
  /\ DeleteRow(r) /\ At(r, "deleterow") /\ At(r, "idle")'
  /\ objPhys' = [objPhys EXCEPT ![req[r].x] = NoKey]

(* With respect to final keys a handler goes on with the ones it holds, copies
   to a fresh one, switches a row to it, reads a row, or drops one. *)
LEMMA KeyMoves ==
  ASSUME IInv, NoRotation, "rotate" \notin Ops, NEW r \in Requests, Acts(r)
  PROVE  GoesOn(r) \/ Copies(r) \/ Switches(r) \/ Reads(r) \/ Drops(r)
<1>0. req[r] \in HandlerTypes /\ DOMAIN req = Requests
  BY DEF IInv, Local, TypeOK
<1>1. CASE Return(r) /\ UNCHANGED objPhys
  BY <1>0, <1>1 DEF Return, Idle, GoesOn, Writes, Clears, Removes
<1>2. ASSUME NEW pc \in Pcs, Goto(r, pc), UNCHANGED objPhys,
             pc \in {"verify", "commit", "undo"} => Writes(r),
             pc \in {"delstaging", "delold"} => Clears(r),
             pc \in {"delete", "deleterow"} => Removes(r)
      PROVE  GoesOn(r)
  BY <1>2, GotoLocal DEF GoesOn, Writes, Clears, Removes
<1>3. ASSUME ProviderOnly PROVE UNCHANGED objPhys
  BY <1>3 DEF ProviderOnly, rowVars
<1>4. ASSUME NEW h, req' = [req EXCEPT ![r] = h], UNCHANGED objPhys,
             h.pc \in {"sweep", "cancel", "grant", "head"}
      PROVE  GoesOn(r)
  BY <1>0, <1>4 DEF GoesOn, Writes, Clears, Removes
<1>5. CASE \E k \in Keys : BeginSweep(r, k) \/ CommitGet(r, k)
  <2>1. PICK k \in Keys : BeginSweep(r, k) \/ CommitGet(r, k)
    BY <1>5
  <2>2. CASE BeginSweep(r, k)
    BY <1>3, <1>4, <2>2 DEF BeginSweep, Idle
  <2>3. CASE CommitGet(r, k)
    BY <1>3, <1>4, <2>3 DEF CommitGet, Idle
  <2> QED BY <2>1, <2>2, <2>3
<1>6. CASE \E k \in Keys : DeleteGet(r, k) \/ RotateGet(r, k)
  <2>1. PICK k \in Keys : ReadRow(r, k, "delete", "delete")
    BY <1>6 DEF DeleteGet, RotateGet, ReadRow
  <2> DEFINE x == <<Bucket, k>>
             h == [Idle EXCEPT !.pc = "delete", !.x = x, !.id = objId[x], !.old = objPhys[x]]
  <2>2. /\ At(r, "idle") /\ req' = [req EXCEPT ![r] = h] /\ UNCHANGED objPhys /\ x \in Slots
        /\ objId[x] # 0
    BY <1>3, <2>1 DEF ReadRow, Enter, Slots
  <2> HIDE DEF x
  <2>3. objPhys[x] \in Drawn
    BY <2>2 DEF IInv, Rows
  <2>4. h.pc = "delete" /\ h.x = x /\ h.old = objPhys[x]
    BY DEF Idle
  <2> HIDE DEF h
  <2>5. req'[r] = h
    BY <1>0, <2>2
  <2>6. Reads(r)
    BY <2>2, <2>3, <2>4, <2>5 DEF Reads, At
  <2> QED BY <2>6
<1>7. CASE (\E u \in Ids : SweepDelete(r, u)) \/ SweepCancel(r) \/ BeginReserve(r)
  <2>1. UNCHANGED objPhys
    BY <1>3, <1>7 DEF SweepDelete, SweepCancel, BeginReserve
  <2>2. req'[r].pc \in {"sweep", "cancel", "grant"}
    BY <1>0, <1>7 DEF SweepDelete, SweepCancel, BeginReserve, HandlerTypes, At
  <2> QED BY <2>1, <2>2 DEF GoesOn, Writes, Clears, Removes
<1>8. CASE CommitCopy(r)
  <2>1. CASE Return(r)
    BY <1>1, <1>3, <1>8, <2>1 DEF CommitCopy
  <2>2. CASE /\ CopyTo(Staging(req[r].up))
             /\ req' = [req EXCEPT ![r].pc = "verify", ![r].new = FreshFinal]
    <3> DEFINE h == [req[r] EXCEPT !.pc = "verify", !.new = FreshFinal]
    <3>1. req' = [req EXCEPT ![r] = h]
      BY <2>2
    <3>2. h.pc = "verify" /\ h.new = FreshFinal /\ h.up = req[r].up
      BY <1>0 DEF HandlerTypes
    <3> HIDE DEF h
    <3>3. At(r, "verify")' /\ req'[r].new = FreshFinal /\ req'[r].up = req[r].up
      BY <1>0, <3>1, <3>2 DEF At
    <3>4. At(r, "copy") /\ UNCHANGED objPhys
      BY <1>3, <1>8 DEF CommitCopy
    <3> QED BY <1>8, <2>2, <3>3, <3>4 DEF Copies
  <2> QED BY <1>8, <2>1, <2>2 DEF CommitCopy
<1>9. CASE CommitVerify(r)
  <2>1. At(r, "verify") /\ UNCHANGED objPhys
    BY <1>3, <1>9 DEF CommitVerify
  <2>2. CASE Goto(r, "undo")
    BY <1>2, <2>1, <2>2 DEF Pcs, At, Writes
  <2>3. CASE req' = [req EXCEPT ![r].pc = "commit", ![r].tag = store[req[r].new]]
    <3>1. req'[r].pc = "commit" /\ req'[r].new = req[r].new
      BY <1>0, <2>3 DEF HandlerTypes
    <3> QED BY <2>1, <3>1 DEF GoesOn, At, Writes, Clears, Removes
  <2> QED BY <1>9, <2>2, <2>3 DEF CommitVerify
<1>10. CASE CommitRow(r)
  <2> DEFINE h == [req[r] EXCEPT !.pc = "delstaging", !.old = objPhys[req[r].x]]
  <2>1. /\ req' = [req EXCEPT ![r] = h] /\ At(r, "commit")
        /\ objPhys' = [objPhys EXCEPT ![req[r].x] = req[r].new]
    BY <1>10 DEF CommitRow
  <2>2. h.pc = "delstaging" /\ h.old = objPhys[req[r].x]
    BY <1>0 DEF HandlerTypes
  <2> HIDE DEF h
  <2> QED BY <1>0, <1>10, <2>1, <2>2 DEF Switches, At
<1>11. CASE DeleteRow(r)
  <2>1. CASE UNCHANGED objPhys
    BY <1>1, <1>11, <2>1 DEF DeleteRow
  <2>2. CASE objPhys' = [objPhys EXCEPT ![req[r].x] = NoKey]
    BY <1>0, <1>11, <2>2 DEF DeleteRow, Return, Idle, Drops, At
  <2> QED BY <1>11, <2>1, <2>2 DEF DeleteRow
<1>12. CASE CommitHead(r) \/ CommitRowFails(r) \/ CommitDeleteStaging(r) \/ DeletePhysical(r)
  BY <1>1, <1>2, <1>3, <1>12
  DEF CommitHead, CommitRowFails, CommitDeleteStaging, DeletePhysical, Pcs, At, Writes, Clears, Removes
<1>13. CASE Cut(r) \/ BeginRefused(r) \/ BeginGrant(r) \/ CommitUndo(r) \/ CommitDeleteOld(r)
  BY <1>1, <1>3, <1>13 DEF Cut, BeginRefused, BeginGrant, CommitUndo, CommitDeleteOld
<1>14. ~(RotateCopy(r) \/ RotateDelete(r) \/ RotateRow(r) \/ RotateRestore(r) \/ RotateUndo(r))
  BY DEF RotateCopy, RotateDelete, RotateRow, RotateRestore, RotateUndo, At, RotatePcs, NoRotation
<1> QED BY <1>5, <1>6, <1>7, <1>8, <1>9, <1>10, <1>11, <1>12, <1>13, <1>14 DEF Acts, Step

(* A final key has one owner at a time: a commit, one row, or its cleanup. *)
LEMMA ExclusiveStep ==
  ASSUME "rotate" \notin Ops
  PROVE  IInv /\ NoRotation /\ Exclusive /\ [Next]_vars => Exclusive'
<1> SUFFICES ASSUME IInv, NoRotation, Exclusive, [Next]_vars PROVE Exclusive'
  OBVIOUS
<1>0. /\ objPhys \in [Slots -> PhysKeys \cup {NoKey}] /\ NoKey \notin Drawn
      /\ \A x \in Slots : objPhys[x] \in Drawn \cup {NoKey}
      /\ \A r \in Requests : /\ Writes(r) => req[r].new \in Drawn
                             /\ Clears(r) \/ Removes(r) => req[r].old \in Drawn \cup {NoKey}
      /\ \A r \in Requests : Writes(r) \/ Clears(r) \/ Removes(r) => req[r].x \in Slots
  BY DrawnFacts DEF IInv, TypeOK, Rows, Local, Writes, Clears, Removes, At
<1>1. CASE UNCHANGED <<objPhys, req>>
  BY <1>1 DEF Exclusive, Writes, Clears, Removes
<1>2. CASE Restart
  BY <1>2, IdleLocal DEF Restart, ProviderOnly, rowVars, Exclusive, Writes, Clears, Removes
<1>3. ASSUME NEW r \in Requests, Acts(r) PROVE Exclusive'
  <2>0. \A q \in Requests : q # r => req'[q] = req[q]
    BY <1>3, StepKept, BeginKept DEF Acts, Kept
  <2>1. CASE GoesOn(r)
    BY <2>0, <2>1 DEF GoesOn, Exclusive, Writes, Clears, Removes
  <2>2. CASE Copies(r)
    <3>1. FreshFinal \notin Drawn /\ FreshFinal # NoKey
      BY <2>2, DrawnFacts, KeyFacts, BoundsInt DEF IInv, TypeOK, Drawn, FreshFinal, Copies, CopyTo
    <3> HIDE DEF Final, FreshFinal
    <3> QED BY <1>0, <2>0, <2>2, <3>1 DEF Copies, Exclusive, Writes, Clears, Removes, At
  <2>3. CASE Switches(r)
    <3>1. req[r].x \in Slots /\ Writes(r) /\ req[r].new \in Drawn
      BY <1>0, <2>3 DEF Switches, Writes, At
    <3>2. /\ objPhys'[req[r].x] = req[r].new
          /\ \A y \in Slots : y # req[r].x => objPhys'[y] = objPhys[y]
      BY <1>0, <2>3, <3>1 DEF Switches
    <3>3. ~Writes(r)' /\ Clears(r)' /\ ~Removes(r)' /\ req'[r].old = objPhys[req[r].x]
      BY <2>3 DEF Switches, Writes, Clears, Removes, At
    <3>4. \A q \in Requests : q # r => /\ Writes(q)' <=> Writes(q)
                                       /\ Clears(q)' <=> Clears(q)
                                       /\ Removes(q)' <=> Removes(q)
      BY <2>0 DEF Writes, Clears, Removes
    <3>5. \A x, y \in Slots : objPhys'[x] # NoKey /\ objPhys'[x] = objPhys'[y] => x = y
      BY <3>1, <3>2 DEF Exclusive
    <3>6. ASSUME NEW p \in Requests, Writes(p)'
          PROVE  /\ \A x \in Slots : objPhys'[x] # req'[p].new
                 /\ \A q \in Requests : /\ q # p /\ Writes(q)' => req'[q].new # req'[p].new
                                        /\ Clears(q)' \/ Removes(q)' => req'[q].old # req'[p].new
      BY <2>0, <3>1, <3>2, <3>3, <3>4, <3>6 DEF Exclusive
    <3>7. ASSUME NEW q \in Requests, Clears(q)', req'[q].old # NoKey
          PROVE  \A x \in Slots : objPhys'[x] # req'[q].old
      <4>1. CASE q = r
        BY <3>1, <3>2, <3>3, <3>7, <4>1 DEF Exclusive
      <4>2. CASE q # r
        BY <2>0, <3>1, <3>2, <3>4, <3>7, <4>2 DEF Exclusive
      <4> QED BY <4>1, <4>2
    <3>8. ASSUME NEW q \in Requests, Removes(q)'
          PROVE  \A x \in Slots : objPhys'[x] = req'[q].old => x = req'[q].x
      BY <2>0, <3>1, <3>2, <3>3, <3>4, <3>8 DEF Exclusive
    <3> QED BY <3>5, <3>6, <3>7, <3>8 DEF Exclusive
  <2>4. CASE Reads(r)
    BY <1>0, <2>0, <2>4 DEF Reads, Exclusive, Writes, Clears, Removes, At
  <2>5. CASE Drops(r)
    <3>1. /\ \A y \in Slots : objPhys'[y] \in {objPhys[y], NoKey}
          /\ ~Writes(r)' /\ ~Clears(r)' /\ ~Removes(r)'
      BY <1>0, <2>5 DEF Drops, Writes, Clears, Removes, At
    <3>2. \A q \in Requests : Removes(q) => req[q].old \in Drawn
      BY DEF IInv, Local, Removes
    <3> QED BY <1>0, <2>0, <3>1, <3>2 DEF Exclusive, Writes, Clears, Removes
  <2> QED BY <1>3, <2>1, <2>2, <2>3, <2>4, <2>5, KeyMoves
<1> QED BY <1>1, <1>2, <1>3 DEF Next, Acts, CreateBucket, Expire, Put, vars, rowVars

(* What a commit is about to publish. *)
Copied ==
  \A r \in Requests :
    /\ At(r, "verify") => store[req[r].new] \in delivered[req[r].up] \cup {Partial, Gone}
    /\ At(r, "commit") => store[req[r].new] = req[r].tag /\ req[r].tag \in delivered[req[r].up]

(* A commit publishes bytes that arrived for its own upload. *)
LEMMA CopiedStep ==
  ASSUME "rotate" \notin Ops
  PROVE  IInv /\ NoRotation /\ Exclusive /\ Grants /\ Copied /\ [Next]_vars => Copied'
<1> SUFFICES ASSUME IInv, NoRotation, Exclusive, Grants, Copied, [Next]_vars PROVE Copied'
  OBVIOUS
<1>0. /\ store \in [PhysKeys -> Payloads \cup {Partial, Gone}] /\ DOMAIN req = Requests
      /\ delivered \in [Ids -> SUBSET Payloads] /\ Drawn \subseteq PhysKeys
      /\ \A r \in Requests : /\ At(r, "verify") \/ At(r, "commit") => req[r].new \in Drawn /\ req[r].up \in Ids
                             /\ req[r] \in HandlerTypes
  BY DrawnFacts DEF IInv, TypeOK, Local, At
<1>1. CASE UNCHANGED <<store, delivered, req>>
  BY <1>1 DEF Copied, At
<1>2. CASE Restart
  BY <1>2, IdleLocal DEF Restart, Copied, At
<1>3. ASSUME NEW u \in Ids, NEW v \in Payloads \cup {Partial}, Put(u, v) PROVE Copied'
  <2>1. \A p \in Drawn : store'[p] = store[p]
    <3>1. Staging(u) \notin Drawn
      BY DrawnFacts, KeyFacts DEF IInv, Drawn
    <3> QED BY <1>0, <1>3, <3>1 DEF Put
  <2>2. \A w \in Ids : delivered[w] \subseteq delivered'[w]
    BY <1>0, <1>3 DEF Put
  <2> QED BY <1>0, <1>3, <2>1, <2>2 DEF Put, Copied, At
<1>4. ASSUME NEW r \in Requests, Acts(r) PROVE Copied'
  <2>0. /\ \A q \in Requests : q # r => req'[q] = req[q]
        /\ UNCHANGED delivered
    BY <1>4, StepKept, BeginKept, GrantMoves DEF Acts, Kept
  <2>1. ASSUME NEW q \in Requests, q # r, At(q, "verify") \/ At(q, "commit")
        PROVE  store'[req[q].new] = store[req[q].new]
    <3>1. req[q].new \in Drawn
      BY <1>0, <2>1
    <3>2. ~(At(r, "undo") /\ req[q].new = req[r].new)
      BY <2>1 DEF Exclusive, Writes, At
    <3>3. ~(req[r].pc \in {"delold", "delete"} /\ req[q].new = req[r].old)
      BY <2>1 DEF Exclusive, Writes, Clears, Removes, At
    <3> QED BY <1>4, <3>1, <3>2, <3>3, StoreExact
  <2>2. CASE ~At(r, "verify")' /\ ~At(r, "commit")'
    BY <2>0, <2>1, <2>2 DEF Copied, At
  <2>3. CASE CommitCopy(r)
    <3>1. CASE Copies(r)
      <4>1. req[r].up \in Ids /\ FreshFinal \in PhysKeys
        BY <3>1, KeyFacts, DrawnFacts, BoundsInt DEF IInv, Local, At, Copies, CopyTo, FreshFinal
      <4>2. store'[FreshFinal] = store[Staging(req[r].up)]
        BY <1>0, <3>1, <4>1 DEF Copies, CopyTo
      <4>3. store'[req'[r].new] \in delivered'[req'[r].up] \cup {Partial, Gone}
        BY <2>0, <3>1, <4>1, <4>2 DEF Copies, Grants
      <4> QED BY <2>0, <2>1, <3>1, <4>3 DEF Copied, At, Copies
    <3>2. CASE Return(r)
      BY <2>2, <3>2, ReturnLocal, IdleLocal DEF At
    <3>3. CASE /\ CopyTo(Staging(req[r].up))
               /\ req' = [req EXCEPT ![r].pc = "verify", ![r].new = FreshFinal]
      <4>1. ~GoesOn(r) /\ ~Switches(r) /\ ~Reads(r) /\ ~Drops(r)
        <5>1. At(r, "copy") /\ At(r, "verify")'
          BY <1>0, <2>3, <3>3 DEF CommitCopy, At, HandlerTypes
        <5> QED BY <5>1 DEF At, GoesOn, Switches, Reads, Drops, Writes
      <4> QED BY <1>4, <3>1, <4>1, KeyMoves
    <3> QED BY <2>3, <3>2, <3>3 DEF CommitCopy
  <2>4. CASE CommitVerify(r)
    <3>1. At(r, "verify") /\ StoreAlone
      BY <2>4 DEF CommitVerify
    <3>2. CASE Goto(r, "undo")
      BY <2>2, <3>2, GotoLocal DEF Pcs, At
    <3>3. CASE /\ store[req[r].new] \in Payloads
               /\ req' = [req EXCEPT ![r].pc = "commit", ![r].tag = store[req[r].new]]
      <4> DEFINE h == [req[r] EXCEPT !.pc = "commit", !.tag = store[req[r].new]]
      <4>1. req' = [req EXCEPT ![r] = h]
        BY <3>3
      <4>2. h.pc = "commit" /\ h.new = req[r].new /\ h.up = req[r].up /\ h.tag = store[req[r].new]
        BY <1>0 DEF HandlerTypes
      <4> HIDE DEF h
      <4>3. store[req[r].new] \in delivered[req[r].up]
        BY <3>1, <3>3, NamesAssumption DEF Copied
      <4>4. req'[r] = h
        BY <1>0, <4>1
      <4> QED BY <2>0, <2>1, <3>1, <4>2, <4>3, <4>4 DEF Copied, At, StoreAlone
    <3> QED BY <2>4, <3>2, <3>3 DEF CommitVerify
  <2>5. ASSUME ~CommitCopy(r), ~CommitVerify(r) PROVE ~At(r, "verify")' /\ ~At(r, "commit")'
    <3>1. CASE Return(r)
      BY <3>1, ReturnLocal, IdleLocal DEF At
    <3>2. ASSUME NEW pc \in Pcs \ {"verify", "commit"}, Goto(r, pc)
          PROVE ~At(r, "verify")' /\ ~At(r, "commit")'
      BY <3>2, GotoLocal DEF At
    <3>3. CASE \E k \in Keys : BeginSweep(r, k) \/ CommitGet(r, k) \/ DeleteGet(r, k) \/ RotateGet(r, k)
      BY <1>0, <3>3 DEF BeginSweep, CommitGet, DeleteGet, RotateGet, ReadRow, Idle, At
    <3>4. CASE (\E u \in Ids : SweepDelete(r, u)) \/ SweepCancel(r) \/ BeginReserve(r) \/ CommitRow(r)
      BY <1>0, <3>4 DEF SweepDelete, SweepCancel, BeginReserve, CommitRow, At, HandlerTypes
    <3>5. CASE CommitHead(r) \/ CommitRowFails(r) \/ CommitDeleteStaging(r) \/ DeletePhysical(r)
      BY <3>1, <3>2, <3>5
      DEF CommitHead, CommitRowFails, CommitDeleteStaging, DeletePhysical, Pcs
    <3>6. CASE Cut(r) \/ BeginRefused(r) \/ BeginGrant(r) \/ CommitUndo(r) \/ CommitDeleteOld(r)
               \/ DeleteRow(r)
      BY <3>1, <3>6 DEF Cut, BeginRefused, BeginGrant, CommitUndo, CommitDeleteOld, DeleteRow
    <3>7. ~(RotateCopy(r) \/ RotateDelete(r) \/ RotateRow(r) \/ RotateRestore(r) \/ RotateUndo(r))
      BY DEF RotateCopy, RotateDelete, RotateRow, RotateRestore, RotateUndo, At, RotatePcs, NoRotation
    <3> QED BY <1>4, <2>5, <3>3, <3>4, <3>5, <3>6, <3>7 DEF Acts, Step
  <2> QED BY <2>2, <2>3, <2>4, <2>5
<1> QED BY <1>1, <1>2, <1>3, <1>4 DEF Next, Acts, CreateBucket, Expire, vars, clientVars

-----------------------------------------------------------------------------
(* The refinement. *)

Content == [k \in Keys |-> Body(<<Bucket, k>>)]
OpenKeys == [u \in Ids |-> IF \E k \in Keys : upId[<<Bucket, k>>] = u
                           THEN CHOOSE k \in Keys : upId[<<Bucket, k>>] = u ELSE Gone]
Wanted == {k \in Keys : Working({"delete", "deleterow"}, <<Bucket, k>>)}

(* The steps of ObjectPromise, in terms of what readers and clients see. *)
LEMMA PromiseStays ==
  UNCHANGED <<Content, OpenKeys, delivered>> => Promise!Next
<1> SUFFICES ASSUME UNCHANGED <<Content, OpenKeys, delivered>> PROVE Promise!Next
  OBVIOUS
<1>1. Promise!Want(Wanted')
  BY DEF Promise!Want, Content, OpenKeys, Wanted
<1>2. Wanted' \in SUBSET Keys
  BY DEF Wanted
<1> QED BY <1>1, <1>2 DEF Promise!Next

LEMMA PromiseWithdraws ==
  ASSUME NEW u \in Ids, OpenKeys[u] # Gone, OpenKeys' = [OpenKeys EXCEPT ![u] = Gone],
         UNCHANGED <<Content, delivered, Wanted>>
  PROVE  Promise!Next
<1>1. Promise!Withdraw(u)
  BY DEF Promise!Withdraw, Content, OpenKeys, Wanted
<1> QED BY <1>1 DEF Promise!Next

LEMMA PromiseOpens ==
  ASSUME NEW u \in Ids, NEW k \in Keys, OpenKeys[u] = Gone, delivered[u] = {},
         OpenKeys' = [OpenKeys EXCEPT ![u] = k], UNCHANGED <<Content, delivered, Wanted>>
  PROVE  Promise!Next
<1>1. Promise!Open(u, k)
  BY DEF Promise!Open, Content, OpenKeys, Wanted
<1> QED BY <1>1 DEF Promise!Next

LEMMA PromiseDelivers ==
  ASSUME NEW u \in Ids, NEW v \in Payloads, delivered' = [delivered EXCEPT ![u] = @ \cup {v}],
         UNCHANGED <<Content, OpenKeys, Wanted>>
  PROVE  Promise!Next
<1>1. Promise!Deliver(u, v)
  BY DEF Promise!Deliver, Content, OpenKeys, Wanted
<1> QED BY <1>1 DEF Promise!Next

LEMMA PromisePublishes ==
  ASSUME NEW u \in Ids, NEW v \in Payloads, OpenKeys[u] # Gone, v \in delivered[u],
         Content' = [Content EXCEPT ![OpenKeys[u]] = v],
         OpenKeys' = [OpenKeys EXCEPT ![u] = Gone], UNCHANGED <<delivered, Wanted>>
  PROVE  Promise!Next
<1>1. Promise!Publish(u, v)
  BY DEF Promise!Publish, Content, OpenKeys, Wanted
<1> QED BY <1>1 DEF Promise!Next

LEMMA PromiseRemoves ==
  ASSUME NEW k \in Wanted, Content' = [Content EXCEPT ![k] = Gone],
         UNCHANGED <<OpenKeys, delivered>>
  PROVE  Promise!Next
<1>1. Promise!Remove(k, Wanted')
  BY DEF Promise!Remove, Content, OpenKeys, Wanted
<1>2. Wanted' \in SUBSET Keys /\ k \in Keys
  BY DEF Wanted
<1> QED BY <1>1, <1>2 DEF Promise!Next

OpenAnswers ==
  /\ \A u \in Ids, k \in Keys : upId[<<Bucket, k>>] = u => OpenKeys[u] = k
  /\ \A u \in Ids : (\A k \in Keys : upId[<<Bucket, k>>] # u) => OpenKeys[u] = Gone

(* The open uploads are read off the rows. *)
LEMMA OpenFacts == UploadRows => OpenAnswers
<1> SUFFICES ASSUME UploadRows PROVE OpenAnswers
  OBVIOUS
<1>1. ASSUME NEW u \in Ids, NEW k \in Keys, upId[<<Bucket, k>>] = u PROVE OpenKeys[u] = k
  <2>1. \A j \in Keys : upId[<<Bucket, j>>] = u <=> j = k
    <3>1. u # 0 /\ \A j \in Keys : <<Bucket, j>> \in Slots
      BY DEF Ids, Slots
    <3> QED BY <1>1, <3>1 DEF UploadRows
  <2>2. (CHOOSE j \in Keys : upId[<<Bucket, j>>] = u) = k
    BY <2>1
  <2> QED BY <1>1, <2>2 DEF OpenKeys
<1>2. \A u \in Ids : (\A k \in Keys : upId[<<Bucket, k>>] # u) => OpenKeys[u] = Gone
  BY DEF OpenKeys
<1> QED BY <1>1, <1>2 DEF OpenAnswers

(* An id that leaves or enters the rows closes or opens one key. *)
LEMMA OpenChanges ==
  ASSUME UploadRows, UploadRows', upId \in [Slots -> Ids \cup {0}], NEW k \in Keys, NEW i \in Ids
  PROVE  /\ upId[<<Bucket, k>>] = i /\ upId' = [upId EXCEPT ![<<Bucket, k>>] = 0]
              => OpenKeys[i] = k /\ OpenKeys' = [OpenKeys EXCEPT ![i] = Gone]
         /\ upId[<<Bucket, k>>] = 0 /\ upId' = [upId EXCEPT ![<<Bucket, k>>] = i]
            /\ (\A x \in Slots : upId[x] # i)
              => OpenKeys[i] = Gone /\ OpenKeys' = [OpenKeys EXCEPT ![i] = k]
<1> DEFINE x == <<Bucket, k>>
<1>0. /\ x \in Slots /\ 0 \notin Ids
      /\ \A j \in Keys : <<Bucket, j>> \in Slots /\ (j # k => <<Bucket, j>> # x)
      /\ OpenKeys = [u \in Ids |-> OpenKeys[u]] /\ OpenKeys' = [u \in Ids |-> OpenKeys'[u]]
  BY DEF Slots, Ids, OpenKeys
<1>a. /\ \A u \in Ids, j \in Keys : upId[<<Bucket, j>>] = u => OpenKeys[u] = j
      /\ \A u \in Ids : (\A j \in Keys : upId[<<Bucket, j>>] # u) => OpenKeys[u] = Gone
  BY OpenFacts DEF OpenAnswers
<1>b. /\ \A u \in Ids, j \in Keys : upId'[<<Bucket, j>>] = u => OpenKeys'[u] = j
      /\ \A u \in Ids : (\A j \in Keys : upId'[<<Bucket, j>>] # u) => OpenKeys'[u] = Gone
  <2>1. OpenAnswers'
    BY OpenFacts, PTL
  <2> QED BY <2>1 DEF OpenAnswers
<1>1. ASSUME upId[x] = i, upId' = [upId EXCEPT ![x] = 0]
      PROVE  OpenKeys[i] = k /\ OpenKeys' = [OpenKeys EXCEPT ![i] = Gone]
  <2>1. OpenKeys[i] = k
    BY <1>1, <1>a
  <2>2. \A j \in Keys : upId'[<<Bucket, j>>] = IF j = k THEN 0 ELSE upId[<<Bucket, j>>]
    BY <1>0, <1>1
  <2>3. OpenKeys'[i] = Gone
    <3>1. \A j \in Keys : upId'[<<Bucket, j>>] # i
      BY <1>0, <1>1, <2>2 DEF UploadRows
    <3> QED BY <1>b, <3>1
  <2>4. ASSUME NEW u \in Ids, u # i PROVE OpenKeys'[u] = OpenKeys[u]
    <3>1. CASE \E j \in Keys : upId[<<Bucket, j>>] = u
      BY <1>1, <1>a, <1>b, <2>2, <2>4, <3>1
    <3>2. CASE \A j \in Keys : upId[<<Bucket, j>>] # u
      BY <1>0, <1>a, <1>b, <2>2, <3>2
    <3> QED BY <3>1, <3>2
  <2> HIDE DEF OpenKeys
  <2> QED BY <1>0, <2>1, <2>3, <2>4
<1>2. ASSUME upId[x] = 0, upId' = [upId EXCEPT ![x] = i], \A y \in Slots : upId[y] # i
      PROVE  OpenKeys[i] = Gone /\ OpenKeys' = [OpenKeys EXCEPT ![i] = k]
  <2>1. OpenKeys[i] = Gone
    BY <1>0, <1>2, <1>a
  <2>2. \A j \in Keys : upId'[<<Bucket, j>>] = IF j = k THEN i ELSE upId[<<Bucket, j>>]
    BY <1>0, <1>2
  <2>3. OpenKeys'[i] = k
    <3>1. upId'[<<Bucket, k>>] = i
      BY <2>2
    <3> QED BY <1>b, <3>1
  <2>4. ASSUME NEW u \in Ids, u # i PROVE OpenKeys'[u] = OpenKeys[u]
    <3>1. CASE \E j \in Keys : upId[<<Bucket, j>>] = u
      <4>1. PICK j \in Keys : upId[<<Bucket, j>>] = u
        BY <3>1
      <4>2. j # k
        BY <1>0, <1>2, <4>1
      <4>3. upId'[<<Bucket, j>>] = u
        BY <2>2, <4>1, <4>2
      <4> QED BY <1>a, <1>b, <4>1, <4>3
    <3>2. CASE \A j \in Keys : upId[<<Bucket, j>>] # u
      BY <1>0, <1>a, <1>b, <2>2, <2>4, <3>2
    <3> QED BY <3>1, <3>2
  <2> QED BY <1>0, <2>1, <2>3, <2>4
<1> QED BY <1>1, <1>2

(* Every slot is a key of the bucket. *)
LEMMA SlotKeys == \A x \in Slots : \E k \in Keys : x = <<Bucket, k>>
BY DEF Slots

(* Readers see no difference when the mapped bodies stay. *)
LEMMA ContentStays ==
  ASSUME UNCHANGED objPhys, \A x \in Slots : objPhys[x] # NoKey => store'[objPhys[x]] = store[objPhys[x]]
  PROVE  UNCHANGED Content
<1>1. \A k \in Keys : <<Bucket, k>> \in Slots
  BY DEF Slots
<1> QED BY <1>1 DEF Content, Body

(* A handler outside a delete changes nobody's wish. *)
LEMMA WantedStays ==
  ASSUME NEW r \in Requests, \A q \in Requests : q # r => req'[q] = req[q],
         ~Removes(r), ~Removes(r)'
  PROVE  UNCHANGED Wanted
BY DEF Wanted, Working, Removes

(* A delete: the key under which the handler works loses its body. *)
LEMMA ContentRemoved ==
  ASSUME NEW k \in Keys, Body(<<Bucket, k>>)' = Gone,
         \A j \in Keys : j # k => Body(<<Bucket, j>>)' = Body(<<Bucket, j>>)
  PROVE  Content' = [Content EXCEPT ![k] = Gone]
BY DEF Content

PInv == IInv /\ NoRotation /\ UploadRows /\ Grants /\ Exclusive /\ Copied

(* The metadata transaction of a commit publishes the staged body at once. *)
LEMMA CommitPublishes ==
  ASSUME PInv, UploadRows', NEW r \in Requests, Acts(r), CommitRow(r), Closes(req[r].x),
         req[r].x \in Slots, req[r].up \in Ids, upId[req[r].x] = req[r].up, Kept(r), UNCHANGED delivered
  PROVE  Promise!Next
<1>1. PICK k \in Keys : req[r].x = <<Bucket, k>>
  BY SlotKeys
<1> DEFINE u == req[r].up
           v == req[r].tag
<1>2. /\ At(r, "commit") /\ UNCHANGED store /\ objPhys' = [objPhys EXCEPT ![<<Bucket, k>>] = req[r].new]
  BY <1>1 DEF CommitRow, StoreAlone
<1>3. /\ OpenKeys[u] = k /\ OpenKeys' = [OpenKeys EXCEPT ![u] = Gone]
  BY <1>1, OpenChanges DEF Closes, PInv, IInv, TypeOK
<1>4. v \in delivered[u] /\ v \in Payloads /\ store[req[r].new] = v /\ req[r].new # NoKey
  <2>1. req[r].new \in Drawn
    BY <1>2 DEF PInv, IInv, Local, At
  <2> QED BY <1>2, <2>1, DrawnFacts DEF PInv, Copied, IInv, Local
<1>5. Content' = [Content EXCEPT ![k] = v]
  <2>1. \A j \in Keys : <<Bucket, j>> \in Slots /\ (j # k => <<Bucket, j>> # <<Bucket, k>>)
    BY DEF Slots
  <2>2. Body(<<Bucket, k>>)' = v
    BY <1>2, <1>4, <2>1 DEF Body, PInv, IInv, TypeOK
  <2>3. \A j \in Keys : j # k => Body(<<Bucket, j>>)' = Body(<<Bucket, j>>)
    BY <1>2, <2>1 DEF Body, PInv, IInv, TypeOK
  <2> QED BY <2>2, <2>3 DEF Content
<1>6. UNCHANGED Wanted
  <2>1. DOMAIN req = Requests /\ req[r] \in HandlerTypes
    BY DEF PInv, IInv, TypeOK, Local
  <2>2. ~Removes(r) /\ ~Removes(r)'
    BY <1>2, <2>1 DEF Removes, At, CommitRow, HandlerTypes
  <2> QED BY <2>2, WantedStays DEF Kept
<1>7. k # Gone
  BY NamesAssumption
<1> HIDE DEF u, v
<1> QED BY <1>3, <1>4, <1>5, <1>6, <1>7, PromisePublishes DEF u

(* Every step is a step of ObjectPromise or a stutter. *)
LEMMA PromiseStep ==
  ASSUME "rotate" \notin Ops
  PROVE  PInv /\ UploadRows' /\ [Next]_vars => [Promise!Next]_(Promise!vars)
<1> SUFFICES ASSUME PInv, UploadRows', [Next]_vars PROVE Promise!Next \/ UNCHANGED Promise!vars
  OBVIOUS
<1>0. /\ store \in [PhysKeys -> Payloads \cup {Partial, Gone}] /\ DOMAIN req = Requests
      /\ \A x \in Slots : objPhys[x] \in Drawn \cup {NoKey}
      /\ objPhys \in [Slots -> PhysKeys \cup {NoKey}] /\ upId \in [Slots -> Ids \cup {0}]
      /\ \A r \in Requests : req[r] \in HandlerTypes
  BY DEF PInv, IInv, TypeOK, Rows, Local
<1>1. CASE UNCHANGED <<objPhys, store, upId, delivered>>
  <2>1. UNCHANGED Content
    BY <1>1, ContentStays
  <2>2. UNCHANGED OpenKeys
    BY <1>1 DEF OpenKeys
  <2> QED BY <1>1, <2>1, <2>2, PromiseStays
<1>2. ASSUME NEW u \in Ids, NEW v \in Payloads \cup {Partial}, Put(u, v) PROVE Promise!Next
  <2>1. UNCHANGED OpenKeys /\ UNCHANGED Wanted /\ UNCHANGED objPhys
    BY <1>2 DEF Put, rowVars, OpenKeys, Wanted, Working
  <2>2. UNCHANGED Content
    <3>1. \A x \in Slots : objPhys[x] # NoKey => objPhys[x] # Staging(u)
      BY <1>0, DrawnFacts, KeyFacts DEF Drawn, PInv, IInv
    <3>2. \A x \in Slots : objPhys[x] # NoKey => store'[objPhys[x]] = store[objPhys[x]]
      BY <1>0, <1>2, <3>1 DEF Put
    <3> QED BY <2>1, <3>2, ContentStays
  <2>3. CASE v = Partial
    <3>1. UNCHANGED delivered
      BY <1>2, <2>3 DEF Put
    <3> QED BY <2>1, <2>2, <3>1, PromiseStays
  <2>4. CASE v # Partial
    <3>1. delivered' = [delivered EXCEPT ![u] = @ \cup {v}] /\ v \in Payloads
      BY <1>2, <2>4 DEF Put
    <3> QED BY <2>1, <2>2, <3>1, PromiseDelivers
  <2> QED BY <2>3, <2>4
<1>3. ASSUME NEW r \in Requests, Acts(r) PROVE Promise!Next
  <2>0. /\ \A q \in Requests : q # r => req'[q] = req[q]
        /\ UNCHANGED delivered /\ Kept(r)
    BY <1>3, StepKept, BeginKept, GrantMoves DEF Acts, Kept, PInv
  <2>1. CASE CommitRow(r) /\ Closes(req[r].x) /\ req[r].x \in Slots /\ req[r].up \in Ids
             /\ upId[req[r].x] = req[r].up
    BY <1>3, <2>0, <2>1, CommitPublishes
  <2>2. CASE BeginReserve(r) /\ Opens(req[r].x) /\ req[r].x \in Slots
    <3>1. PICK k \in Keys : req[r].x = <<Bucket, k>>
      BY <2>2, SlotKeys
    <3>2. /\ UNCHANGED <<objPhys, store>> /\ At(r, "sweep") /\ At(r, "grant")'
      BY <1>0, <2>2 DEF BeginReserve, StoreAlone, At, HandlerTypes
    <3>3. UNCHANGED Content /\ UNCHANGED Wanted
      BY <2>0, <3>2, ContentStays, WantedStays DEF Removes, At
    <3>4. ids + 1 \in Ids /\ ids \in Nat
      BY <2>2, BoundsInt DEF Opens, Ids, PInv, IInv, TypeOK
    <3>5. \A x \in Slots : upId[x] # ids + 1
      <4>1. \A x \in Slots : upId[x] \in Int /\ upId[x] <= ids
        BY <1>0 DEF PInv, UploadRows, Ids
      <4> QED BY <3>4, <4>1
    <3>6. OpenKeys[ids + 1] = Gone /\ OpenKeys' = [OpenKeys EXCEPT ![ids + 1] = k]
      BY <1>0, <2>2, <3>1, <3>4, <3>5, OpenChanges DEF Opens, PInv
    <3>7. delivered[ids + 1] = {}
      <4>1. ids + 1 \notin granted
        BY <3>4 DEF PInv, Grants
      <4> QED BY <3>4, <4>1 DEF PInv, Grants
    <3> QED BY <2>0, <3>3, <3>4, <3>6, <3>7, PromiseOpens
  <2>3. CASE (SweepCancel(r) \/ BeginGrant(r)) /\ \E x \in Slots : Closes(x)
    <3>1. PICK k \in Keys : Closes(<<Bucket, k>>) /\ <<Bucket, k>> \in Slots
      BY <2>3, SlotKeys
    <3>2. /\ UNCHANGED <<objPhys, store>> /\ req[r].pc \in {"cancel", "grant"}
          /\ req'[r].pc \in {"sweep", "idle"}
      BY <1>0, <2>3 DEF SweepCancel, BeginGrant, Return, Idle, StoreAlone, At, HandlerTypes
    <3>3. UNCHANGED Content /\ UNCHANGED Wanted
      BY <2>0, <3>2, ContentStays, WantedStays DEF Removes
    <3>4. upId[<<Bucket, k>>] \in Ids
      BY <1>0, <3>1 DEF Closes
    <3>5. k # Gone
      BY NamesAssumption
    <3>6. /\ OpenKeys[upId[<<Bucket, k>>]] = k
          /\ OpenKeys' = [OpenKeys EXCEPT ![upId[<<Bucket, k>>]] = Gone]
      BY <1>0, <3>1, <3>4, OpenChanges DEF Closes, PInv
    <3> QED BY <2>0, <3>3, <3>4, <3>5, <3>6, PromiseWithdraws
  <2>4. CASE UNCHANGED <<upId, uploads, ids>>
    <3>1. UNCHANGED OpenKeys
      BY <2>4 DEF OpenKeys
    <3>2. CASE UNCHANGED objPhys
      <4>1. ASSUME NEW x \in Slots, objPhys[x] # NoKey, store'[objPhys[x]] # store[objPhys[x]]
            PROVE  At(r, "delete") /\ x = req[r].x /\ store'[objPhys[x]] = Gone
        <5>1. objPhys[x] \in Drawn
          BY <1>0, <4>1
        <5>2. store'[objPhys[x]] = Gone
          BY <4>1, <5>1, WrittenStep DEF PInv, Written
        <5>3. \/ At(r, "undo") /\ objPhys[x] = req[r].new
              \/ req[r].pc \in {"delold", "delete"} /\ objPhys[x] = req[r].old
          BY <1>3, <4>1, <5>1, StoreExact DEF PInv
        <5> QED BY <4>1, <5>2, <5>3 DEF PInv, Exclusive, Writes, Clears, Removes, At
      <4>2. CASE \A x \in Slots : objPhys[x] # NoKey => store'[objPhys[x]] = store[objPhys[x]]
        BY <2>0, <3>1, <3>2, <4>2, ContentStays, PromiseStays
      <4>3. CASE \E x \in Slots : objPhys[x] # NoKey /\ store'[objPhys[x]] # store[objPhys[x]]
        <5>1. PICK x \in Slots : objPhys[x] # NoKey /\ store'[objPhys[x]] # store[objPhys[x]]
          BY <4>3
        <5>2. At(r, "delete") /\ x = req[r].x /\ store'[objPhys[x]] = Gone
          BY <4>1, <5>1
        <5>3. PICK k \in Keys : x = <<Bucket, k>>
          BY SlotKeys
        <5>4. k \in Wanted
          BY <5>2, <5>3 DEF Wanted, Working, At
        <5>5. \A j \in Keys : j # k => /\ <<Bucket, j>> \in Slots
                                       /\ <<Bucket, j>> # req[r].x
          BY <5>2, <5>3 DEF Slots
        <5>6. Body(<<Bucket, k>>)' = Gone
          BY <3>2, <5>2, <5>3 DEF Body
        <5>7. \A j \in Keys : j # k => Body(<<Bucket, j>>)' = Body(<<Bucket, j>>)
          BY <3>2, <4>1, <5>5 DEF Body
        <5>8. Content' = [Content EXCEPT ![k] = Gone]
          BY <5>6, <5>7, ContentRemoved
        <5> QED BY <2>0, <3>1, <5>4, <5>8, PromiseRemoves
      <4> QED BY <4>2, <4>3
    <3>3. CASE Drops(r)
      <4>1. req[r].x \in Slots /\ UNCHANGED store
        BY <3>3 DEF Drops, DeleteRow, StoreAlone, PInv, IInv, Local, At
      <4>2. PICK k \in Keys : req[r].x = <<Bucket, k>>
        BY <4>1, SlotKeys
      <4>3. k \in Wanted
        BY <3>3, <4>2 DEF Drops, Wanted, Working, At
      <4>4. objPhys' = [objPhys EXCEPT ![<<Bucket, k>>] = NoKey]
        BY <3>3, <4>2 DEF Drops
      <4>5. \A j \in Keys : <<Bucket, j>> \in Slots /\ (j # k => <<Bucket, j>> # <<Bucket, k>>)
        BY DEF Slots
      <4>6. Body(<<Bucket, k>>)' = Gone
        BY <1>0, <4>4, <4>5 DEF Body
      <4>7. \A j \in Keys : j # k => Body(<<Bucket, j>>)' = Body(<<Bucket, j>>)
        BY <1>0, <4>1, <4>4, <4>5 DEF Body
      <4>8. Content' = [Content EXCEPT ![k] = Gone]
        BY <4>6, <4>7, ContentRemoved
      <4> QED BY <2>0, <3>1, <4>3, <4>8, PromiseRemoves
    <3>4. ~Switches(r)
      <4>1. SUFFICES ASSUME Switches(r) PROVE FALSE
        OBVIOUS
      <4>2. upId' = [upId EXCEPT ![req[r].x] = 0] /\ upId[req[r].x] = req[r].up /\ At(r, "commit")
        BY <4>1 DEF Switches, CommitRow
      <4>3. req[r].x \in Slots /\ req[r].up \in Ids /\ 0 \notin Ids
        BY <4>2 DEF PInv, IInv, Local, At, Ids
      <4> QED BY <1>0, <2>4, <4>2, <4>3
    <3> QED BY <1>3, <3>2, <3>3, <3>4, KeyMoves DEF GoesOn, Copies, Reads, PInv
  <2> QED BY <1>3, <2>1, <2>2, <2>3, <2>4, UploadMoves DEF PInv
<1> QED BY <1>1, <1>2, <1>3
        DEF Next, Acts, CreateBucket, Restart, Expire, ProviderOnly, StoreAlone, vars, rowVars, clientVars

(* Where clients do not rotate, the requests implement ObjectPromise: readers
   of a key see complete bodies of its own uploads, switched at once and at
   most once per upload, and removed only while a delete works on the key,
   under every interleaving, failure and restart. *)
THEOREM PromiseImplemented ==
  ASSUME "rotate" \notin Ops PROVE Spec => PromiseSpec
<1>1. Init => Promise!Init
  <2> SUFFICES ASSUME Init PROVE Promise!Init
    OBVIOUS
  <2>1. Content = [k \in Keys |-> Gone]
    BY DEF Init, Content, Body, Slots
  <2>2. \A k \in Keys : upId[<<Bucket, k>>] \notin Ids
    BY DEF Init, Slots, Ids
  <2>3. OpenKeys = [u \in Ids |-> Gone]
    BY <2>2 DEF OpenKeys
  <2>4. Wanted = {}
    BY DEF Init, Wanted, Working, Idle
  <2>5. delivered = [u \in Ids |-> {}]
    BY DEF Init
  <2> QED BY <2>1, <2>3, <2>4, <2>5 DEF Promise!Init, Content, OpenKeys, Wanted
<1>2. Init => PInv
  <2> SUFFICES ASSUME Init PROVE PInv
    OBVIOUS
  <2>1. \A r \in Requests : req[r].pc = "idle"
    BY DEF Init, Idle
  <2>2. NoRotation /\ Copied /\ Exclusive
    BY <2>1 DEF NoRotation, RotatePcs, Copied, Exclusive, Writes, Clears, Removes, At, Init
  <2>3. UploadRows
    <3>1. \A x \in Slots : upId[x] = 0 /\ ~C!HasUpload(x)
      BY DEF Init, C!Init, C!HasUpload, C!NoUpload, C!Slots, Slots
    <3> QED BY <3>1 DEF UploadRows, Init
  <2>4. Grants
    BY <2>1, KeyFacts DEF Init, Grants, At
  <2> QED BY <2>2, <2>3, <2>4, IInvInit DEF PInv
<1>3. PInv /\ [Next]_vars => PInv'
  BY IInvStep, NoRotationStep, UploadRowsStep, GrantsStep, ExclusiveStep, CopiedStep DEF PInv
<1>4. PInv /\ [Next]_vars => [Promise!Next]_(Promise!vars)
  BY <1>3, PromiseStep DEF PInv
<1> QED BY <1>1, <1>2, <1>3, <1>4, PTL DEF Spec, PromiseSpec, Promise!Spec

-----------------------------------------------------------------------------
(* Rotations, commits and one failure: where the committed bytes are.       *)

(* A final key is known to a handler as its new one, or as the old one. *)
NewPcs == {"verify", "commit", "undo", "rotatedelete", "rotaterow", "restore", "unrotate"}
OldPcs == {"delstaging", "delold", "rotatecopy", "rotatedelete", "rotaterow", "restore"}
Switching == {"rotatedelete", "rotaterow", "restore"}

HasNew(r, p) == req[r].pc \in NewPcs /\ req[r].new = p
HasOld(r, p) == req[r].pc \in OldPcs /\ req[r].old = p
Refers(x, p) ==
  \/ objPhys[x] = p
  \/ \E r \in Requests : req[r].x = x /\ (HasNew(r, p) \/ HasOld(r, p))

(* No client deletes. *)
NoDelete == \A r \in Requests : req[r].pc \notin {"delete", "deleterow"}

(* A rotation works on a row. *)
Rotating == {"rotatecopy", "rotatedelete", "rotaterow"}
Mapping == \A r \in Requests : req[r].pc \in Rotating => objPhys[req[r].x] # NoKey

(* A key belongs to one slot, and a new key to the handler that made it. *)
OneSlot == \A p \in Drawn : \A x, y \in Slots : Refers(x, p) /\ Refers(y, p) => x = y
Private ==
  \A r \in Requests : req[r].pc \in NewPcs =>
    /\ \A x \in Slots : objPhys[x] # req[r].new
    /\ \A q \in Requests : ~HasOld(q, req[r].new) /\ (HasNew(q, req[r].new) => q = r)

(* Rotations of one key carry the same bytes. *)
Lineage ==
  \A r \in Requests : req[r].pc \in Switching =>
    /\ store[req[r].new] # Gone
    /\ store[req[r].old] \in {store[req[r].new], Gone}
    /\ \A q \in Requests : req[q].pc \in Switching /\ req[q].old = req[r].old =>
         store[req[q].new] = store[req[r].new]

(* The etag of a row, or of a row about to be written, is that of a body. *)
Tagged ==
  /\ \A x \in Slots : objPhys[x] # NoKey => objTag[x] \in Payloads
  /\ \A r \in Requests : At(r, "commit") => store[req[r].new] = req[r].tag

(* What a commit is about to delete, what a rotation is, and what a handler
   deletes again unless it switches the row to it. *)
Doomed(p) == \E r \in Requests : req[r].pc \in {"delstaging", "delold"} /\ req[r].old = p
Spent(p) == \E r \in Requests : At(r, "rotatedelete") /\ req[r].old = p
Loose(p) == \E r \in Requests : /\ req[r].pc \in {"verify", "commit", "undo", "restore", "unrotate"}
                                /\ req[r].new = p

(* A key that holds the bytes of slot x, and that nobody is going to delete. *)
Holds(x, p) ==
  /\ store[p] = objTag[x]
  /\ \A y \in Slots : Refers(y, p) => y = x
  /\ ~Doomed(p) /\ ~Spent(p) /\ ~Loose(p)
  /\ \A r \in Requests : req[r].pc \in {"rotatedelete", "rotaterow"} /\ req[r].new = p => ~Doomed(req[r].old)

(* The one failure has happened, and its rotation is about to copy them back. *)
Returns(x, r) ==
  /\ At(r, "restore") /\ req[r].x = x /\ faults = MaxFaults
  /\ store[req[r].new] = objTag[x]
  /\ ~Doomed(req[r].old) /\ ~Spent(req[r].old)

Anchored ==
  \A x \in Slots : objPhys[x] # NoKey =>
    (\E p \in Drawn : Holds(x, p)) \/ (\E r \in Requests : Returns(x, r))

Custody == NoDelete /\ Mapping /\ OneSlot /\ Private /\ Lineage /\ Tagged /\ Anchored

-----------------------------------------------------------------------------
(* What a handler's step does to the final keys. *)
Bare == {"idle", "sweep", "cancel", "grant", "head", "copy"}
SameKeys(r) == /\ req'[r].x = req[r].x /\ req'[r].id = req[r].id
               /\ req'[r].old = req[r].old /\ req'[r].new = req[r].new
SameRows == UNCHANGED <<objId, objPhys, objTag>>
SameBodies == \A p \in Drawn : store'[p] = store[p]

(* What a handler has done that knows no key any more, if nothing failed. *)
Leaves(r) ==
  /\ req[r].pc \notin {"verify", "commit", "rotatedelete", "rotaterow", "restore"}
  /\ req[r].pc \in {"undo", "unrotate"} => store'[req[r].new] = Gone
  /\ At(r, "delold") => store'[req[r].old] = Gone
  /\ At(r, "delstaging") => req[r].old = NoKey

(* The handler knows no key any more; it may have deleted one on its way. *)
Rests(r) ==
  /\ req'[r].pc \in Bare /\ SameRows /\ (Fault \/ Leaves(r))
  /\ \A p \in Drawn : \/ store'[p] = store[p]
                      \/ /\ store'[p] = Gone
                         /\ \/ req[r].pc \in {"undo", "unrotate"} /\ req[r].new = p
                            \/ At(r, "delold") /\ req[r].old = p

Makes(r) ==
  /\ finals < MaxFinals /\ finals' = finals + 1 /\ SameRows /\ SameBodies
  /\ req'[r].new = FreshFinal
  /\ req'[r].x = req[r].x /\ req'[r].id = req[r].id /\ req'[r].old = req[r].old
  /\ \/ At(r, "copy") /\ At(r, "verify")'
     \/ /\ At(r, "rotatecopy") /\ At(r, "rotatedelete")'
        /\ store[req[r].old] # Gone /\ store'[FreshFinal] = store[req[r].old]

Proceeds(r) ==
  /\ SameKeys(r) /\ SameRows /\ SameBodies
  /\ \/ req[r].pc \in {"verify", "commit"} /\ At(r, "undo")'
     \/ At(r, "verify") /\ At(r, "commit")' /\ req'[r].tag = store[req[r].new]
     \/ At(r, "delstaging") /\ At(r, "delold")'

Publishes(r) ==
  /\ At(r, "commit") /\ At(r, "delstaging")' /\ SameBodies
  /\ req'[r].x = req[r].x /\ req'[r].old = objPhys[req[r].x]
  /\ objPhys' = [objPhys EXCEPT ![req[r].x] = req[r].new]
  /\ objTag' = [objTag EXCEPT ![req[r].x] = req[r].tag]

ReadsRow(r) ==
  /\ At(r, "idle") /\ SameRows /\ SameBodies
  /\ req'[r].x \in Slots /\ req'[r].old = objPhys[req'[r].x] /\ req'[r].old \in Drawn
  /\ req'[r].id = objId[req'[r].x]
Starts(r) == ReadsRow(r) /\ At(r, "rotatecopy")'

Strips(r) ==
  /\ At(r, "rotatedelete") /\ At(r, "rotaterow")' /\ SameKeys(r) /\ SameRows
  /\ store'[req[r].old] = Gone
  /\ \A p \in Drawn : p # req[r].old => store'[p] = store[p]

Repoints(r) ==
  /\ At(r, "rotaterow") /\ At(r, "idle")' /\ SameBodies /\ UNCHANGED <<objId, objTag>>
  /\ \/ objId[req[r].x] # req[r].id /\ UNCHANGED objPhys
     \/ objPhys' = [objPhys EXCEPT ![req[r].x] = req[r].new]

FailsToSwitch(r) ==
  /\ At(r, "rotaterow") /\ At(r, "restore")' /\ Fault /\ SameKeys(r) /\ SameRows /\ SameBodies

Restores(r) ==
  /\ At(r, "restore") /\ At(r, "unrotate")' /\ SameKeys(r) /\ SameRows
  /\ \/ Fault /\ SameBodies
     \/ /\ store[req[r].new] = Gone /\ SameBodies
     \/ /\ store'[req[r].old] = store[req[r].new]
        /\ \A p \in Drawn : p # req[r].old => store'[p] = store[p]

(* A delete: the body, then the row if it is still the one that was read. *)
Erases(r) ==
  /\ At(r, "delete") /\ At(r, "deleterow")' /\ SameKeys(r) /\ SameRows
  /\ store'[req[r].old] = Gone
  /\ \A p \in Drawn : p # req[r].old => store'[p] = store[p]

Forgets(r) ==
  /\ At(r, "deleterow") /\ At(r, "idle")' /\ SameBodies
  /\ \/ objId[req[r].x] # req[r].id /\ SameRows
     \/ /\ objPhys' = [objPhys EXCEPT ![req[r].x] = NoKey]
        /\ objTag' = [objTag EXCEPT ![req[r].x] = Gone]

Deletes(r) == Erases(r) \/ Forgets(r) \/ (ReadsRow(r) /\ At(r, "delete")')

LEMMA FinalMoves ==
  ASSUME IInv, NEW r \in Requests, Acts(r)
  PROVE  \/ Rests(r) \/ Makes(r) \/ Proceeds(r) \/ Publishes(r) \/ Starts(r) \/ Strips(r)
         \/ Repoints(r) \/ FailsToSwitch(r) \/ Restores(r)
         \/ (Deletes(r) /\ (At(r, "idle") => "delete" \in Ops))
<1>0. /\ req[r] \in HandlerTypes /\ DOMAIN req = Requests /\ Local(r)
      /\ store \in [PhysKeys -> Payloads \cup {Partial, Gone}] /\ finals \in Nat
      /\ Drawn \subseteq PhysKeys /\ NoKey \notin Drawn
      /\ \A u \in Ids : Staging(u) \notin Drawn
      /\ FreshFinal \notin Drawn /\ (finals < MaxFinals => FreshFinal \in PhysKeys)
  BY DrawnFacts, KeyFacts, BoundsInt DEF IInv, TypeOK, Local, Drawn, FreshFinal
<1>1. ASSUME ProviderOnly PROVE SameRows
  BY <1>1 DEF ProviderOnly, rowVars, SameRows
<1>2. ASSUME StoreAlone PROVE SameBodies
  BY <1>2 DEF StoreAlone, SameBodies
<1>3. ASSUME NEW q, CopyTo(q)
      PROVE  /\ SameBodies /\ finals < MaxFinals /\ finals' = finals + 1
             /\ store'[FreshFinal] = store[q]
  BY <1>0, <1>3 DEF CopyTo, SameBodies
<1>4. ASSUME NEW q, TryUnlink(q)
      PROVE  /\ \A p \in Drawn : store'[p] = store[p] \/ (p = q /\ store'[p] = Gone)
             /\ q \in Drawn => Fault \/ store'[q] = Gone
  BY <1>0, <1>4 DEF TryUnlink, Unlink
<1>5. CASE Return(r) /\ SameRows /\ SameBodies /\ (Fault \/ Leaves(r))
  BY <1>5, ReturnLocal, IdleLocal DEF Rests, Bare, SameBodies
<1>6. CASE \E k \in Keys : BeginSweep(r, k) \/ CommitGet(r, k)
  <2>1. PICK k \in Keys : BeginSweep(r, k) \/ CommitGet(r, k)
    BY <1>6
  <2>2. ASSUME NEW h, req' = [req EXCEPT ![r] = h], h.pc \in {"sweep", "head"} PROVE req'[r].pc \in Bare
    BY <1>0, <2>2 DEF Bare
  <2>3. req'[r].pc \in Bare
    BY <2>1, <2>2 DEF BeginSweep, CommitGet, Idle
  <2>4. SameRows /\ SameBodies /\ Leaves(r)
    BY <1>1, <1>2, <2>1 DEF BeginSweep, CommitGet, Enter, Leaves, At
  <2> QED BY <2>3, <2>4 DEF Rests, SameBodies
<1>7. CASE \E k \in Keys : DeleteGet(r, k) \/ RotateGet(r, k)
  <2>1. PICK k \in Keys, op \in Ops, pc \in {"delete", "rotatecopy"} :
          ReadRow(r, k, op, pc) /\ (pc = "delete" => op = "delete")
    BY <1>7 DEF DeleteGet, RotateGet, ReadRow
  <2> DEFINE x == <<Bucket, k>>
             h == [Idle EXCEPT !.pc = pc, !.x = x, !.id = objId[x], !.old = objPhys[x]]
  <2>2. /\ At(r, "idle") /\ req' = [req EXCEPT ![r] = h] /\ SameRows /\ SameBodies /\ x \in Slots
        /\ objId[x] # 0
    BY <1>1, <1>2, <2>1 DEF ReadRow, Enter, Slots
  <2> HIDE DEF x
  <2>3. objPhys[x] \in Drawn
    BY <2>2 DEF IInv, Rows
  <2>4. h.pc = pc /\ h.x = x /\ h.old = objPhys[x] /\ h.id = objId[x]
    BY DEF Idle
  <2> HIDE DEF h
  <2>5. req'[r] = h
    BY <1>0, <2>2
  <2>6. ReadsRow(r) /\ req'[r].pc = pc
    BY <2>2, <2>3, <2>4, <2>5 DEF ReadsRow
  <2> QED BY <2>1, <2>6 DEF Starts, Deletes, At
<1>8. CASE (\E u \in Ids : SweepDelete(r, u)) \/ SweepCancel(r) \/ BeginReserve(r)
  <2>1. /\ req'[r].pc \in {"sweep", "cancel", "grant"}
        /\ req[r].pc \in {"sweep", "cancel"}
    BY <1>0, <1>8 DEF SweepDelete, SweepCancel, BeginReserve, HandlerTypes, At
  <2>2. SameRows
    BY <1>1, <1>8 DEF SweepDelete, SweepCancel, BeginReserve, SameRows
  <2>3. ASSUME NEW u \in Ids, SweepDelete(r, u) PROVE SameBodies
    BY <1>0, <2>3 DEF SweepDelete, Unlink, SameBodies
  <2>4. SameBodies
    BY <1>2, <1>8, <2>3 DEF SweepCancel, BeginReserve
  <2> QED BY <2>1, <2>2, <2>4 DEF Rests, Leaves, Bare, SameBodies, At
<1>9. CASE CommitHead(r) \/ BeginRefused(r) \/ BeginGrant(r)
  <2>1. SameRows /\ SameBodies /\ req[r].pc \in {"sweep", "grant", "head"}
    BY <1>1, <1>2, <1>9 DEF CommitHead, BeginRefused, BeginGrant, SameRows, At
  <2>2. Return(r) \/ Goto(r, "copy")
    BY <1>9 DEF CommitHead, BeginRefused, BeginGrant
  <2>3. CASE Goto(r, "copy")
    BY <2>1, <2>3, GotoLocal DEF Rests, Leaves, Bare, SameBodies, Pcs, At
  <2> QED BY <1>5, <2>1, <2>2, <2>3 DEF Leaves, At
<1>10. CASE Cut(r)
  BY <1>1, <1>2, <1>5, <1>10 DEF Cut
<1>11. CASE CommitCopy(r) \/ RotateCopy(r)
  <2> DEFINE from == IF At(r, "copy") THEN Staging(req[r].up) ELSE req[r].old
             pc == IF At(r, "copy") THEN "verify" ELSE "rotatedelete"
             h == [req[r] EXCEPT !.pc = pc, !.new = FreshFinal]
  <2>1. /\ SameRows /\ (At(r, "copy") \/ At(r, "rotatecopy"))
        /\ \/ store[from] # Gone /\ CopyTo(from) /\ req' = [req EXCEPT ![r] = h]
           \/ Return(r) /\ (CopyFails(from) \/ StoreAlone)
    BY <1>1, <1>11 DEF CommitCopy, RotateCopy, At
  <2>2. CASE Return(r)
    <3>1. SameBodies
      BY <1>2, <1>3, <2>1, <2>2 DEF CopyFails, StoreAlone, SameBodies
    <3> QED BY <1>5, <2>1, <2>2, <3>1 DEF Leaves, At
  <2>3. CASE store[from] # Gone /\ CopyTo(from) /\ req' = [req EXCEPT ![r] = h]
    <3>1. h.pc = pc /\ h.new = FreshFinal /\ h.x = req[r].x /\ h.id = req[r].id /\ h.old = req[r].old
      BY <1>0 DEF HandlerTypes
    <3> HIDE DEF h
    <3>2. req'[r] = h
      BY <1>0, <2>3
    <3>3. At(r, "copy") => At(r, "verify")'
      BY <3>1, <3>2 DEF At
    <3>4. At(r, "rotatecopy") => At(r, "rotatedelete")' /\ from = req[r].old
      BY <3>1, <3>2 DEF At
    <3> HIDE DEF from, pc
    <3> QED BY <1>3, <2>1, <2>3, <3>1, <3>2, <3>3, <3>4 DEF Makes
  <2> QED BY <2>1, <2>2, <2>3
<1>12. CASE CommitVerify(r) \/ CommitRowFails(r)
  <2>1. SameRows /\ SameBodies /\ req[r].pc \in {"verify", "commit"}
    BY <1>1, <1>2, <1>12 DEF CommitVerify, CommitRowFails, At
  <2>2. CASE Goto(r, "undo")
    BY <2>1, <2>2, GotoLocal DEF Proceeds, SameKeys, Pcs, At
  <2>3. CASE At(r, "verify") /\ req' = [req EXCEPT ![r].pc = "commit", ![r].tag = store[req[r].new]]
    <3> DEFINE h == [req[r] EXCEPT !.pc = "commit", !.tag = store[req[r].new]]
    <3>1. /\ h.pc = "commit" /\ h.new = req[r].new /\ h.x = req[r].x /\ h.id = req[r].id /\ h.old = req[r].old
          /\ h.tag = store[req[r].new] /\ req' = [req EXCEPT ![r] = h]
      BY <1>0, <2>3 DEF HandlerTypes
    <3> HIDE DEF h
    <3> QED BY <1>0, <2>1, <2>3, <3>1 DEF Proceeds, SameKeys, At
  <2> QED BY <1>12, <2>2, <2>3 DEF CommitVerify, CommitRowFails
<1>13. CASE CommitRow(r)
  <2> DEFINE h == [req[r] EXCEPT !.pc = "delstaging", !.old = objPhys[req[r].x]]
  <2>1. /\ req' = [req EXCEPT ![r] = h] /\ At(r, "commit") /\ SameBodies
        /\ objPhys' = [objPhys EXCEPT ![req[r].x] = req[r].new]
        /\ objTag' = [objTag EXCEPT ![req[r].x] = req[r].tag]
    BY <1>2, <1>13 DEF CommitRow
  <2>2. h.pc = "delstaging" /\ h.old = objPhys[req[r].x] /\ h.x = req[r].x
    BY <1>0 DEF HandlerTypes
  <2> HIDE DEF h
  <2> QED BY <1>0, <2>1, <2>2 DEF Publishes, At
<1>14. CASE CommitUndo(r) \/ CommitDeleteOld(r) \/ RotateUndo(r)
  <2>1. SameRows /\ Return(r)
    BY <1>1, <1>14 DEF CommitUndo, CommitDeleteOld, RotateUndo
  <2>2. req'[r].pc \in Bare
    BY <2>1, ReturnLocal, IdleLocal DEF Bare
  <2>3. CASE req[r].pc \in {"undo", "unrotate"} /\ TryUnlink(req[r].new)
    BY <1>0, <1>4, <2>1, <2>2, <2>3 DEF Rests, Leaves, Local, At
  <2>4. CASE At(r, "delold") /\ TryUnlink(req[r].old)
    BY <1>0, <1>4, <2>1, <2>2, <2>4 DEF Rests, Leaves, Local, At
  <2> QED BY <1>14, <2>3, <2>4 DEF CommitUndo, CommitDeleteOld, RotateUndo, At
<1>15. CASE CommitDeleteStaging(r)
  <2>1. /\ SameRows /\ At(r, "delstaging") /\ TryUnlink(Staging(req[r].up))
        /\ (Goto(r, "delold") \/ (Return(r) /\ req[r].old = NoKey)) /\ req[r].up \in Ids
    BY <1>0, <1>1, <1>15 DEF CommitDeleteStaging, Local, At
  <2>2. SameBodies
    BY <1>0, <1>4, <2>1 DEF SameBodies
  <2>3. CASE Goto(r, "delold")
    BY <2>1, <2>2, <2>3, GotoLocal DEF Proceeds, SameKeys, Pcs, At
  <2> QED BY <1>5, <2>1, <2>2, <2>3 DEF Leaves, At
<1>16. CASE RotateDelete(r)
  <2>1. SameRows /\ At(r, "rotatedelete") /\ Unlink(req[r].old) /\ Goto(r, "rotaterow")
    BY <1>1, <1>16 DEF RotateDelete
  <2>2. At(r, "rotaterow")' /\ SameKeys(r) /\ req[r].old \in Drawn
    BY <1>0, <2>1, GotoLocal DEF SameKeys, Pcs, Local, At
  <2> QED BY <1>0, <2>1, <2>2 DEF Strips, Unlink
<1>17. CASE RotateRow(r)
  <2>1. UNCHANGED <<objId, objTag>> /\ SameBodies /\ At(r, "rotaterow")
    BY <1>2, <1>17 DEF RotateRow
  <2>2. CASE Goto(r, "restore") /\ UNCHANGED objPhys /\ Fault
    BY <2>1, <2>2, GotoLocal DEF FailsToSwitch, SameKeys, SameRows, Pcs, At
  <2>3. CASE /\ Return(r)
             /\ objPhys' = IF objId[req[r].x] = req[r].id
                           THEN [objPhys EXCEPT ![req[r].x] = req[r].new] ELSE objPhys
    BY <2>1, <2>3, ReturnLocal, IdleLocal DEF Repoints, At
  <2> QED BY <1>17, <2>2, <2>3 DEF RotateRow
<1>18. CASE RotateRestore(r)
  <2>1. SameRows /\ At(r, "restore") /\ Goto(r, "unrotate") /\ req[r].old \in Drawn
    BY <1>0, <1>1, <1>18 DEF RotateRestore, Local, At
  <2>2. At(r, "unrotate")' /\ SameKeys(r)
    BY <2>1, GotoLocal DEF SameKeys, Pcs, At
  <2>3. CASE UNCHANGED store /\ Fault
    BY <2>1, <2>2, <2>3 DEF Restores, SameBodies
  <2>4. CASE store' = IF store[req[r].new] = Gone THEN store
                      ELSE [store EXCEPT ![req[r].old] = store[req[r].new]]
    BY <1>0, <2>1, <2>2, <2>4 DEF Restores, SameBodies
  <2> QED BY <1>18, <2>3, <2>4 DEF RotateRestore
<1>19. CASE DeletePhysical(r)
  <2>1. SameRows /\ At(r, "delete") /\ Unlink(req[r].old) /\ Goto(r, "deleterow")
    BY <1>1, <1>19 DEF DeletePhysical
  <2>2. At(r, "deleterow")' /\ SameKeys(r) /\ req[r].old \in Drawn
    BY <1>0, <2>1, GotoLocal DEF SameKeys, Pcs, Local, At
  <2> QED BY <1>0, <2>1, <2>2 DEF Deletes, Erases, Unlink, At
<1>20. CASE DeleteRow(r)
  <2>1. SameBodies /\ At(r, "deleterow") /\ At(r, "idle")'
    BY <1>2, <1>20, ReturnLocal, IdleLocal DEF DeleteRow, At
  <2> QED BY <1>20, <2>1 DEF DeleteRow, Deletes, Forgets, SameRows, At
<1> QED BY <1>6, <1>7, <1>8, <1>9, <1>10, <1>11, <1>12, <1>13, <1>14, <1>15, <1>16, <1>17, <1>18, <1>19, <1>20
        DEF Acts, Step

(* The same where clients do not delete. *)
LEMMA CustodyMoves ==
  ASSUME IInv, "delete" \notin Ops, NoDelete, NEW r \in Requests, Acts(r)
  PROVE  \/ Rests(r) \/ Makes(r) \/ Proceeds(r) \/ Publishes(r) \/ Starts(r) \/ Strips(r)
         \/ Repoints(r) \/ FailsToSwitch(r) \/ Restores(r)
BY FinalMoves DEF NoDelete, Deletes, Erases, Forgets, ReadsRow, At

(* Keys that handlers and rows know have been drawn. *)
LEMMA KeysKnown ==
  ASSUME IInv
  PROVE  /\ \A r \in Requests : /\ req[r].pc \in NewPcs => req[r].new \in Drawn /\ req[r].x \in Slots
                                /\ req[r].pc \in OldPcs => req[r].old \in Drawn \cup {NoKey} /\ req[r].x \in Slots
                                /\ req[r].pc \in OldPcs \ {"delstaging"} => req[r].old \in Drawn
                                /\ ~At(r, "idle") => req[r].x \in Slots
         /\ \A x \in Slots : objPhys[x] \in Drawn \cup {NoKey}
         /\ objPhys \in [Slots -> PhysKeys \cup {NoKey}] /\ objTag \in [Slots -> Payloads \cup {Gone}]
         /\ store \in [PhysKeys -> Payloads \cup {Partial, Gone}]
         /\ NoKey \notin Drawn /\ Drawn \subseteq PhysKeys /\ finals \in Nat
BY DrawnFacts DEF IInv, TypeOK, Rows, Local, NewPcs, OldPcs, At

LEMMA FreshKey ==
  ASSUME IInv
  PROVE  /\ FreshFinal \notin Drawn /\ FreshFinal # NoKey
         /\ finals' = finals + 1 => Drawn' = Drawn \cup {FreshFinal}
         /\ finals' = finals => Drawn' = Drawn
<1>1. finals \in Nat
  BY DrawnFacts DEF IInv
<1>2. FreshFinal \notin Drawn /\ FreshFinal # NoKey
  BY <1>1, KeyFacts DEF Drawn, FreshFinal, Final, NoKey
<1>3. ASSUME finals' = finals + 1 PROVE Drawn' = Drawn \cup {FreshFinal}
  <2>1. 1..(finals + 1) = (1..finals) \cup {finals + 1}
    BY <1>1
  <2> QED BY <1>3, <2>1 DEF Drawn, FreshFinal
<1> QED BY <1>2, <1>3 DEF Drawn

(* Who refers to a key after a step of r referred to it before, except to    *)
(* the fresh key of a copy.                                                  *)
LEMMA RefersBack ==
  ASSUME IInv, "delete" \notin Ops, NoDelete, NEW r \in Requests, Acts(r), NEW y \in Slots, NEW p,
         Refers(y, p)', p # NoKey
  PROVE  Refers(y, p) \/ (Makes(r) /\ p = FreshFinal /\ y = req[r].x)
<1>0. \A q \in Requests : q # r => req'[q] = req[q]
  BY StepKept, BeginKept DEF Acts, Kept
<1>1. CASE objPhys'[y] = p
  <2>1. CASE UNCHANGED objPhys
    BY <1>1, <2>1 DEF Refers
  <2>2. CASE /\ req[r].pc \in {"commit", "rotaterow"} /\ objPhys' = [objPhys EXCEPT ![req[r].x] = req[r].new]
    <3>1. CASE y = req[r].x
      BY <1>1, <2>2, <3>1, KeysKnown DEF Refers, HasNew, NewPcs
    <3>2. CASE y # req[r].x
      BY <1>1, <2>2, <3>2, KeysKnown DEF Refers
    <3> QED BY <3>1, <3>2
  <2> QED BY <2>1, <2>2, CustodyMoves
          DEF Rests, Makes, Proceeds, Publishes, Starts, ReadsRow, Strips, Repoints, FailsToSwitch, Restores, SameRows, At
<1>2. ASSUME NEW q \in Requests, req'[q].x = y, HasNew(q, p)' \/ HasOld(q, p)'
      PROVE  Refers(y, p) \/ (Makes(r) /\ p = FreshFinal /\ y = req[r].x)
  <2>1. CASE q # r
    BY <1>0, <1>2, <2>1 DEF Refers, HasNew, HasOld
  <2>2. CASE q = r
    <3>1. CASE Rests(r) \/ Repoints(r)
      BY <1>2, <2>2, <3>1 DEF Rests, Repoints, Bare, HasNew, HasOld, NewPcs, OldPcs, At
    <3>2. CASE Makes(r)
      BY <1>2, <2>2, <3>2 DEF Makes, Refers, HasNew, HasOld, NewPcs, OldPcs, At
    <3>3. CASE Proceeds(r) \/ Strips(r) \/ FailsToSwitch(r) \/ Restores(r)
      BY <1>2, <2>2, <3>3
      DEF Proceeds, Strips, FailsToSwitch, Restores, SameKeys, Refers, HasNew, HasOld, NewPcs, OldPcs, At
    <3>4. CASE Publishes(r) \/ Starts(r)
      BY <1>2, <2>2, <3>4 DEF Publishes, Starts, ReadsRow, Refers, HasNew, HasOld, NewPcs, OldPcs, At
    <3> QED BY <3>1, <3>2, <3>3, <3>4, CustodyMoves
  <2> QED BY <2>1, <2>2
<1> QED BY <1>1, <1>2 DEF Refers

(* A new key stays private until a row is switched to it. *)
LEMMA PrivateStep ==
  ASSUME IInv, "delete" \notin Ops, NoDelete, Private, NEW r \in Requests, Acts(r)
  PROVE  Private'
<1>0. \A q \in Requests : q # r => req'[q] = req[q]
  BY StepKept, BeginKept DEF Acts, Kept
<1>1. ASSUME NEW q \in Requests, req'[q].pc \in NewPcs, ~(q = r /\ Makes(r))
      PROVE  req[q].pc \in NewPcs /\ req'[q].new = req[q].new
  BY <1>0, <1>1, CustodyMoves
  DEF Rests, Bare, Makes, Proceeds, Publishes, Starts, ReadsRow, Strips, Repoints, FailsToSwitch, Restores, SameKeys,
      NewPcs, At
<1>2. ASSUME NEW q \in Requests, req'[q].pc \in NewPcs, NEW x \in Slots, objPhys'[x] = req'[q].new PROVE FALSE
  <2>1. CASE q = r /\ Makes(r)
    BY <1>2, <2>1, KeysKnown, FreshKey DEF Makes, SameRows
  <2>2. CASE ~(q = r /\ Makes(r))
    <3>1. req[q].pc \in NewPcs /\ req'[q].new = req[q].new
      BY <1>1, <1>2, <2>2
    <3>2. CASE q = r
      BY <1>2, <3>1, <3>2, CustodyMoves
      DEF Private, Rests, Bare, Makes, Proceeds, Publishes, Starts, ReadsRow, Strips, Repoints, FailsToSwitch, Restores,
          SameRows, NewPcs, At
    <3>3. CASE q # r
      <4>1. CASE UNCHANGED objPhys
        BY <1>2, <3>1, <4>1 DEF Private
      <4>2. CASE /\ req[r].pc \in {"commit", "rotaterow"}
                 /\ objPhys' = [objPhys EXCEPT ![req[r].x] = req[r].new]
        <5>1. HasNew(r, req[r].new)
          BY <4>2 DEF HasNew, NewPcs
        <5>2. req[r].new # req[q].new
          BY <3>1, <3>3, <5>1 DEF Private
        <5> QED BY <1>2, <3>1, <4>2, <5>2, KeysKnown DEF Private
      <4> QED BY <4>1, <4>2, CustodyMoves
              DEF Rests, Makes, Proceeds, Publishes, Starts, ReadsRow, Strips, Repoints, FailsToSwitch, Restores, SameRows, At
    <3> QED BY <3>2, <3>3
  <2> QED BY <2>1, <2>2
<1>3. ASSUME NEW q \in Requests, req'[q].pc \in NewPcs, NEW s \in Requests, NEW p,
             p = req'[q].new, HasOld(s, p)'
      PROVE  FALSE
  <2>1. CASE q = r /\ Makes(r)
    <3>1. HasOld(s, FreshFinal)
      BY <1>0, <1>3, <2>1 DEF Makes, HasOld, OldPcs, At
    <3> QED BY <3>1, KeysKnown, FreshKey DEF HasOld
  <2>2. CASE ~(q = r /\ Makes(r))
    <3>1. req[q].pc \in NewPcs /\ req'[q].new = req[q].new
      BY <1>1, <1>3, <2>2
    <3>2. CASE s # r
      BY <1>0, <1>3, <3>1, <3>2 DEF Private, HasOld
    <3>3. CASE s = r
      <4>1. CASE Publishes(r) \/ Starts(r)
        <5>1. \E x \in Slots : objPhys[x] = req[q].new
          BY <1>3, <3>1, <3>3, <4>1, KeysKnown DEF Publishes, Starts, ReadsRow, HasOld, At
        <5> QED BY <3>1, <5>1 DEF Private
      <4>2. CASE ~(Publishes(r) \/ Starts(r))
        <5>1. HasOld(r, req[q].new)
          BY <1>3, <3>1, <3>3, <4>2, CustodyMoves
          DEF Rests, Bare, Makes, Proceeds, Strips, Repoints, FailsToSwitch, Restores, SameKeys, HasOld, OldPcs, At
        <5> QED BY <3>1, <5>1 DEF Private
      <4> QED BY <4>1, <4>2
    <3> QED BY <3>2, <3>3
  <2> QED BY <2>1, <2>2
<1>4. ASSUME NEW q \in Requests, req'[q].pc \in NewPcs, NEW s \in Requests, NEW p,
             p = req'[q].new, HasNew(s, p)'
      PROVE  s = q
  <2>1. CASE r \in {q, s} /\ Makes(r) /\ q # s
    BY <1>0, <1>4, <2>1, KeysKnown, FreshKey DEF Makes, HasNew
  <2>2. CASE ~(r \in {q, s} /\ Makes(r))
    <3>1. req[q].pc \in NewPcs /\ req'[q].new = req[q].new
      BY <1>1, <1>4, <2>2
    <3>2. req[s].pc \in NewPcs /\ req'[s].new = req[s].new
      BY <1>1, <1>4, <2>2 DEF HasNew
    <3> QED BY <1>4, <3>1, <3>2 DEF Private, HasNew
  <2> QED BY <2>1, <2>2
<1> QED BY <1>2, <1>3, <1>4 DEF Private, HasOld, HasNew

(* A key has one slot. *)
LEMMA OneSlotStep ==
  ASSUME IInv, "delete" \notin Ops, NoDelete, OneSlot, NEW r \in Requests, Acts(r)
  PROVE  OneSlot'
<1> SUFFICES ASSUME NEW p \in Drawn', NEW x \in Slots, NEW y \in Slots, Refers(x, p)', Refers(y, p)'
             PROVE  x = y
  BY DEF OneSlot
<1>0. finals' \in {finals, finals + 1}
  BY FinalsStep
<1>1. p # NoKey /\ (p \in Drawn \/ p = FreshFinal)
  BY <1>0, KeysKnown, FreshKey
<1>2. CASE p \in Drawn
  <2>1. Refers(x, p) /\ Refers(y, p)
    BY <1>1, <1>2, RefersBack, FreshKey
  <2> QED BY <1>2, <2>1 DEF OneSlot
<1>3. CASE p = FreshFinal
  <2>1. \A z \in Slots : ~Refers(z, p)
    BY <1>3, KeysKnown, FreshKey DEF Refers, HasNew, HasOld
  <2> QED BY <1>1, <2>1, RefersBack
<1> QED BY <1>1, <1>2, <1>3

(* The bodies of new keys stay as they are while their handlers work on. *)
LEMMA NewKept ==
  ASSUME IInv, "delete" \notin Ops, NoDelete, Private, NEW r \in Requests, Acts(r),
         NEW q \in Requests, req[q].pc \in NewPcs, req'[q].pc \in NewPcs
  PROVE  store'[req[q].new] = store[req[q].new]
<1>0. req[q].new \in Drawn /\ HasNew(q, req[q].new)
  BY KeysKnown DEF HasNew
<1>1. CASE q # r
  <2>1. ~HasNew(r, req[q].new) /\ ~HasOld(r, req[q].new)
    BY <1>1 DEF Private
  <2> QED BY <1>0, <2>1, CustodyMoves
          DEF HasNew, HasOld, NewPcs, OldPcs, Rests, Makes, Proceeds, Publishes, Starts, ReadsRow, Strips, Repoints,
              FailsToSwitch, Restores, SameBodies, At
<1>2. CASE q = r
  <2>1. ~HasOld(r, req[r].new)
    BY <1>2 DEF Private
  <2>2. ~Rests(r)
    BY <1>2 DEF Rests, Bare, NewPcs
  <2> QED BY <1>0, <1>2, <2>1, <2>2, CustodyMoves
          DEF HasOld, OldPcs, Makes, Proceeds, Publishes, Starts, ReadsRow, Strips, Repoints,
              FailsToSwitch, Restores, SameBodies, At
<1> QED BY <1>1, <1>2

(* Rotations go on working on rows, and rows keep the etags of bodies. *)
LEMMA MappingStep ==
  ASSUME IInv, "delete" \notin Ops, NoDelete, Mapping, NEW r \in Requests, Acts(r)
  PROVE  /\ NoDelete' /\ Mapping'
         /\ \A x \in Slots : objPhys'[x] # NoKey =>
              objPhys[x] # NoKey \/ (Publishes(r) /\ x = req[r].x)
<1>0. \A q \in Requests : q # r => req'[q] = req[q]
  BY StepKept, BeginKept DEF Acts, Kept
<1>1. NoDelete'
  BY <1>0, CustodyMoves
  DEF NoDelete, Rests, Bare, Makes, Proceeds, Publishes, Starts, ReadsRow, Strips, Repoints, FailsToSwitch, Restores, At
<1>2. \/ UNCHANGED objPhys
      \/ /\ Publishes(r) \/ At(r, "rotaterow")
         /\ req[r].x \in Slots /\ req[r].new \in Drawn
         /\ objPhys' = [objPhys EXCEPT ![req[r].x] = req[r].new]
  BY KeysKnown, CustodyMoves
  DEF NewPcs, Rests, Makes, Proceeds, Publishes, Starts, ReadsRow, Strips, Repoints, FailsToSwitch, Restores, SameRows, At
<1>3. \A x \in Slots : /\ objPhys[x] # NoKey => objPhys'[x] # NoKey
                       /\ objPhys'[x] # NoKey => objPhys[x] # NoKey \/ (Publishes(r) /\ x = req[r].x)
  BY <1>2, KeysKnown DEF Mapping, Rotating, At
<1>4. ASSUME NEW q \in Requests, req'[q].pc \in Rotating PROVE objPhys'[req'[q].x] # NoKey
  <2>1. CASE q # r \/ ~Starts(r)
    <3>1. req[q].pc \in Rotating /\ req'[q].x = req[q].x
      BY <1>0, <1>4, <2>1, CustodyMoves
      DEF Rotating, Rests, Bare, Makes, Proceeds, Publishes, Starts, ReadsRow, Strips, Repoints, FailsToSwitch, Restores,
          SameKeys, At
    <3>2. req[q].x \in Slots
      BY <3>1, KeysKnown DEF Rotating, At
    <3> QED BY <1>3, <3>1, <3>2 DEF Mapping
  <2>2. CASE q = r /\ Starts(r)
    BY <2>2, KeysKnown DEF Starts, ReadsRow, SameRows
  <2> QED BY <2>1, <2>2
<1> QED BY <1>1, <1>3, <1>4 DEF Mapping

LEMMA TaggedStep ==
  ASSUME IInv, "delete" \notin Ops, NoDelete, Mapping, Private, Tagged, NEW r \in Requests, Acts(r)
  PROVE  Tagged'
<1>0. \A q \in Requests : q # r => req'[q] = req[q]
  BY StepKept, BeginKept DEF Acts, Kept
<1>1. ASSUME NEW x \in Slots, objPhys'[x] # NoKey PROVE objTag'[x] \in Payloads
  <2>1. CASE Publishes(r)
    <3>1. req[r].tag \in Payloads
      BY <2>1 DEF Publishes, IInv, Local
    <3>2. objPhys[x] # NoKey \/ x = req[r].x
      BY <1>1, MappingStep
    <3> QED BY <2>1, <3>1, <3>2, KeysKnown DEF Publishes, Tagged
  <2>2. CASE ~Publishes(r)
    <3>1. objPhys[x] # NoKey
      BY <1>1, <2>2, MappingStep
    <3>2. UNCHANGED objTag
      BY <2>2, CustodyMoves
      DEF Rests, Makes, Proceeds, Publishes, Starts, ReadsRow, Strips, Repoints, FailsToSwitch, Restores, SameRows
    <3> QED BY <3>1, <3>2 DEF Tagged
  <2> QED BY <2>1, <2>2
<1>2. ASSUME NEW q \in Requests, At(q, "commit")' PROVE store'[req'[q].new] = req'[q].tag
  <2>1. CASE q # r
    <3>1. store'[req[q].new] = store[req[q].new]
      BY <1>0, <1>2, <2>1, NewKept DEF At, NewPcs
    <3> QED BY <1>0, <1>2, <2>1, <3>1 DEF Tagged, At
  <2>2. CASE q = r
    BY <1>2, <2>2, KeysKnown, CustodyMoves
    DEF Rests, Bare, Makes, Proceeds, Publishes, Starts, ReadsRow, Strips, Repoints, FailsToSwitch, Restores,
        SameKeys, SameBodies, At, NewPcs
  <2> QED BY <2>1, <2>2
<1> QED BY <1>1, <1>2 DEF Tagged

(* Rotations of one key go on carrying the same bytes. *)
LEMMA LineageStep ==
  ASSUME IInv, "delete" \notin Ops, NoDelete, Private, Lineage, NEW r \in Requests, Acts(r)
  PROVE  Lineage'
<1>0. \A q \in Requests : q # r => req'[q] = req[q]
  BY StepKept, BeginKept DEF Acts, Kept
<1>1. ASSUME NEW q \in Requests, req'[q].pc \in Switching, ~(q = r /\ Makes(r))
      PROVE  /\ req[q].pc \in Switching /\ req'[q].new = req[q].new /\ req'[q].old = req[q].old
             /\ store'[req[q].new] = store[req[q].new] /\ store[req[q].new] # Gone
  <2>1. req[q].pc \in Switching /\ req'[q].new = req[q].new /\ req'[q].old = req[q].old
    BY <1>0, <1>1, CustodyMoves
    DEF Rests, Bare, Makes, Proceeds, Publishes, Starts, ReadsRow, Strips, Repoints, FailsToSwitch, Restores,
        SameKeys, Switching, At
  <2> QED BY <1>1, <2>1, NewKept DEF Lineage, Switching, NewPcs
<1>2. ASSUME NEW q \in Requests, req'[q].pc \in Switching, q = r, Makes(r)
      PROVE  /\ req'[q].new = FreshFinal /\ req'[q].old = req[q].old /\ SameBodies
             /\ req[q].old \in Drawn
             /\ store'[FreshFinal] = store[req[q].old] /\ store[req[q].old] # Gone
  BY <1>2, KeysKnown DEF Makes, Switching, OldPcs, At
<1>3. ASSUME NEW q \in Requests, req'[q].pc \in Switching
      PROVE  store'[req'[q].new] # Gone /\ store'[req'[q].old] \in {store'[req'[q].new], Gone}
  <2>1. CASE q = r /\ Makes(r)
    BY <1>2, <1>3, <2>1 DEF SameBodies
  <2>2. CASE ~(q = r /\ Makes(r))
    <3>1. /\ req[q].pc \in Switching /\ req'[q].new = req[q].new /\ req'[q].old = req[q].old
          /\ store'[req[q].new] = store[req[q].new] /\ store[req[q].new] # Gone
      BY <1>1, <1>3, <2>2
    <3>2. req[q].old \in Drawn /\ store[req[q].old] \in {store[req[q].new], Gone}
      BY <3>1, KeysKnown DEF Lineage, Switching, OldPcs
    <3>3. CASE Restores(r)
      <4>1. req[r].old = req[q].old => store[req[r].new] = store[req[q].new]
        BY <3>1, <3>3 DEF Restores, Lineage, Switching, At
      <4> QED BY <3>1, <3>2, <3>3, <4>1 DEF Restores, SameBodies
    <3>4. CASE ~Restores(r)
      <4>1. store'[req[q].old] \in {store[req[q].old], Gone}
        BY <3>2, <3>4, CustodyMoves
        DEF Rests, Makes, Proceeds, Publishes, Starts, ReadsRow, Strips, Repoints, FailsToSwitch, SameBodies
      <4> QED BY <3>1, <3>2, <4>1
    <3> QED BY <3>3, <3>4
  <2> QED BY <2>1, <2>2
<1>4. ASSUME NEW q \in Requests, NEW s \in Requests, req'[q].pc \in Switching, req'[s].pc \in Switching,
             req'[s].old = req'[q].old, ~(s = r /\ Makes(r))
      PROVE  store'[req'[q].new] = store'[req'[s].new]
  <2>0. /\ req[s].pc \in Switching /\ req'[s].new = req[s].new /\ req'[s].old = req[s].old
        /\ store'[req[s].new] = store[req[s].new] /\ store[req[s].old] \in {store[req[s].new], Gone}
    BY <1>1, <1>4 DEF Lineage
  <2>1. CASE q = r /\ Makes(r)
    BY <1>2, <1>4, <2>0, <2>1
  <2>2. CASE ~(q = r /\ Makes(r))
    <3>1. /\ req[q].pc \in Switching /\ req'[q].new = req[q].new /\ req'[q].old = req[q].old
          /\ store'[req[q].new] = store[req[q].new]
      BY <1>1, <1>4, <2>2
    <3> QED BY <1>4, <2>0, <3>1 DEF Lineage
  <2> QED BY <2>1, <2>2
<1> QED BY <1>3, <1>4 DEF Lineage

(* What else a step changes: who deletes a key, who may delete it later, and *)
(* the etag of a row.                                                        *)
LEMMA ThreatsBack ==
  ASSUME IInv, "delete" \notin Ops, NoDelete, NEW r \in Requests, Acts(r), NEW p \in Drawn
  PROVE  /\ Doomed(p)' => Doomed(p) \/ (Publishes(r) /\ objPhys[req[r].x] = p)
         /\ Spent(p)' => Spent(p) \/ (Makes(r) /\ At(r, "rotatecopy") /\ req[r].old = p)
         /\ Loose(p)' => Loose(p) \/ (FailsToSwitch(r) /\ req[r].new = p)
<1>0. \A q \in Requests : q # r => req'[q] = req[q]
  BY StepKept, BeginKept DEF Acts, Kept
<1>1. ASSUME NEW q \in Requests, req'[q].pc \in {"delstaging", "delold"}, req'[q].old = p
      PROVE  Doomed(p) \/ (Publishes(r) /\ objPhys[req[r].x] = p)
  BY <1>0, <1>1, CustodyMoves
  DEF Doomed, Rests, Bare, Makes, Proceeds, Publishes, Starts, ReadsRow, Strips, Repoints, FailsToSwitch, Restores,
      SameKeys, At
<1>2. ASSUME NEW q \in Requests, At(q, "rotatedelete")', req'[q].old = p
      PROVE  Spent(p) \/ (Makes(r) /\ At(r, "rotatecopy") /\ req[r].old = p)
  BY <1>0, <1>2, CustodyMoves
  DEF Spent, Rests, Bare, Makes, Proceeds, Publishes, Starts, ReadsRow, Strips, Repoints, FailsToSwitch, Restores,
      SameKeys, At
<1>3. ASSUME NEW q \in Requests, req'[q].pc \in {"verify", "commit", "undo", "restore", "unrotate"},
             req'[q].new = p
      PROVE  Loose(p) \/ (FailsToSwitch(r) /\ req[r].new = p)
  BY <1>0, <1>3, FreshKey, CustodyMoves
  DEF Loose, Rests, Bare, Makes, Proceeds, Publishes, Starts, ReadsRow, Strips, Repoints, FailsToSwitch, Restores,
      SameKeys, At
<1> QED BY <1>1, <1>2, <1>3 DEF Doomed, Spent, Loose

LEMMA EtagKept ==
  ASSUME IInv, "delete" \notin Ops, NoDelete, NEW r \in Requests, Acts(r), NEW x \in Slots,
         ~(Publishes(r) /\ req[r].x = x)
  PROVE  objTag'[x] = objTag[x]
BY KeysKnown, CustodyMoves
DEF Rests, Makes, Proceeds, Publishes, Starts, ReadsRow, Strips, Repoints, FailsToSwitch, Restores, SameRows

(* An anchor stays one, except where its rotation copies it, gives it up or  *)
(* a commit replaces the row.                                                *)
LEMMA AnchorStays ==
  ASSUME IInv, "delete" \notin Ops, Custody, NEW r \in Requests, Acts(r),
         NEW x \in Slots, objPhys[x] # NoKey, NEW p \in Drawn, Holds(x, p),
         ~(Publishes(r) /\ req[r].x = x),
         ~(Makes(r) /\ At(r, "rotatecopy") /\ req[r].old = p),
         ~(FailsToSwitch(r) /\ req[r].new = p)
  PROVE  Holds(x, p)'
<1>0. (\A q \in Requests : q # r => req'[q] = req[q]) /\ NoDelete /\ p # FreshFinal /\ p # NoKey
  BY StepKept, BeginKept, KeysKnown, FreshKey DEF Acts, Kept, Custody
<1>1. objTag'[x] = objTag[x]
  BY <1>0, EtagKept
<1>2. store'[p] = store[p]
  <2>1. store[p] # Gone
    BY NamesAssumption DEF Holds, Custody, Tagged
  <2>2. CASE Rests(r)
    BY <1>0, <2>2 DEF Rests, Holds, Loose, Doomed, At
  <2>3. CASE Strips(r)
    BY <1>0, <2>3 DEF Strips, Holds, Spent
  <2>4. CASE Restores(r)
    <3>1. store[req[r].old] \in {store[req[r].new], Gone}
      BY <2>4 DEF Restores, Custody, Lineage, Switching, At
    <3> QED BY <1>0, <2>1, <2>4, <3>1 DEF Restores, SameBodies
  <2> QED BY <1>0, <2>2, <2>3, <2>4, CustodyMoves
          DEF Makes, Proceeds, Publishes, Starts, ReadsRow, Repoints, FailsToSwitch, SameBodies
<1>3. ASSUME NEW y \in Slots, Refers(y, p)' PROVE y = x
  BY <1>0, <1>3, RefersBack DEF Holds
<1>4. ~Doomed(p)'
  <2>1. ASSUME Publishes(r), objPhys[req[r].x] = p PROVE FALSE
    <3>1. req[r].x \in Slots /\ Refers(req[r].x, p)
      BY <2>1, KeysKnown DEF Publishes, Refers, At
    <3> QED BY <2>1, <3>1 DEF Holds
  <2> QED BY <1>0, <2>1, ThreatsBack DEF Holds
<1>5. ~Spent(p)' /\ ~Loose(p)'
  BY <1>0, ThreatsBack DEF Holds
<1>6. ASSUME NEW s \in Requests, req'[s].pc \in {"rotatedelete", "rotaterow"}, req'[s].new = p,
             NEW o, o = req'[s].old, Doomed(o)'
      PROVE  FALSE
  <2>1. req[s].pc \in {"rotatedelete", "rotaterow"} /\ req[s].new = p /\ req[s].old = o
    BY <1>0, <1>6, CustodyMoves
    DEF Rests, Bare, Makes, Proceeds, Publishes, Starts, ReadsRow, Strips, Repoints, FailsToSwitch, Restores, SameKeys, At
  <2>2. o \in Drawn /\ HasOld(s, o) /\ HasNew(s, p) /\ req[s].x \in Slots
    BY <2>1, KeysKnown DEF HasOld, HasNew, OldPcs, NewPcs
  <2>3. ~Doomed(o)
    BY <2>1 DEF Holds
  <2>4. Publishes(r) /\ objPhys[req[r].x] = o
    BY <1>0, <1>6, <2>2, <2>3, ThreatsBack
  <2>5. req[r].x \in Slots /\ Refers(req[r].x, o) /\ Refers(req[s].x, o) /\ Refers(req[s].x, p)
    BY <2>2, <2>4, KeysKnown DEF Publishes, Refers, At
  <2>6. req[s].x = x /\ req[r].x = req[s].x
    BY <2>2, <2>5 DEF Holds, Custody, OneSlot
  <2> QED BY <2>4, <2>6
<1>7. store'[p] = objTag'[x]
  BY <1>1, <1>2 DEF Holds
<1> QED BY <1>3, <1>4, <1>5, <1>6, <1>7 DEF Holds

(* The key a commit switches the row to is an anchor. *)
LEMMA AnchorMade ==
  ASSUME IInv, "delete" \notin Ops, Custody, NEW r \in Requests, Acts(r), Publishes(r),
         NEW x \in Slots, req[r].x = x, NEW p, p = req[r].new
  PROVE  p \in Drawn /\ Holds(x, p)'
<1>0. /\ \A q \in Requests : q # r => req'[q] = req[q]
      /\ NoDelete /\ HasNew(r, p) /\ p \in Drawn /\ p # FreshFinal /\ p # NoKey
      /\ req[r].pc = "commit" /\ req'[r].pc = "delstaging" /\ ~Makes(r) /\ ~FailsToSwitch(r)
  BY StepKept, BeginKept, KeysKnown, FreshKey
  DEF Acts, Kept, Custody, Publishes, Makes, FailsToSwitch, HasNew, NewPcs, At
<1>1. /\ \A y \in Slots : objPhys[y] # p
      /\ \A q \in Requests : ~HasOld(q, p) /\ (HasNew(q, p) => q = r)
  BY <1>0 DEF Custody, Private, HasNew
<1>2. store'[p] = objTag'[x]
  BY <1>0, KeysKnown DEF Custody, Tagged, Publishes, SameBodies, At
<1>3. ASSUME NEW y \in Slots, Refers(y, p)' PROVE y = x
  <2>1. Refers(y, p) /\ Refers(x, p)
    BY <1>0, <1>3, RefersBack DEF Refers
  <2> QED BY <1>0, <2>1 DEF Custody, OneSlot
<1>4. ~Doomed(p) /\ ~Spent(p) /\ ~Doomed(p)' /\ ~Spent(p)'
  BY <1>0, <1>1, ThreatsBack DEF Doomed, Spent, HasOld, OldPcs, At
<1>5. ~Loose(p)'
  BY <1>0, <1>1 DEF Loose, HasNew, NewPcs
<1>6. \A s \in Requests : ~(req'[s].pc \in {"rotatedelete", "rotaterow"} /\ req'[s].new = p)
  BY <1>0, <1>1 DEF HasNew, NewPcs
<1> QED BY <1>0, <1>2, <1>3, <1>4, <1>5, <1>6 DEF Holds

(* The copy of a key that holds the slot's bytes is an anchor. *)
LEMMA AnchorCopied ==
  ASSUME IInv, "delete" \notin Ops, Custody, NEW r \in Requests, Acts(r), Makes(r), At(r, "rotatecopy"),
         NEW x \in Slots, req[r].x = x, store[req[r].old] = objTag[x],
         NEW o, o = req[r].old, ~Doomed(o), NEW p, p = FreshFinal
  PROVE  p \in Drawn' /\ Holds(x, p)'
<1>0. /\ \A q \in Requests : q # r => req'[q] = req[q]
      /\ NoDelete /\ p \notin Drawn /\ p \in Drawn' /\ p # NoKey /\ o \in Drawn
      /\ req'[r].pc = "rotatedelete" /\ req'[r].old = o /\ ~Publishes(r)
      /\ store'[p] = store[o] /\ SameRows
  BY StepKept, BeginKept, KeysKnown, FreshKey
  DEF Acts, Kept, Custody, Publishes, Makes, OldPcs, At
<1>1. \A q \in Requests : ~HasOld(q, p) /\ ~HasNew(q, p)
  BY <1>0, KeysKnown DEF HasOld, HasNew
<1>2. ASSUME NEW y \in Slots, Refers(y, p)' PROVE y = x
  <2>1. ~Refers(y, p)
    BY <1>0, <1>1, KeysKnown DEF Refers
  <2> QED BY <1>0, <1>2, <2>1, RefersBack
<1>3. ~Doomed(p)' /\ ~Loose(p)'
  BY <1>0, <1>1 DEF Doomed, Loose, HasOld, HasNew, OldPcs, NewPcs
<1>4. ~Spent(p)'
  BY <1>0, <1>1 DEF Spent, HasOld, OldPcs, At
<1>5. ~Doomed(o)'
  BY <1>0, ThreatsBack
<1>6. \A s \in Requests : req'[s].pc \in {"rotatedelete", "rotaterow"} /\ req'[s].new = p => req'[s].old = o
  BY <1>0, <1>1 DEF HasNew, NewPcs
<1>7. store'[p] = objTag'[x]
  BY <1>0 DEF SameRows
<1> QED BY <1>0, <1>2, <1>3, <1>4, <1>5, <1>6, <1>7 DEF Holds

(* The rotation that fails to switch gives its anchor up: either another     *)
(* rotation has its own copy, or this one copies the bytes back.             *)
LEMMA AnchorGivenUp ==
  ASSUME IInv, "delete" \notin Ops, MaxFaults <= 1, Custody, NEW r \in Requests, Acts(r), FailsToSwitch(r),
         NEW x \in Slots, objPhys[x] # NoKey, NEW p \in Drawn, Holds(x, p), req[r].new = p
  PROVE  (\E n \in Drawn : Holds(x, n)') \/ Returns(x, r)'
<1>o. PICK o : o = req[r].old
  OBVIOUS
<1>0. /\ \A q \in Requests : q # r => req'[q] = req[q]
      /\ NoDelete /\ o \in Drawn /\ req[r].pc = "rotaterow" /\ req'[r].pc = "restore"
      /\ SameRows /\ SameBodies /\ SameKeys(r) /\ ~Publishes(r) /\ ~Makes(r)
      /\ HasOld(r, o) /\ HasNew(r, p) /\ req[r].x \in Slots
  BY <1>o, StepKept, BeginKept, KeysKnown
  DEF Acts, Kept, Custody, Publishes, Makes, FailsToSwitch, HasOld, HasNew, OldPcs, NewPcs, At
<1>1. Refers(req[r].x, p) /\ Refers(req[r].x, o) /\ req[r].x = x
  BY <1>o, <1>0 DEF Refers, Holds
<1>2. ~Doomed(o)
  BY <1>o, <1>0 DEF Holds
<1>3. ~Doomed(o)'
  BY <1>o, <1>0, <1>2, ThreatsBack
<1>4. CASE \E s \in Requests : At(s, "rotatedelete") /\ req[s].old = o
  <2>1. PICK s \in Requests : At(s, "rotatedelete") /\ req[s].old = o
    BY <1>4
  <2>2. PICK n : n = req[s].new
    OBVIOUS
  <2>3. /\ n \in Drawn /\ HasNew(s, n) /\ HasOld(s, o) /\ req[s].x \in Slots /\ s # r
        /\ n # FreshFinal /\ n # NoKey
    BY <1>o, <1>0, <2>1, <2>2, KeysKnown, FreshKey DEF HasNew, HasOld, NewPcs, OldPcs, At
  <2>4. /\ \A q \in Requests : ~HasOld(q, n) /\ (HasNew(q, n) => q = s)
    BY <2>2, <2>3 DEF Custody, Private, HasNew
  <2>5. req[s].x = x /\ Refers(x, n)
    <3>1. Refers(req[s].x, o) /\ Refers(req[s].x, n)
      BY <2>3 DEF Refers
    <3> QED BY <1>o, <1>0, <1>1, <2>3, <3>1 DEF Custody, OneSlot
  <2>6. store[n] = store[p]
    BY <1>o, <1>0, <2>1, <2>2 DEF Custody, Lineage, Switching, At
  <2>7. store'[n] = objTag'[x]
    BY <1>o, <1>0, <2>3, <2>6 DEF Holds, SameBodies, SameRows
  <2>8. ASSUME NEW y \in Slots, Refers(y, n)' PROVE y = x
    <3>1. Refers(y, n)
      BY <1>o, <1>0, <2>3, <2>8, RefersBack
    <3> QED BY <2>3, <2>5, <3>1 DEF Custody, OneSlot
  <2>9. ~Doomed(n)' /\ ~Spent(n)'
    BY <1>o, <1>0, <2>4 DEF Doomed, Spent, HasOld, OldPcs, At
  <2>10. ~Loose(n)'
    BY <1>o, <1>0, <2>1, <2>3, <2>4 DEF Loose, HasNew, NewPcs, SameKeys, At
  <2>11. \A q \in Requests : req'[q].pc \in {"rotatedelete", "rotaterow"} /\ req'[q].new = n => req'[q].old = o
    BY <1>o, <1>0, <2>1, <2>3, <2>4 DEF HasNew, NewPcs
  <2>12. Holds(x, n)'
    BY <1>3, <2>7, <2>8, <2>9, <2>10, <2>11 DEF Holds
  <2> QED BY <2>3, <2>12
<1>5. CASE ~\E s \in Requests : At(s, "rotatedelete") /\ req[s].old = o
  <2>1. ~Spent(o)'
    BY <1>o, <1>0, <1>5 DEF Spent, At
  <2>2. At(r, "restore")' /\ req'[r].x = x /\ req'[r].new = p /\ req'[r].old = o
    BY <1>o, <1>0, <1>1 DEF SameKeys, At
  <2>3. faults' = MaxFaults
    BY BoundsInt DEF FailsToSwitch, Fault, IInv, TypeOK
  <2>4. store'[p] = objTag'[x]
    BY <1>o, <1>0 DEF Holds, SameBodies, SameRows
  <2> QED BY <1>3, <2>1, <2>2, <2>3, <2>4 DEF Returns
<1> QED BY <1>4, <1>5

(* The rotation that copies back goes on to, or others have what it has. *)
LEMMA AnchorReturns ==
  ASSUME IInv, "delete" \notin Ops, Custody, NEW r \in Requests, Acts(r), Fault \/ NoFault,
         NEW x \in Slots, objPhys[x] # NoKey, NEW a \in Requests, Returns(x, a),
         ~(Publishes(r) /\ req[r].x = x)
  PROVE  (\E n \in Drawn' : Holds(x, n)') \/ Returns(x, a)'
<1>o. PICK o : o = req[a].old
  OBVIOUS
<1>a. /\ \A q \in Requests : q # r => req'[q] = req[q]
      /\ NoDelete /\ req[a].pc = "restore" /\ req[a].x = x /\ HasOld(a, o) /\ o \in Drawn
      /\ ~Doomed(o) /\ ~Spent(o) /\ store[req[a].new] = objTag[x]
  BY <1>o, StepKept, BeginKept, KeysKnown DEF Acts, Kept, Custody, Returns, HasOld, OldPcs, At
<1>b. objTag'[x] = objTag[x] /\ objTag[x] # Gone
  BY <1>a, EtagKept, NamesAssumption DEF Custody, Tagged
<1>c. ~Fault /\ faults' = MaxFaults
  BY BoundsInt DEF Returns, Fault, NoFault
<1>d. o # FreshFinal /\ o # NoKey /\ finals' \in {finals, finals + 1}
  BY <1>a, KeysKnown, FreshKey, FinalsStep
<1>0. /\ \A q \in Requests : q # r => req'[q] = req[q]
      /\ NoDelete /\ o \in Drawn /\ HasOld(a, o) /\ Refers(x, o) /\ req[a].pc = "restore"
      /\ objTag'[x] = objTag[x] /\ store[req[a].new] = objTag[x] /\ objTag[x] # Gone
      /\ ~Fault /\ faults' = MaxFaults /\ o # FreshFinal /\ o # NoKey
      /\ finals' \in {finals, finals + 1}
      /\ ~Doomed(o) /\ ~Spent(o)
  BY <1>a, <1>b, <1>c, <1>d DEF Refers
<1>1. Drawn \subseteq Drawn'
  BY <1>o, <1>0, FreshKey
<1>2. store[o] \in {store[req[a].new], Gone}
  BY <1>o, <1>0 DEF Custody, Lineage, Switching
<1>3. \A y \in Slots : Refers(y, o) => y = x
  BY <1>o, <1>0 DEF Custody, OneSlot
<1>4. \A q \in Requests : ~HasNew(q, o)
  BY <1>o, <1>0 DEF Custody, Private, HasNew
<1>5. ~(Publishes(r) /\ objPhys[req[r].x] = o)
  <2> SUFFICES ASSUME Publishes(r), objPhys[req[r].x] = o PROVE FALSE
    OBVIOUS
  <2>1. req[r].x \in Slots /\ Refers(req[r].x, o)
    BY KeysKnown DEF Publishes, Refers, At
  <2> QED BY <1>3, <2>1
<1>6. ~Doomed(o)'
  BY <1>o, <1>0, <1>5, ThreatsBack
<1>7. CASE a = r
  <2>1. /\ req'[r].pc = "unrotate" /\ SameKeys(r) /\ store'[o] = objTag[x] /\ ~Makes(r)
    BY <1>o, <1>0, <1>7, CustodyMoves
    DEF Rests, Leaves, Bare, Makes, Proceeds, Publishes, Starts, ReadsRow, Strips, Repoints, FailsToSwitch, Restores, At
  <2>2. store'[o] = objTag'[x]
    BY <1>o, <1>0, <2>1
  <2>3. ASSUME NEW y \in Slots, Refers(y, o)' PROVE y = x
    BY <1>o, <1>0, <1>3, <2>1, <2>3, RefersBack
  <2>4. ~Spent(o)'
    BY <1>o, <1>0, <2>1, ThreatsBack
  <2>5. \A q \in Requests : ~(req'[q].pc \in NewPcs /\ req'[q].new = o)
    BY <1>o, <1>0, <1>4, <1>7, <2>1 DEF HasNew, SameKeys, NewPcs
  <2>6. ~Loose(o)'
    BY <2>5 DEF Loose, NewPcs
  <2>7. \A s \in Requests : ~(req'[s].pc \in {"rotatedelete", "rotaterow"} /\ req'[s].new = o)
    BY <2>5 DEF NewPcs
  <2>8. Holds(x, o)'
    BY <1>6, <2>2, <2>3, <2>4, <2>6, <2>7 DEF Holds
  <2> QED BY <1>o, <1>0, <1>1, <2>8
<1>8. CASE a # r /\ Makes(r) /\ At(r, "rotatecopy") /\ req[r].old = o
  <2>1. HasOld(r, o) /\ req[r].x \in Slots
    BY <1>8, KeysKnown DEF HasOld, OldPcs, At
  <2>2. req[r].x = x
    BY <1>3, <2>1 DEF Refers
  <2>3. store[o] = objTag[x]
    BY <1>o, <1>0, <1>2, <1>8 DEF Makes, At
  <2>4. PICK p : p = FreshFinal
    OBVIOUS
  <2>5. p \in Drawn' /\ Holds(x, p)'
    BY <1>o, <1>0, <1>8, <2>2, <2>3, <2>4, AnchorCopied
  <2> QED BY <2>5
<1>9. CASE a # r /\ ~(Makes(r) /\ At(r, "rotatecopy") /\ req[r].old = o)
  <2>1. req'[a] = req[a]
    BY <1>o, <1>0, <1>9
  <2>2. store'[req[a].new] = store[req[a].new]
    BY <1>o, <1>0, <2>1, NewKept DEF Custody, NewPcs
  <2>3. ~Spent(o)'
    BY <1>o, <1>0, <1>9, ThreatsBack
  <2> QED BY <1>o, <1>0, <1>6, <2>1, <2>2, <2>3 DEF Returns, At
<1> QED BY <1>7, <1>8, <1>9

LEMMA AnchoredStep ==
  ASSUME IInv, "delete" \notin Ops, MaxFaults <= 1, Custody, NEW r \in Requests, Acts(r)
  PROVE  Anchored'
<1> SUFFICES ASSUME NEW x \in Slots, objPhys'[x] # NoKey
             PROVE  (\E p \in Drawn' : Holds(x, p)') \/ (\E a \in Requests : Returns(x, a)')
  BY DEF Anchored
<1>1. Drawn \subseteq Drawn'
  BY FreshKey, FinalsStep
<1>2. CASE Publishes(r) /\ req[r].x = x
  <2>1. PICK p : p = req[r].new
    OBVIOUS
  <2>2. p \in Drawn /\ Holds(x, p)'
    BY <1>2, <2>1, AnchorMade
  <2> QED BY <1>1, <2>2
<1>3. CASE ~(Publishes(r) /\ req[r].x = x)
  <2>1. objPhys[x] # NoKey
    BY <1>3, MappingStep DEF Custody
  <2>2. CASE \E p \in Drawn : Holds(x, p)
    <3>1. PICK p \in Drawn : Holds(x, p)
      BY <2>2
    <3>2. CASE Makes(r) /\ At(r, "rotatecopy") /\ req[r].old = p
      <4>1. req[r].x \in Slots /\ HasOld(r, p)
        BY <3>2, KeysKnown DEF HasOld, OldPcs, At
      <4>2. req[r].x = x /\ store[p] = objTag[x] /\ ~Doomed(p)
        BY <3>1, <4>1 DEF Holds, Refers
      <4>3. PICK f : f = FreshFinal
        OBVIOUS
      <4>4. f \in Drawn' /\ Holds(x, f)'
        BY <3>2, <4>2, <4>3, AnchorCopied
      <4> QED BY <4>4
    <3>3. CASE FailsToSwitch(r) /\ req[r].new = p
      BY <1>1, <2>1, <3>1, <3>3, AnchorGivenUp
    <3>4. CASE ~(Makes(r) /\ At(r, "rotatecopy") /\ req[r].old = p) /\ ~(FailsToSwitch(r) /\ req[r].new = p)
      <4>1. Holds(x, p)'
        BY <1>3, <2>1, <3>1, <3>4, AnchorStays
      <4> QED BY <1>1, <3>1, <4>1
    <3> QED BY <3>2, <3>3, <3>4
  <2>3. CASE \E a \in Requests : Returns(x, a)
    BY <1>3, <2>1, <2>3, FaultsCounted, AnchorReturns
  <2> QED BY <2>1, <2>2, <2>3 DEF Custody, Anchored
<1> QED BY <1>2, <1>3

(* A restart is the failure: no rotation was copying back, and none is left  *)
(* to delete anything.                                                       *)
LEMMA CustodyRestart == ASSUME IInv, Custody, Restart PROVE Custody'
<1>1. /\ \A q \in Requests : req'[q].pc = "idle"
      /\ UNCHANGED <<objPhys, objTag, store, finals>> /\ ~(faults = MaxFaults)
  BY BoundsInt DEF Restart, Idle, ProviderOnly, StoreAlone, rowVars, Fault
<1>2. Drawn' = Drawn
  BY <1>1 DEF Drawn
<1>3. NoDelete' /\ Mapping' /\ Private' /\ Lineage'
  BY <1>1 DEF NoDelete, Mapping, Rotating, Private, NewPcs, Lineage, Switching
<1>4. \A x \in Slots : \A p : Refers(x, p)' => Refers(x, p)
  BY <1>1 DEF Refers, HasNew, HasOld, NewPcs, OldPcs
<1>5. OneSlot'
  BY <1>2, <1>4 DEF Custody, OneSlot
<1>6. Tagged'
  BY <1>1 DEF Custody, Tagged, At
<1>7. ASSUME NEW x \in Slots, objPhys'[x] # NoKey PROVE \E p \in Drawn' : Holds(x, p)'
  <2>1. PICK p \in Drawn : Holds(x, p)
    BY <1>1, <1>7 DEF Custody, Anchored, Returns
  <2>2. ~Doomed(p)' /\ ~Spent(p)' /\ ~Loose(p)'
    BY <1>1 DEF Doomed, Spent, Loose, At
  <2>3. \A y \in Slots : Refers(y, p)' => y = x
    BY <1>4, <2>1 DEF Holds
  <2>4. store'[p] = objTag'[x]
    BY <1>1, <2>1 DEF Holds
  <2>5. \A s \in Requests : req'[s].pc \notin {"rotatedelete", "rotaterow"}
    BY <1>1
  <2>6. Holds(x, p)'
    BY <2>2, <2>3, <2>4, <2>5 DEF Holds
  <2> QED BY <1>2, <2>6
<1> QED BY <1>3, <1>5, <1>6, <1>7 DEF Custody, Anchored

(* Bodies that arrive reach staging keys only. *)
LEMMA PutReachesStaging ==
  ASSUME IInv, NEW u \in Ids, NEW v, Put(u, v) PROVE \A p \in Drawn : store'[p] = store[p]
<1>1. Staging(u) \notin Drawn /\ Drawn \subseteq PhysKeys /\ store \in [PhysKeys -> Payloads \cup {Partial, Gone}]
  BY KeyFacts, KeysKnown DEF Drawn
<1> QED BY <1>1 DEF Put

(* What leaves handlers, rows and final keys alone leaves custody alone. *)
LEMMA CustodyStill ==
  ASSUME IInv, Custody, UNCHANGED <<objPhys, objTag, finals, faults, req>>,
         \A p \in Drawn : store'[p] = store[p]
  PROVE  Custody'
<1>1. Drawn' = Drawn
  BY DEF Drawn
<1>2. NoDelete' /\ Mapping' /\ Private'
  BY DEF Custody, NoDelete, Mapping, Private, HasOld, HasNew
<1>3. \A x \in Slots : \A p : Refers(x, p)' <=> Refers(x, p)
  BY DEF Refers, HasNew, HasOld
<1>4. OneSlot'
  BY <1>1, <1>3 DEF Custody, OneSlot
<1>5. Lineage'
  <2>1. \A q \in Requests : req[q].pc \in Switching => req[q].new \in Drawn /\ req[q].old \in Drawn
    BY KeysKnown DEF Switching, NewPcs, OldPcs
  <2> QED BY <2>1 DEF Custody, Lineage
<1>6. Tagged'
  <2>1. \A q \in Requests : At(q, "commit") => req[q].new \in Drawn
    BY KeysKnown DEF NewPcs, At
  <2> QED BY <2>1 DEF Custody, Tagged, At
<1>7. \A p : (Doomed(p)' <=> Doomed(p)) /\ (Spent(p)' <=> Spent(p)) /\ (Loose(p)' <=> Loose(p))
  BY DEF Doomed, Spent, Loose, At
<1>8. ASSUME NEW x \in Slots, NEW p \in Drawn, Holds(x, p) PROVE Holds(x, p)'
  BY <1>3, <1>7, <1>8 DEF Holds
<1>9. ASSUME NEW x \in Slots, NEW a \in Requests, Returns(x, a) PROVE Returns(x, a)'
  <2>1. req[a].new \in Drawn
    BY <1>9, KeysKnown DEF Returns, NewPcs, At
  <2> QED BY <1>7, <1>9, <2>1 DEF Returns, At
<1>10. Anchored'
  BY <1>1, <1>8, <1>9 DEF Custody, Anchored
<1> QED BY <1>2, <1>4, <1>5, <1>6, <1>10 DEF Custody

LEMMA CustodyInit == Init => Custody
<1> SUFFICES ASSUME Init PROVE Custody
  OBVIOUS
<1>1. /\ \A r \in Requests : req[r].pc = "idle"
      /\ \A x \in Slots : objPhys[x] = NoKey
      /\ Drawn = {}
  BY DEF Init, Idle, Drawn
<1> QED
  BY <1>1 DEF Custody, NoDelete, Mapping, Rotating, OneSlot, Private, NewPcs, Lineage, Switching, Tagged,
             Anchored, At

LEMMA CustodyStep ==
  ASSUME IInv, "delete" \notin Ops, MaxFaults <= 1, Custody, [Next]_vars
  PROVE  Custody'
<1>1. CASE CreateBucket \/ (\E u \in Ids : Expire(u)) \/ UNCHANGED vars
  BY <1>1, CustodyStill DEF CreateBucket, Expire, vars, rowVars
<1>2. CASE \E u \in Ids : \E v \in Payloads \cup {Partial} : Put(u, v)
  <2>1. PICK u \in Ids, v \in Payloads \cup {Partial} : Put(u, v)
    BY <1>2
  <2> QED BY <2>1, PutReachesStaging, CustodyStill DEF Put, rowVars
<1>3. CASE Restart
  BY <1>3, CustodyRestart
<1>4. ASSUME NEW r \in Requests, Acts(r) PROVE Custody'
  BY <1>4, MappingStep, OneSlotStep, PrivateStep, LineageStep, TaggedStep, AnchoredStep DEF Custody
<1> QED BY <1>1, <1>2, <1>3, <1>4 DEF Next, Acts

(* Rotation loses no bytes: under any one failed call, disconnection or
   restart, with any number of rotations and uploads racing on a key and the
   restore path of one against the others, some final key still holds the
   body each object row records.  Clients that delete remove bodies on
   purpose, and two failures can lose one: the switch fails and so does the
   copy back. *)
THEOREM BytesAlwaysSurvive ==
  ASSUME "delete" \notin Ops, MaxFaults <= 1 PROVE Spec => []BytesSurvive
<1> DEFINE Inv == IInv /\ Custody
<1>1. Init => Inv
  BY IInvInit, CustodyInit
<1>2. Inv /\ [Next]_vars => Inv'
  BY IInvStep, CustodyStep
<1>3. Inv => BytesSurvive
  <2> SUFFICES ASSUME Inv, NEW x \in Slots, objPhys[x] # NoKey
               PROVE  \E n \in 1..MaxFinals : store[Final(n)] = objTag[x]
    BY DEF BytesSurvive
  <2>1. PICK p \in Drawn : store[p] = objTag[x]
    <3>1. CASE \E p \in Drawn : Holds(x, p)
      BY <3>1 DEF Holds
    <3>2. CASE \E r \in Requests : Returns(x, r)
      BY <3>2, KeysKnown DEF Returns, NewPcs, At
    <3> QED BY <3>1, <3>2 DEF Custody, Anchored
  <2>2. PICK n \in 1..finals : p = Final(n)
    BY DEF Drawn
  <2>3. n \in 1..MaxFinals
    BY BoundsInt DEF IInv, TypeOK
  <2> QED BY <2>1, <2>2, <2>3
<1> QED BY <1>1, <1>2, <1>3, PTL DEF Spec

-----------------------------------------------------------------------------
(* One request at a time: what rotations do where nothing races them.       *)

TakeTurns == \A q, r \in Requests : q = r

Editing == {"rotatecopy", "rotatedelete", "rotaterow", "restore", "delete", "deleterow"}

(* Rows map to different keys, and none to the new key of the handler. *)
Distinct == \A x, y \in Slots : objPhys[x] # NoKey /\ objPhys[x] = objPhys[y] => x = y
Unmapped ==
  \A r \in Requests : req[r].pc \in NewPcs =>
    (\A x \in Slots : objPhys[x] # req[r].new) /\ ~HasOld(r, req[r].new)

(* What the handler has read of the row is what the row says. *)
Current ==
  \A r \in Requests : req[r].pc \in Editing =>
    objPhys[req[r].x] = req[r].old /\ objId[req[r].x] = req[r].id

(* What the handler has copied or verified, and what it has deleted. *)
Transferred ==
  \A r \in Requests : /\ At(r, "commit") => store[req[r].new] = req[r].tag
                      /\ req[r].pc \in Switching => store[req[r].new] = objTag[req[r].x]
                      /\ req[r].pc \in {"rotaterow", "deleterow"} => store[req[r].old] = Gone

Unraced == Distinct /\ Unmapped /\ Current /\ Transferred /\ MappedIntact

(* What the handler of a step remembers afterwards. *)
LEMMA UnracedStep ==
  ASSUME IInv, TakeTurns, Unraced, NEW r \in Requests, Acts(r)
  PROVE  Unraced'
<1>0. /\ \A q \in Requests : q = r
      /\ objId \in [Slots -> Ids \cup {0}]
      /\ ~At(r, "idle") => req[r].x \in Slots
      /\ req[r].pc \in NewPcs => req[r].new \in Drawn
      /\ req[r].pc \in Editing => req[r].old \in Drawn
      /\ FreshFinal \notin Drawn /\ FreshFinal # NoKey
      /\ \A x \in Slots : objPhys[x] \in Drawn \cup {NoKey}
      /\ objPhys \in [Slots -> PhysKeys \cup {NoKey}] /\ objTag \in [Slots -> Payloads \cup {Gone}]
      /\ NoKey \notin Drawn
      /\ HasOld(r, FreshFinal) => FALSE
  BY KeysKnown, FreshKey DEF TakeTurns, IInv, TypeOK, Local, Editing, OldPcs, HasOld, At
<1>1. ASSUME SameRows,
             \A x \in Slots : objPhys[x] # NoKey /\ store'[objPhys[x]] # Gone =>
               store'[objPhys[x]] = objTag[x]
      PROVE  Distinct' /\ MappedIntact'
  BY <1>1 DEF Unraced, Distinct, MappedIntact, Body, SameRows
<1>2. ASSUME SameBodies PROVE \A x \in Slots : objPhys[x] # NoKey => store'[objPhys[x]] = store[objPhys[x]]
  BY <1>0, <1>2 DEF SameBodies
<1>3. \A x \in Slots : objPhys[x] # NoKey /\ store[objPhys[x]] # Gone => store[objPhys[x]] = objTag[x]
  BY DEF Unraced, MappedIntact, Body
<1>4. ASSUME req'[r].pc \in Bare PROVE Unmapped' /\ Current' /\ Transferred'
  BY <1>0, <1>4 DEF Unmapped, Current, Transferred, Bare, NewPcs, Editing, Switching, At
<1>5. CASE Rests(r)
  <2>1. Distinct' /\ MappedIntact'
    BY <1>0, <1>1, <1>3, <1>5 DEF Rests
  <2> QED BY <1>4, <1>5, <2>1 DEF Rests, Unraced
<1>6. CASE Makes(r)
  <2>1. Distinct' /\ MappedIntact'
    BY <1>1, <1>2, <1>3, <1>6 DEF Makes
  <2>2. /\ req'[r].new = FreshFinal /\ req'[r].x = req[r].x /\ req'[r].id = req[r].id
        /\ req'[r].old = req[r].old /\ SameRows /\ req[r].x \in Slots
    BY <1>0, <1>6 DEF Makes, At
  <2>3. CASE At(r, "copy") /\ At(r, "verify")'
    BY <1>0, <2>1, <2>2, <2>3 DEF Unraced, Unmapped, Current, Transferred, HasOld, OldPcs, Editing, Switching,
                                  SameRows, At
  <2>4. CASE /\ At(r, "rotatecopy") /\ At(r, "rotatedelete")'
             /\ store[req[r].old] # Gone /\ store'[FreshFinal] = store[req[r].old]
    <3>1. objPhys[req[r].x] = req[r].old /\ objId[req[r].x] = req[r].id
      BY <2>4 DEF Unraced, Current, Editing, At
    <3>2. store[req[r].old] = objTag[req[r].x] /\ req[r].old # FreshFinal
      BY <1>0, <1>3, <2>2, <2>4, <3>1 DEF Editing, At
    <3> QED BY <1>0, <2>1, <2>2, <2>4, <3>1, <3>2
            DEF Unraced, Unmapped, Current, Transferred, HasOld, OldPcs, Editing, Switching, SameRows, At
  <2> QED BY <1>6, <2>3, <2>4 DEF Makes
<1>7. CASE Proceeds(r) \/ FailsToSwitch(r)
  <2>1. SameRows /\ SameBodies /\ SameKeys(r)
    BY <1>7 DEF Proceeds, FailsToSwitch
  <2>2. Distinct' /\ MappedIntact'
    BY <1>1, <1>2, <1>3, <2>1
  <2>3. CASE Proceeds(r)
    BY <1>0, <2>1, <2>2, <2>3
    DEF Proceeds, SameKeys, SameRows, SameBodies, Unraced, Unmapped, Current, Transferred, HasOld, NewPcs, OldPcs,
        Editing, Switching, At
  <2>4. CASE FailsToSwitch(r)
    BY <1>0, <2>1, <2>2, <2>4
    DEF FailsToSwitch, SameKeys, SameRows, SameBodies, Unraced, Unmapped, Current, Transferred, HasOld, NewPcs,
        OldPcs, Editing, Switching, At
  <2> QED BY <1>7, <2>3, <2>4
<1>8. CASE Publishes(r)
  <2>1. /\ req[r].x \in Slots /\ req[r].new \in Drawn /\ store[req[r].new] = req[r].tag
        /\ \A x \in Slots : objPhys[x] # req[r].new
    BY <1>0, <1>8 DEF Publishes, Unraced, Unmapped, Transferred, NewPcs, At
  <2>2. Distinct'
    BY <1>0, <1>8, <2>1 DEF Publishes, Unraced, Distinct
  <2>3. MappedIntact'
    <3>1. ASSUME NEW x \in Slots, objPhys'[x] # NoKey, store'[objPhys'[x]] # Gone
          PROVE  store'[objPhys'[x]] = objTag'[x]
      <4>1. CASE x = req[r].x
        BY <1>0, <1>8, <2>1, <4>1 DEF Publishes, SameBodies
      <4>2. CASE x # req[r].x
        BY <1>0, <1>2, <1>3, <1>8, <2>1, <3>1, <4>2 DEF Publishes
      <4> QED BY <4>1, <4>2
    <3> QED BY <3>1 DEF MappedIntact, Body
  <2>4. Unmapped' /\ Current' /\ Transferred'
    BY <1>0, <1>8 DEF Publishes, Unmapped, Current, Transferred, NewPcs, Editing, Switching, At
  <2> QED BY <2>2, <2>3, <2>4 DEF Unraced
<1>9. CASE ReadsRow(r) /\ req'[r].pc \in {"rotatecopy", "delete"}
  <2>1. Distinct' /\ MappedIntact'
    BY <1>1, <1>2, <1>3, <1>9 DEF ReadsRow
  <2>2. Unmapped' /\ Current' /\ Transferred'
    BY <1>0, <1>9 DEF ReadsRow, SameRows, Unmapped, Current, Transferred, NewPcs, Editing, Switching, At
  <2> QED BY <2>1, <2>2 DEF Unraced
<1>10. CASE Strips(r) \/ Erases(r)
  <2>1. SameRows /\ SameKeys(r) /\ store'[req[r].old] = Gone
        /\ \A p \in Drawn : p # req[r].old => store'[p] = store[p]
    BY <1>10 DEF Strips, Erases
  <2>2. Distinct' /\ MappedIntact'
    BY <1>0, <1>1, <1>3, <2>1
  <2>3. CASE Strips(r)
    <3>1. req[r].new # req[r].old /\ req[r].new \in Drawn
      BY <1>0, <2>3 DEF Strips, Unraced, Unmapped, HasOld, NewPcs, OldPcs, At
    <3> QED BY <1>0, <2>1, <2>2, <2>3, <3>1
            DEF Strips, SameKeys, SameRows, Unraced, Unmapped, Current, Transferred, HasOld, NewPcs, OldPcs, Editing,
                Switching, At
  <2>4. CASE Erases(r)
    BY <1>0, <2>1, <2>2, <2>4
    DEF Erases, SameKeys, SameRows, Unraced, Unmapped, Current, Transferred, NewPcs, Editing, Switching, At
  <2> QED BY <1>10, <2>3, <2>4
<1>11. CASE Repoints(r)
  <2>1. /\ req[r].x \in Slots /\ req[r].new \in Drawn /\ store[req[r].new] = objTag[req[r].x]
        /\ \A x \in Slots : objPhys[x] # req[r].new
    BY <1>0, <1>11 DEF Repoints, Unraced, Unmapped, Transferred, NewPcs, Switching, At
  <2>2. objPhys' = [objPhys EXCEPT ![req[r].x] = req[r].new]
    BY <1>11 DEF Repoints, Unraced, Current, Editing, At
  <2>3. Distinct'
    BY <1>0, <2>1, <2>2 DEF Unraced, Distinct
  <2>4. MappedIntact'
    <3>1. ASSUME NEW x \in Slots, objPhys'[x] # NoKey, store'[objPhys'[x]] # Gone
          PROVE  store'[objPhys'[x]] = objTag'[x]
      <4>1. CASE x = req[r].x
        BY <1>0, <1>11, <2>1, <2>2, <4>1 DEF Repoints, SameBodies
      <4>2. CASE x # req[r].x
        BY <1>0, <1>2, <1>3, <1>11, <2>1, <2>2, <3>1, <4>2 DEF Repoints
      <4> QED BY <4>1, <4>2
    <3> QED BY <3>1 DEF MappedIntact, Body
  <2>5. req'[r].pc \in Bare
    BY <1>11 DEF Repoints, Bare, At
  <2> QED BY <1>4, <2>3, <2>4, <2>5 DEF Unraced
<1>12. CASE Restores(r)
  <2>1. /\ req[r].x \in Slots /\ store[req[r].new] = objTag[req[r].x] /\ req[r].old = objPhys[req[r].x]
        /\ req[r].old \in Drawn
    BY <1>0, <1>12 DEF Restores, Unraced, Current, Transferred, Editing, Switching, At
  <2>2. \A x \in Slots : objPhys[x] # NoKey /\ store'[objPhys[x]] # Gone => store'[objPhys[x]] = objTag[x]
    <3>1. CASE SameBodies
      BY <1>2, <1>3, <3>1
    <3>2. CASE /\ store'[req[r].old] = store[req[r].new]
               /\ \A p \in Drawn : p # req[r].old => store'[p] = store[p]
      BY <1>0, <1>3, <2>1, <3>2 DEF Unraced, Distinct
    <3> QED BY <1>12, <3>1, <3>2 DEF Restores
  <2>3. Distinct' /\ MappedIntact'
    BY <1>1, <1>12, <2>2 DEF Restores
  <2>4. Unmapped' /\ Current' /\ Transferred'
    BY <1>0, <1>12
    DEF Restores, SameKeys, SameRows, Unraced, Unmapped, Current, Transferred, HasOld, NewPcs, OldPcs, Editing,
        Switching, At
  <2> QED BY <2>3, <2>4 DEF Unraced
<1>13. CASE Forgets(r)
  <2>1. req[r].x \in Slots
    BY <1>0, <1>13 DEF Forgets, At
  <2>2. \A x \in Slots : \/ objPhys'[x] = NoKey
                         \/ objPhys'[x] = objPhys[x] /\ objTag'[x] = objTag[x]
    BY <1>0, <1>13, <2>1 DEF Forgets, SameRows
  <2>3. Distinct'
    BY <2>2 DEF Unraced, Distinct
  <2>4. MappedIntact'
    <3>1. ASSUME NEW x \in Slots, objPhys'[x] # NoKey, store'[objPhys'[x]] # Gone
          PROVE  store'[objPhys'[x]] = objTag'[x]
      BY <1>2, <1>3, <1>13, <2>2, <3>1 DEF Forgets
    <3> QED BY <3>1 DEF MappedIntact, Body
  <2>5. req'[r].pc \in Bare
    BY <1>13 DEF Forgets, Bare, At
  <2> QED BY <1>4, <2>3, <2>4, <2>5 DEF Unraced
<1> QED BY <1>5, <1>6, <1>7, <1>8, <1>9, <1>10, <1>11, <1>12, <1>13, FinalMoves DEF Starts, Deletes, At

(* Bodies are only written under keys that are drawn, or with them. *)
Undrawn == \A n \in 1..MaxFinals : n > finals => store[Final(n)] = Gone

LEMMA UndrawnStep == ASSUME IInv, Undrawn, NEW r \in Requests, Acts(r) PROVE Undrawn'
<1>0. /\ store \in [PhysKeys -> Payloads \cup {Partial, Gone}] /\ finals \in Nat
      /\ \A n \in 1..MaxFinals : Final(n) \in PhysKeys
      /\ \A m, n \in Int : Final(m) = Final(n) => m = n
      /\ At(r, "restore") => req[r].old \in Drawn
  BY DrawnFacts, KeyFacts DEF IInv, TypeOK, Local, At
<1>1. CASE UNCHANGED finals /\ \A p \in PhysKeys : store'[p] \in {store[p], Gone}
  BY <1>0, <1>1 DEF Undrawn
<1>2. CASE \E from : CopyTo(from)
  BY <1>0, <1>2, BoundsInt DEF CopyTo, FreshFinal, Undrawn
<1>3. CASE At(r, "restore") /\ UNCHANGED finals /\ \E b : store' = [store EXCEPT ![req[r].old] = b]
  <2>1. PICK n \in 1..finals : req[r].old = Final(n)
    BY <1>0, <1>3 DEF Drawn
  <2> QED BY <1>0, <1>3, <2>1, BoundsInt DEF Undrawn
<1>4. ASSUME StoreAlone PROVE UNCHANGED finals /\ \A p \in PhysKeys : store'[p] \in {store[p], Gone}
  BY <1>4 DEF StoreAlone
<1>5. ASSUME NEW p, Unlink(p) PROVE \A q \in PhysKeys : store'[q] \in {store[q], Gone}
  BY <1>0, <1>5 DEF Unlink
<1>6. CASE StoreAlone
  BY <1>1, <1>4, <1>6
<1>7. CASE CommitCopy(r) \/ RotateCopy(r)
  BY <1>2, <1>6, <1>7 DEF CommitCopy, RotateCopy, CopyFails, StoreAlone
<1>8. CASE \/ \E u \in Ids : SweepDelete(r, u)
           \/ CommitUndo(r) \/ CommitDeleteStaging(r) \/ CommitDeleteOld(r) \/ DeletePhysical(r)
           \/ RotateDelete(r) \/ RotateUndo(r)
  <2>1. UNCHANGED finals /\ (UNCHANGED store \/ \E p : Unlink(p))
    BY <1>8 DEF SweepDelete, CommitUndo, CommitDeleteStaging, CommitDeleteOld, DeletePhysical, RotateDelete,
                RotateUndo, TryUnlink
  <2> QED BY <1>1, <1>5, <2>1
<1>9. CASE RotateRestore(r)
  <2>1. At(r, "restore") /\ UNCHANGED finals
        /\ (UNCHANGED store \/ \E b : store' = [store EXCEPT ![req[r].old] = b])
    BY <1>9 DEF RotateRestore
  <2> QED BY <1>1, <1>3, <2>1
<1> QED BY <1>6, <1>7, <1>8, <1>9
        DEF Acts, Step, Cut, BeginSweep, CommitGet, DeleteGet, RotateGet, ReadRow, SweepCancel, BeginReserve,
            BeginRefused, BeginGrant, CommitHead, CommitVerify, CommitRow, CommitRowFails, DeleteRow, RotateRow

(* Every body under a final key is mapped, or the handler knows the key. *)
Followed == \A p \in Drawn : store[p] # Gone => \E x \in Slots : Refers(x, p)

(* A copy that succeeds is the only step that draws a key. *)
LEMMA DrawnByMakes == ASSUME IInv, NEW r \in Requests, Acts(r), ~Fault PROVE Makes(r) \/ finals' = finals
<1>0. req[r] \in HandlerTypes /\ DOMAIN req = Requests
  BY DEF IInv, TypeOK, Local
<1>1. CASE CommitCopy(r) \/ RotateCopy(r)
  <2>1. CASE /\ At(r, "copy")
             /\ req' = [req EXCEPT ![r].pc = "verify", ![r].new = FreshFinal]
    <3>1. req'[r].pc = "verify"
      BY <1>0, <2>1 DEF HandlerTypes
    <3> QED BY <2>1, <3>1, FinalMoves
            DEF Rests, Bare, Makes, Proceeds, Publishes, Starts, ReadsRow, Strips, Repoints, FailsToSwitch, Restores,
                Deletes, Erases, Forgets, At
  <2>2. CASE /\ At(r, "rotatecopy")
             /\ req' = [req EXCEPT ![r].pc = "rotatedelete", ![r].new = FreshFinal]
    <3>1. req'[r].pc = "rotatedelete"
      BY <1>0, <2>2 DEF HandlerTypes
    <3> QED BY <2>2, <3>1, FinalMoves
            DEF Rests, Bare, Makes, Proceeds, Publishes, Starts, ReadsRow, Strips, Repoints, FailsToSwitch, Restores,
                Deletes, Erases, Forgets, At
  <2> QED BY <1>1, <2>1, <2>2 DEF CommitCopy, RotateCopy, CopyFails, StoreAlone
<1>2. CASE ~(CommitCopy(r) \/ RotateCopy(r))
  BY <1>2
  DEF Acts, Step, Cut, BeginSweep, CommitGet, DeleteGet, RotateGet, ReadRow, SweepDelete, SweepCancel,
      BeginReserve, BeginRefused, BeginGrant, CommitHead, CommitVerify, CommitRow, CommitRowFails, CommitUndo,
      CommitDeleteStaging, CommitDeleteOld, DeletePhysical, DeleteRow, RotateDelete, RotateRow, RotateRestore,
      RotateUndo, StoreAlone, TryUnlink
<1> QED BY <1>1, <1>2

LEMMA FollowedStep ==
  ASSUME IInv, TakeTurns, Unraced, Followed, NEW r \in Requests, Acts(r), ~Fault
  PROVE  Followed'
<1>0. /\ \A q \in Requests : q = r
      /\ ~At(r, "idle") => req[r].x \in Slots
      /\ req[r].pc \in NewPcs => req[r].new \in Drawn
      /\ req[r].pc \in OldPcs => req[r].old \in Drawn \cup {NoKey}
      /\ FreshFinal \notin Drawn /\ NoKey \notin Drawn
      /\ objPhys \in [Slots -> PhysKeys \cup {NoKey}]
      /\ finals' = finals + 1 => Drawn' = Drawn \cup {FreshFinal}
      /\ finals' = finals => Drawn' = Drawn
      /\ finals' \in {finals, finals + 1}
  BY KeysKnown, FreshKey, FinalsStep DEF TakeTurns
<1>1. CASE Makes(r)
  <2>1. /\ req[r].x \in Slots /\ req'[r].x = req[r].x /\ req'[r].new = FreshFinal /\ req'[r].pc \in NewPcs
        /\ UNCHANGED objPhys /\ SameBodies /\ Drawn' = Drawn \cup {FreshFinal}
    BY <1>0, <1>1 DEF Makes, SameRows, NewPcs, At
  <2>2. ASSUME NEW p, p = FreshFinal PROVE \E x \in Slots : Refers(x, p)'
    BY <2>1, <2>2 DEF Refers, HasNew
  <2>3. ASSUME NEW p \in Drawn, store'[p] # Gone PROVE \E x \in Slots : Refers(x, p)'
    <3>1. PICK x \in Slots : Refers(x, p)
      BY <2>1, <2>3 DEF SameBodies, Followed
    <3>2. objPhys[x] = p
      BY <1>0, <1>1, <3>1 DEF Refers, HasNew, HasOld, NewPcs, OldPcs, Makes, Unraced, Current, Editing, At
    <3> QED BY <2>1, <3>2 DEF Refers
  <2> QED BY <2>1, <2>2, <2>3 DEF Followed
<1>2. CASE ~Makes(r)
  <2>1. SUFFICES ASSUME NEW p \in Drawn', store'[p] # Gone PROVE \E x \in Slots : Refers(x, p)'
    BY DEF Followed
  <2>2. CASE p \in Drawn /\ store[p] # Gone
    <3>1. PICK x \in Slots : Refers(x, p)
      BY <2>2 DEF Followed
    <3>2. CASE objPhys[x] = p
      <4>1. CASE UNCHANGED objPhys
        BY <3>2, <4>1 DEF Refers
      <4>2. CASE Publishes(r)
        BY <1>0, <3>2, <4>2 DEF Publishes, Refers, HasOld, OldPcs, At
      <4>3. CASE Repoints(r)
        BY <1>0, <2>1, <2>2, <3>2, <4>3
        DEF Repoints, SameBodies, Unraced, Current, Transferred, Distinct, Editing, Refers, At
      <4>4. CASE Forgets(r)
        BY <1>0, <2>1, <2>2, <3>2, <4>4
        DEF Forgets, SameBodies, SameRows, Unraced, Current, Transferred, Distinct, Editing, Refers, At
      <4> QED BY <1>2, <4>1, <4>2, <4>3, <4>4, FinalMoves
              DEF Rests, Proceeds, Starts, ReadsRow, Strips, FailsToSwitch, Restores, Deletes, Erases, SameRows
    <3>3. CASE objPhys[x] # p
      <4>1. req[r].x = x /\ (HasNew(r, p) \/ HasOld(r, p))
        BY <1>0, <3>1, <3>3 DEF Refers
      <4>2. ~HasOld(r, p) \/ req[r].pc \in {"delstaging", "delold"}
        BY <3>3, <4>1 DEF HasOld, OldPcs, Unraced, Current, Editing
      <4>3. CASE Rests(r)
        BY <1>0, <2>1, <2>2, <4>1, <4>2, <4>3 DEF Rests, Leaves, HasNew, HasOld, NewPcs, OldPcs, At
      <4>4. CASE Proceeds(r) \/ Strips(r) \/ FailsToSwitch(r) \/ Restores(r)
        BY <1>0, <4>1, <4>2, <4>4
        DEF Proceeds, Strips, FailsToSwitch, Restores, SameKeys, Refers, HasNew, HasOld, NewPcs, OldPcs, At
      <4>5. CASE Publishes(r)
        BY <1>0, <4>1, <4>2, <4>5 DEF Publishes, Refers, HasNew, HasOld, At
      <4>6. CASE Repoints(r)
        BY <1>0, <4>1, <4>2, <4>6 DEF Repoints, Unraced, Current, Editing, Refers, HasNew, HasOld, At
      <4>7. ~Starts(r) /\ ~Deletes(r)
        BY <4>1, <4>2
        DEF Starts, Deletes, Erases, Forgets, ReadsRow, HasNew, HasOld, NewPcs, OldPcs, At
      <4> QED BY <1>2, <4>3, <4>4, <4>5, <4>6, <4>7, FinalMoves
    <3> QED BY <3>2, <3>3
  <2>3. CASE p \in Drawn /\ store[p] = Gone
    <3>1. Restores(r) /\ p = req[r].old
      BY <1>2, <2>1, <2>3, FinalMoves
      DEF Rests, Proceeds, Publishes, Starts, ReadsRow, Strips, Repoints, FailsToSwitch, Restores, Deletes, Erases,
          Forgets, SameBodies
    <3>2. objPhys'[req[r].x] = p /\ req[r].x \in Slots
      BY <1>0, <3>1 DEF Restores, Unraced, Current, Editing, SameRows, At
    <3> QED BY <3>2 DEF Refers
  <2>4. p \in Drawn
    BY <1>0, <1>2, DrawnByMakes
  <2> QED BY <2>2, <2>3, <2>4
<1> QED BY <1>1, <1>2

(* What happens besides the steps of handlers. *)
LEMMA UnracedElsewhere ==
  ASSUME IInv, Unraced, Undrawn, faults = 0 => Followed, UNCHANGED <<objId, objPhys, objTag, finals>>,
         \A n \in 1..MaxFinals : store'[Final(n)] = store[Final(n)],
         UNCHANGED <<req, faults>> \/ (faults' = faults + 1 /\ \A r \in Requests : At(r, "idle")')
  PROVE  Unraced' /\ Undrawn' /\ (faults' = 0 => Followed')
<1>0. /\ \A n \in 1..finals : n \in 1..MaxFinals
      /\ Drawn' = Drawn /\ \A p \in Drawn : store'[p] = store[p]
      /\ \A x \in Slots : objPhys[x] \in Drawn \cup {NoKey}
      /\ \A r \in Requests : /\ req[r].pc \in NewPcs => req[r].new \in Drawn
                             /\ req[r].pc \in Editing => req[r].old \in Drawn
      /\ faults \in Nat
  BY KeysKnown, BoundsInt DEF IInv, TypeOK, Drawn, Editing, Local
<1>1. Distinct' /\ MappedIntact' /\ Undrawn'
  BY <1>0 DEF Unraced, Distinct, MappedIntact, Body, Undrawn
<1>2. Unmapped' /\ Current' /\ Transferred'
  <2>1. CASE UNCHANGED req
    BY <1>0, <2>1 DEF Unraced, Unmapped, Current, Transferred, HasOld, NewPcs, Editing, Switching, At
  <2>2. CASE \A r \in Requests : At(r, "idle")'
    BY <2>2 DEF Unmapped, Current, Transferred, NewPcs, Editing, Switching, At
  <2> QED BY <2>1, <2>2
<1>3. ASSUME faults' = 0 PROVE Followed'
  <2>1. UNCHANGED req /\ faults = 0
    BY <1>0, <1>3
  <2> QED BY <1>0, <2>1 DEF Followed, Refers, HasNew, HasOld
<1> QED BY <1>1, <1>2, <1>3 DEF Unraced

LEMMA TurnsStep ==
  ASSUME IInv, TakeTurns, Unraced, Undrawn, faults = 0 => Followed, [Next]_vars
  PROVE  Unraced' /\ Undrawn' /\ (faults' = 0 => Followed')
<1>1. CASE CreateBucket \/ (\E u \in Ids : Expire(u)) \/ UNCHANGED vars
  BY <1>1, UnracedElsewhere DEF CreateBucket, Expire, vars, rowVars
<1>2. CASE \E u \in Ids : \E v \in Payloads \cup {Partial} : Put(u, v)
  <2>1. PICK u \in Ids, v \in Payloads \cup {Partial} : Put(u, v)
    BY <1>2
  <2>2. \A n \in 1..MaxFinals : Final(n) \in PhysKeys /\ Staging(u) # Final(n)
    BY KeyFacts
  <2>3. \A n \in 1..MaxFinals : store'[Final(n)] = store[Final(n)]
    BY <2>1, <2>2 DEF Put, IInv, TypeOK
  <2> QED BY <2>1, <2>3, UnracedElsewhere DEF Put, rowVars
<1>3. CASE Restart
  BY <1>3, UnracedElsewhere DEF Restart, Idle, Fault, ProviderOnly, StoreAlone, rowVars, At
<1>4. ASSUME NEW r \in Requests, Acts(r) PROVE Unraced' /\ Undrawn' /\ (faults' = 0 => Followed')
  <2>1. ASSUME faults' = 0 PROVE faults = 0 /\ ~Fault
    BY <1>4, <2>1, FaultsCounted, BoundsInt DEF Fault, NoFault, IInv, TypeOK
  <2> QED BY <1>4, <2>1, UnracedStep, UndrawnStep, FollowedStep
<1> QED BY <1>1, <1>2, <1>3, <1>4 DEF Next, Acts

LEMMA TurnsInit == Init => Unraced /\ Undrawn /\ Followed
<1> SUFFICES ASSUME Init PROVE Unraced /\ Undrawn /\ Followed
  OBVIOUS
<1>1. /\ \A r \in Requests : req[r].pc = "idle"
      /\ \A x \in Slots : objPhys[x] = NoKey
      /\ Drawn = {} /\ \A n \in 1..MaxFinals : store[Final(n)] = Gone
  BY KeyFacts DEF Init, Idle, Drawn
<1>2. Distinct /\ MappedIntact /\ Undrawn /\ Followed
  BY <1>1 DEF Distinct, MappedIntact, Undrawn, Followed
<1>3. Unmapped /\ Current /\ Transferred
  BY <1>1 DEF Unmapped, Current, Transferred, NewPcs, Editing, Switching, At
<1> QED BY <1>2, <1>3 DEF Unraced

(* Requests that take turns keep the mapping intact, rotations among them and
   whatever fails or restarts: only a race makes a rotation point a row at the
   bytes of another version, as ObjectsRotateRace shows. *)
THEOREM TurnsKeepMappedIntact ==
  ASSUME \A q, r \in Requests : q = r PROVE Spec => []MappedIntact
<1> DEFINE Inv == IInv /\ Unraced /\ Undrawn /\ (faults = 0 => Followed)
<1>1. Init => Inv
  BY IInvInit, TurnsInit
<1>2. Inv /\ [Next]_vars => Inv'
  BY IInvStep, TurnsStep DEF TakeTurns
<1>3. Inv => MappedIntact
  BY DEF Unraced
<1> QED BY <1>1, <1>2, <1>3, PTL DEF Spec

(* Requests that take turns leave no bytes behind where nothing fails: a
   rotation that succeeded has removed the earlier key, as the comment on
   RotateObjectKey says.  Of two rotations at once one leaves a key. *)
THEOREM TurnsLeaveNothingBehind ==
  ASSUME \A q, r \in Requests : q = r PROVE Spec => []NoOrphans
<1> DEFINE Inv == IInv /\ Unraced /\ Undrawn /\ (faults = 0 => Followed)
<1>1. Init => Inv
  BY IInvInit, TurnsInit
<1>2. Inv /\ [Next]_vars => Inv'
  BY IInvStep, TurnsStep DEF TakeTurns
<1>3. Inv => NoOrphans
  <2> SUFFICES ASSUME Inv, faults = 0, \A r \in Requests : At(r, "idle"),
                      NEW n \in 1..MaxFinals, store[Final(n)] # Gone
               PROVE  \E x \in Slots : objPhys[x] = Final(n)
    BY DEF NoOrphans
  <2>1. finals \in Nat
    BY DrawnFacts DEF IInv
  <2>2. n <= finals
    BY <2>1, BoundsInt DEF Undrawn
  <2>3. Final(n) \in Drawn
    BY <2>1, <2>2 DEF Drawn
  <2>4. PICK x \in Slots : Refers(x, Final(n))
    BY <2>3 DEF Followed
  <2> QED BY <2>4 DEF Refers, HasNew, HasOld, NewPcs, OldPcs, At
<1> QED BY <1>1, <1>2, <1>3, PTL DEF Spec

(* The copies of a rotation are there, and once it has copied back after the *)
(* one failure, so is the body of the row.                                   *)
Readable ==
  \A r \in Requests :
    /\ req[r].pc \in Switching => store[req[r].new] # Gone
    /\ At(r, "restore") => faults = MaxFaults
    /\ At(r, "unrotate") => /\ objPhys[req[r].x] = req[r].old /\ req[r].old \in Drawn
                            /\ store[req[r].old] # Gone

LEMMA ReadableStep ==
  ASSUME IInv, TakeTurns, MaxFaults <= 1, Unraced, Readable, NEW r \in Requests, Acts(r)
  PROVE  Readable'
<1>0. /\ \A q \in Requests : q = r
      /\ req[r].pc \in NewPcs => req[r].new \in Drawn
      /\ req[r].pc \in OldPcs \ {"delstaging"} => req[r].old \in Drawn
      /\ Drawn \subseteq Drawn' /\ FreshFinal \notin Drawn
  BY KeysKnown, FreshKey, FinalsStep DEF TakeTurns
<1>1. CASE Makes(r)
  BY <1>0, <1>1 DEF Makes, Readable, Switching, At
<1>2. CASE Strips(r)
  <2>1. req[r].new # req[r].old
    BY <1>2 DEF Strips, Unraced, Unmapped, HasOld, NewPcs, OldPcs, At
  <2> QED BY <1>0, <1>2, <2>1 DEF Strips, SameKeys, Readable, Switching, NewPcs, At
<1>3. CASE FailsToSwitch(r)
  <2>1. faults' = MaxFaults
    BY <1>3, BoundsInt DEF FailsToSwitch, Fault, IInv, TypeOK
  <2> QED BY <1>0, <1>3, <2>1 DEF FailsToSwitch, SameKeys, SameBodies, Readable, Switching, NewPcs, At
<1>4. CASE Restores(r)
  <2>1. objPhys[req[r].x] = req[r].old /\ req[r].old \in Drawn /\ store[req[r].new] # Gone /\ ~Fault
    BY <1>0, <1>4, BoundsInt DEF Restores, Unraced, Current, Readable, Editing, Switching, OldPcs, Fault, At
  <2> QED BY <1>0, <1>4, <2>1 DEF Restores, SameKeys, SameRows, Readable, Switching, At
<1>5. CASE req'[r].pc \notin Switching \cup {"unrotate"}
  BY <1>0, <1>5 DEF Readable, Switching, At
<1> QED BY <1>1, <1>2, <1>3, <1>4, <1>5, FinalMoves
        DEF Rests, Bare, Proceeds, Publishes, Starts, ReadsRow, Repoints, Deletes, Erases, Forgets, Switching, At

LEMMA ReadableElsewhere ==
  ASSUME IInv, Readable, UNCHANGED <<objPhys, finals>>, \A p \in Drawn : store'[p] = store[p],
         UNCHANGED <<req, faults>> \/ \A r \in Requests : At(r, "idle")'
  PROVE  Readable'
<1>1. Drawn' = Drawn /\ \A r \in Requests : req[r].pc \in NewPcs => req[r].new \in Drawn
  BY KeysKnown DEF Drawn
<1>2. CASE UNCHANGED <<req, faults>>
  BY <1>1, <1>2 DEF Readable, Switching, NewPcs, At
<1>3. CASE \A r \in Requests : At(r, "idle")'
  BY <1>3 DEF Readable, Switching, At
<1> QED BY <1>2, <1>3

LEMMA ReadableNext ==
  ASSUME IInv, TakeTurns, MaxFaults <= 1, Unraced, Readable, [Next]_vars PROVE Readable'
<1>1. CASE CreateBucket \/ (\E u \in Ids : Expire(u)) \/ UNCHANGED vars
  BY <1>1, ReadableElsewhere DEF CreateBucket, Expire, vars, rowVars
<1>2. CASE \E u \in Ids : \E v \in Payloads \cup {Partial} : Put(u, v)
  BY <1>2, PutReachesStaging, ReadableElsewhere DEF Put, rowVars
<1>3. CASE Restart
  BY <1>3, ReadableElsewhere DEF Restart, Idle, ProviderOnly, StoreAlone, rowVars, At
<1>4. ASSUME NEW r \in Requests, Acts(r) PROVE Readable'
  BY <1>4, ReadableStep
<1> QED BY <1>1, <1>2, <1>3, <1>4 DEF Next, Acts

(* Where requests take turns and one call fails, a rotation whose switch
   failed leaves the mapping readable, as the comment on its restore path
   says: the copy back succeeds and the new key goes only afterwards. *)
THEOREM TurnsKeepReadable ==
  ASSUME \A q, r \in Requests : q = r, MaxFaults <= 1 PROVE Spec => FailedSwitchKeepsReadable
<1> DEFINE Inv == IInv /\ Unraced /\ Undrawn /\ (faults = 0 => Followed) /\ Readable
<1>1. Init => Inv
  <2>1. Init => Readable
    BY DEF Init, Idle, Readable, Switching, At
  <2> QED BY <2>1, IInvInit, TurnsInit
<1>2. Inv /\ [Next]_vars => Inv'
  BY IInvStep, TurnsStep, ReadableNext DEF TakeTurns
<1>3. Inv /\ [Next]_vars
        => [\A r \in Requests, x \in Slots :
              At(r, "unrotate") /\ req[r].x = x /\ At(r, "idle")' => Body(x)' # Gone]_vars
  <2> SUFFICES ASSUME Inv, Next, NEW r \in Requests, NEW x \in Slots,
                      At(r, "unrotate"), req[r].x = x, At(r, "idle")'
               PROVE  Body(x)' # Gone
    OBVIOUS
  <2>1. objPhys[x] = req[r].old /\ store[req[r].old] # Gone /\ req[r].old \in Drawn /\ req[r].old # NoKey
        /\ req[r].old # req[r].new
    BY KeysKnown DEF Readable, Unraced, Unmapped, NewPcs, At
  <2>2. CASE Acts(r)
    <3>1. Rests(r)
      BY <2>2, FinalMoves
      DEF Makes, Proceeds, Publishes, Starts, ReadsRow, Strips, Repoints, FailsToSwitch, Restores, Deletes, Erases,
          Forgets, At
    <3> QED BY <2>1, <3>1 DEF Rests, Body, SameRows, At
  <2>3. CASE Restart
    BY <2>1, <2>3 DEF Restart, Body, ProviderOnly, StoreAlone, rowVars
  <2>4. CASE UNCHANGED req
    BY <2>4 DEF At
  <2>5. ASSUME NEW q \in Requests, Acts(q) PROVE Acts(r)
    BY <2>5
  <2> QED BY <2>2, <2>3, <2>4, <2>5 DEF Next, Acts, CreateBucket, Expire, Put
<1> QED BY <1>1, <1>2, <1>3, PTL DEF Spec, FailedSwitchKeepsReadable
=============================================================================
