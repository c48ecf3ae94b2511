------------------------------ MODULE Catalog ------------------------------
(***************************************************************************)
(* The metadata catalog: the SQLite tables of internal/store and the       *)
(* transactions that account for bytes and count rows.  Every action is one *)
(* transaction of the store; a transaction that fails or is rolled back     *)
(* changes nothing and is not an action.                                    *)
(*                                                                          *)
(* A slot <<b, k>> is a (bucket_id, logical_key) pair: both tables have     *)
(* UNIQUE(bucket_id, logical_key), so a slot holds at most one object row   *)
(* and at most one upload row.                                              *)
(***************************************************************************)
EXTENDS Volumes

CONSTANTS
  Buckets,      \* bucket ids
  Keys,         \* logical keys
  Sources,      \* managed storage_sources ids
  Legacy,       \* the source id "" of the configured legacy S3, not accounted
  None,         \* no row
  Unlimited,    \* quota_unlimited = 1 or capacity_unlimited = 1
  Quotas,       \* finite quota_bytes an administrator asks for
  Capacities,   \* finite capacity_bytes an administrator asks for
  Sizes,        \* object sizes a client declares
  TotalLimit,   \* RVS_TOTAL_QUOTA
  MaxObjects,   \* RVS_MAX_OBJECTS_PER_BUCKET
  MaxPending,   \* RVS_MAX_PENDING_UPLOADS_PER_BUCKET
  MaxInt        \* the largest int64

ASSUME FiniteAssumption ==
  IsFiniteSet(Buckets) /\ IsFiniteSet(Keys) /\ IsFiniteSet(Sources)

ASSUME DistinctAssumption ==
  /\ Legacy \notin Sources
  /\ None \notin Sources \cup {Legacy}
  /\ Unlimited \notin Int

ASSUME NumberAssumption ==
  /\ MaxInt \in Nat
  /\ Quotas \subseteq 0..MaxInt
  /\ Capacities \subseteq 1..MaxInt
  /\ Sizes \subseteq 0..MaxInt
  /\ TotalLimit \in 1..MaxInt
  /\ MaxObjects \in 1..MaxInt
  /\ MaxPending \in 1..MaxInt

VARIABLES
  status,     \* buckets: no row, a row, a row with a bucket_deletions row
  quota,      \* buckets.quota_bytes, quota_unlimited
  used,       \* buckets.used_bytes
  reserved,   \* buckets.reserved_bytes
  attached,   \* the ids of the storage_sources rows
  capacity,   \* storage_sources.capacity_bytes, capacity_unlimited
  sUsed,      \* storage_sources.used_bytes
  sReserved,  \* storage_sources.reserved_bytes
  objects,    \* the objects row of each slot
  uploads     \* the uploads row of each slot

bucketVars == <<status, quota, used, reserved>>
sourceVars == <<attached, capacity, sUsed, sReserved>>
rowVars == <<objects, uploads>>
vars == <<bucketVars, sourceVars, rowVars>>

Slots == Buckets \X Keys
Places == Sources \cup {Legacy}

ObjectRow == [src : Places, size : Nat]
UploadRow == [src : Places, size : Nat, res : Nat, sres : Nat]
NoObject == [src |-> None, size |-> 0]
NoUpload == [src |-> None, size |-> 0, res |-> 0, sres |-> 0]

TypeOK ==
  /\ status \in [Buckets -> {"absent", "active", "deleting"}]
  /\ quota \in [Buckets -> Nat \cup {Unlimited}]
  /\ used \in [Buckets -> Nat]
  /\ reserved \in [Buckets -> Nat]
  /\ attached \subseteq Sources
  /\ capacity \in [Sources -> Nat \cup {Unlimited}]
  /\ sUsed \in [Sources -> Nat]
  /\ sReserved \in [Sources -> Nat]
  /\ objects \in [Slots -> ObjectRow \cup {NoObject}]
  /\ uploads \in [Slots -> UploadRow \cup {NoUpload}]

-----------------------------------------------------------------------------
(* What the queries of the transactions read. *)

HasObject(x) == objects[x].src # None
HasUpload(x) == uploads[x].src # None

BucketSlots(b) == {x \in Slots : x[1] = b}
ObjectsOn(s) == {x \in Slots : objects[x].src = s}
UploadsOn(s) == {x \in Slots : uploads[x].src = s}

ObjectCount(b) == Cardinality({x \in BucketSlots(b) : HasObject(x)})
PendingCount(b) == Cardinality({x \in BucketSlots(b) : HasUpload(x)})

ObjSize == [x \in Slots |-> objects[x].size]
UpRes == [x \in Slots |-> uploads[x].res]
UpSRes == [x \in Slots |-> uploads[x].sres]

Limited(b) == status[b] # "absent" /\ quota[b] # Unlimited
Allocated(B) == Volume(quota, {b \in B : Limited(b)})

(* int64 addition of two non-negative operands. *)
Add64(m, n) == IF m + n > MaxInt THEN m + n - 2 * (MaxInt + 1) ELSE m + n

(* Mutant: a quota is compared with the limit on its own. *)
FitsPlatformAlone(q, B) == q # Unlimited => q <= TotalLimit

(* The total-quota test of CreateBucket and UpdateBucket; B are the other     *)
(* buckets.  SQLite's sum() raises "integer overflow", Go's + wraps.          *)
FitsPlatform(q, B) ==
  /\ Allocated(B) <= MaxInt
  /\ q # Unlimited => Add64(Allocated(B), q) <= TotalLimit

(* reserved_bytes and source_reserved_bytes of a new uploads row: a
   replacement reserves only its growth over the current object. *)
Growth(x, n) == AtLeastZero(n - objects[x].size)
SourceGrowth(x, s, n) == IF objects[x].src = s THEN Growth(x, n) ELSE n

-----------------------------------------------------------------------------
Init ==
  /\ status = [b \in Buckets |-> "absent"]
  /\ quota = [b \in Buckets |-> 0]
  /\ used = [b \in Buckets |-> 0]
  /\ reserved = [b \in Buckets |-> 0]
  /\ attached = {}
  /\ capacity = [s \in Sources |-> 0]
  /\ sUsed = [s \in Sources |-> 0]
  /\ sReserved = [s \in Sources |-> 0]
  /\ objects = [x \in Slots |-> NoObject]
  /\ uploads = [x \in Slots |-> NoUpload]

(* The caller's PrimaryUnlimited() answer is left free here. *)
CreateBucket(b, q) ==
  /\ status[b] = "absent"
  /\ q # Unlimited => q > 0
  /\ FitsPlatform(q, Buckets)
  /\ status' = [status EXCEPT ![b] = "active"]
  /\ quota' = [quota EXCEPT ![b] = q]
  /\ used' = [used EXCEPT ![b] = 0]
  /\ reserved' = [reserved EXCEPT ![b] = 0]
  /\ UNCHANGED <<sourceVars, rowVars>>

UpdateBucket(b, q) ==
  /\ status[b] = "active"
  /\ q # Unlimited => q > 0 /\ q >= Add64(used[b], reserved[b])
  /\ FitsPlatform(q, Buckets \ {b})
  /\ quota' = [quota EXCEPT ![b] = q]
  /\ UNCHANGED <<status, used, reserved, sourceVars, rowVars>>

CreateStorageSource(s, c) ==
  /\ s \notin attached
  /\ attached' = attached \cup {s}
  /\ capacity' = [capacity EXCEPT ![s] = c]
  /\ sUsed' = [sUsed EXCEPT ![s] = 0]
  /\ sReserved' = [sReserved EXCEPT ![s] = 0]
  /\ UNCHANGED <<bucketVars, rowVars>>

UpdateStorageSource(s, c) ==
  /\ s \in attached
  /\ c # Unlimited => c >= Add64(sUsed[s], sReserved[s])
  /\ capacity' = [capacity EXCEPT ![s] = c]
  /\ UNCHANGED <<attached, sUsed, sReserved, bucketVars, rowVars>>

(* Mutants: both count limits off by one; pending bytes left out of the quota. *)
AdmitsCountOffByOne(x) ==
  /\ PendingCount(x[1]) <= MaxPending
  /\ HasObject(x) \/ ObjectCount(x[1]) <= MaxObjects

AdmitsQuotaUsedOnly(x, n) ==
  quota[x[1]] # Unlimited => Add64(used[x[1]], Growth(x, n)) <= quota[x[1]]

(* The bucket's and the source's admission tests of ReserveObject. *)
AdmitsCount(x) ==
  /\ PendingCount(x[1]) < MaxPending
  /\ HasObject(x) \/ ObjectCount(x[1]) < MaxObjects

AdmitsQuota(x, n) ==
  LET b == x[1] IN
  quota[b] # Unlimited
    => Add64(Add64(used[b], reserved[b]), Growth(x, n)) <= quota[b]

AdmitsSource(x, s, n) ==
  s # Legacy =>
    /\ s \in attached
    /\ capacity[s] # Unlimited
         => Add64(Add64(sUsed[s], sReserved[s]), SourceGrowth(x, s, n))
              <= capacity[s]

ReserveObject(x, s, n) ==
  LET b == x[1]
      res == Growth(x, n)
      sres == SourceGrowth(x, s, n)
  IN
  /\ status[b] = "active"
  /\ AdmitsCount(x)
  /\ AdmitsQuota(x, n)
  /\ AdmitsSource(x, s, n)
  /\ ~HasUpload(x)
  /\ uploads' = [uploads EXCEPT ![x] =
                   [src |-> s, size |-> n, res |-> res, sres |-> sres]]
  /\ reserved' = [reserved EXCEPT ![b] = @ + res]
  /\ sReserved' = IF s = Legacy THEN sReserved
                  ELSE [sReserved EXCEPT ![s] = @ + sres]
  /\ UNCHANGED <<status, quota, used, attached, capacity, sUsed, objects>>

(* Mutant: the declared size is given back instead of the reserved growth. *)
ReleaseUploadDeclared(x) ==
  LET u == uploads[x] IN
  /\ uploads' = [uploads EXCEPT ![x] = NoUpload]
  /\ reserved' = [reserved EXCEPT ![x[1]] = @ - u.size]
  /\ sReserved' = IF u.src = Legacy THEN sReserved
                  ELSE [sReserved EXCEPT ![u.src] = @ - u.size]

(* An uploads row is removed and what it reserved is given back. *)
ReleaseUpload(x) ==
  LET u == uploads[x] IN
  /\ uploads' = [uploads EXCEPT ![x] = NoUpload]
  /\ reserved' = [reserved EXCEPT ![x[1]] = AtLeastZero(@ - u.res)]
  /\ sReserved' = IF u.src = Legacy THEN sReserved
                  ELSE [sReserved EXCEPT ![u.src] = AtLeastZero(@ - u.sres)]

CancelUpload(x) ==
  /\ HasUpload(x)
  /\ ReleaseUpload(x)
  /\ UNCHANGED <<status, quota, used, attached, capacity, sUsed, objects>>

(* Mutants: a replacement on another source leaves the old source charged;
   a commit lands although the bucket is being deleted. *)
CommitUploadOldCharged(x) ==
  LET u == uploads[x]
      old == objects[x]
  IN
  /\ status[x[1]] = "active" /\ HasUpload(x) /\ ReleaseUpload(x)
  /\ objects' = [objects EXCEPT ![x] = [src |-> u.src, size |-> u.size]]
  /\ used' = [used EXCEPT ![x[1]] = AtLeastZero(@ - old.size) + u.size]
  /\ sUsed' = [s \in Sources |->
                 IF s = u.src
                 THEN sUsed[s] + u.size - (IF old.src = s THEN old.size ELSE 0)
                 ELSE sUsed[s]]
  /\ UNCHANGED <<status, quota, attached, capacity>>

CommitUploadWhileDeleting(x) ==
  LET u == uploads[x] IN
  /\ HasUpload(x) /\ ReleaseUpload(x)
  /\ objects' = [objects EXCEPT ![x] = [src |-> u.src, size |-> u.size]]
  /\ used' = [used EXCEPT ![x[1]] = AtLeastZero(@ - objects[x].size) + u.size]
  /\ sUsed' = [s \in Sources |-> IF s = u.src THEN sUsed[s] + u.size ELSE sUsed[s]]
  /\ UNCHANGED <<status, quota, attached, capacity>>

(* The new object's bytes are charged first, the replaced object's released  *)
(* second, as two UPDATEs of storage_sources.                                *)
CommitUpload(x) ==
  LET b == x[1]
      u == uploads[x]
      old == objects[x]
      charged == [s \in Sources |->
                    IF s = u.src THEN sUsed[s] + u.size ELSE sUsed[s]]
  IN
  /\ status[b] = "active"
  /\ HasUpload(x)
  /\ ReleaseUpload(x)
  /\ objects' = [objects EXCEPT ![x] = [src |-> u.src, size |-> u.size]]
  /\ used' = [used EXCEPT ![b] = AtLeastZero(@ - old.size) + u.size]
  /\ sUsed' = [s \in Sources |->
                 IF s = old.src THEN AtLeastZero(charged[s] - old.size)
                 ELSE charged[s]]
  /\ UNCHANGED <<status, quota, attached, capacity>>

(* No test of bucket_deletions here: a delete already under way completes. *)
DeleteObject(x) ==
  LET old == objects[x] IN
  /\ HasObject(x)
  /\ objects' = [objects EXCEPT ![x] = NoObject]
  /\ used' = [used EXCEPT ![x[1]] = AtLeastZero(@ - old.size)]
  /\ sUsed' = IF old.src = Legacy THEN sUsed
              ELSE [sUsed EXCEPT ![old.src] = AtLeastZero(@ - old.size)]
  /\ UNCHANGED <<status, quota, reserved, attached, capacity, sReserved, uploads>>

BeginBucketDeletion(b) ==
  /\ status[b] = "active"
  /\ status' = [status EXCEPT ![b] = "deleting"]
  /\ UNCHANGED <<quota, used, reserved, sourceVars, rowVars>>

(* Mutant: the uploads rows are not deleted. *)
FinishLeavesUploads(b) ==
  LET mine == BucketSlots(b) IN
  /\ status[b] = "deleting"
  /\ sUsed' = [s \in Sources |-> sUsed[s] - Volume(ObjSize, mine \cap ObjectsOn(s))]
  /\ objects' = [x \in Slots |-> IF x[1] = b THEN NoObject ELSE objects[x]]
  /\ status' = [status EXCEPT ![b] = "absent"]
  /\ quota' = [quota EXCEPT ![b] = 0]
  /\ used' = [used EXCEPT ![b] = 0]
  /\ reserved' = [reserved EXCEPT ![b] = 0]
  /\ UNCHANGED <<attached, capacity, sReserved, uploads>>

FinishBucketDeletion(b) ==
  LET mine == BucketSlots(b) IN
  /\ status[b] = "deleting"
  /\ sUsed' = [s \in Sources |-> IF s \in attached
                 THEN AtLeastZero(sUsed[s] - Volume(ObjSize, mine \cap ObjectsOn(s)))
                 ELSE sUsed[s]]
  /\ sReserved' = [s \in Sources |-> IF s \in attached
                 THEN AtLeastZero(sReserved[s] - Volume(UpSRes, mine \cap UploadsOn(s)))
                 ELSE sReserved[s]]
  /\ objects' = [x \in Slots |-> IF x[1] = b THEN NoObject ELSE objects[x]]
  /\ uploads' = [x \in Slots |-> IF x[1] = b THEN NoUpload ELSE uploads[x]]
  /\ status' = [status EXCEPT ![b] = "absent"]
  /\ quota' = [quota EXCEPT ![b] = 0]
  /\ used' = [used EXCEPT ![b] = 0]
  /\ reserved' = [reserved EXCEPT ![b] = 0]
  /\ UNCHANGED <<attached, capacity>>

Next ==
  \/ \E b \in Buckets, q \in Quotas \cup {Unlimited} :
       CreateBucket(b, q) \/ UpdateBucket(b, q)
  \/ \E s \in Sources, c \in Capacities \cup {Unlimited} :
       CreateStorageSource(s, c) \/ UpdateStorageSource(s, c)
  \/ \E x \in Slots, s \in Places, n \in Sizes : ReserveObject(x, s, n)
  \/ \E x \in Slots : CancelUpload(x) \/ CommitUpload(x) \/ DeleteObject(x)
  \/ \E b \in Buckets : BeginBucketDeletion(b) \/ FinishBucketDeletion(b)

Spec == Init /\ [][Next]_vars

-----------------------------------------------------------------------------
(* Properties. *)

(* Each counter equals the sum over the rows it summarises, whatever the
   order of reservations, cancellations, commits onto another source,
   deletes and bucket removals: the MAX(0, ...) of the UPDATEs never hides
   a drift. *)
Accounting ==
  /\ \A b \in Buckets :
       /\ used[b] = Volume(ObjSize, BucketSlots(b))
       /\ reserved[b] = Volume(UpRes, BucketSlots(b))
  /\ \A s \in Sources :
       /\ sUsed[s] = Volume(ObjSize, ObjectsOn(s))
       /\ sReserved[s] = Volume(UpSRes, UploadsOn(s))

(* Rows belong to an existing bucket and to an existing source (or to the
   legacy one): FinishBucketDeletion leaves no orphan rows. *)
RowsHaveParents ==
  \A x \in Slots :
    /\ status[x[1]] = "absent" => ~HasObject(x) /\ ~HasUpload(x)
    /\ objects[x].src \in attached \cup {Legacy, None}
    /\ uploads[x].src \in attached \cup {Legacy, None}

(* A bucket's logical keys, stored or promised, never exceed the object limit
   by more than the pending uploads admitted before the limit was reached. *)
KeyCountBound ==
  \A b \in Buckets :
    Cardinality({x \in BucketSlots(b) : HasObject(x) \/ HasUpload(x)})
      <= MaxObjects + MaxPending - 1

BucketWithin(b) == quota[b] = Unlimited \/ used[b] + reserved[b] <= quota[b]
SourceWithin(s) == capacity[s] = Unlimited \/ sUsed[s] + sReserved[s] <= capacity[s]

(* The reservation of the upload in slot x no longer covers its commit: the
   object whose replacement it was has been deleted since. *)
StaleReservation(x) ==
  HasUpload(x) /\ uploads[x].size > uploads[x].res + objects[x].size
StaleSourceReservation(x) ==
  /\ HasUpload(x)
  /\ uploads[x].size > uploads[x].sres
       + (IF objects[x].src = uploads[x].src THEN objects[x].size ELSE 0)

(* used + reserved passes the quota of a bucket (or the capacity of a source)
   in no step but one: the commit of an upload whose reservation has become
   stale.  (Or the sum no longer fits an int64 and the tests see it wrapped.) *)
ExcessNeedsStaleReservation ==
  [][/\ \A b \in Buckets : BucketWithin(b) /\ ~BucketWithin(b)' =>
          \/ \E x \in BucketSlots(b) : StaleReservation(x) /\ ~HasUpload(x)'
          \/ used'[b] + reserved'[b] > MaxInt
     /\ \A s \in Sources : SourceWithin(s) /\ ~SourceWithin(s)' =>
          \/ \E x \in UploadsOn(s) : StaleSourceReservation(x) /\ ~HasUpload(x)'
          \/ sUsed'[s] + sReserved'[s] > MaxInt]_vars

(* A bucket being deleted only shrinks: no upload is admitted, no commit
   lands, its quota stays as it was. *)
DeletingOnlyShrinks ==
  [][\A b \in Buckets : status[b] = "deleting" /\ status'[b] = "deleting" =>
       /\ quota'[b] = quota[b]
       /\ \A x \in BucketSlots(b) :
            /\ objects'[x] \in {objects[x], NoObject}
            /\ uploads'[x] \in {uploads[x], NoUpload}]_vars

(* The sum of configured bucket quotas stays within the platform quota. *)
TotalQuota == Allocated(Buckets) <= TotalLimit

(* A bucket's stored bytes never exceed its quota ("hard byte quota"). *)
HardQuota == \A b \in Buckets : quota[b] # Unlimited => used[b] <= quota[b]
=============================================================================
