------------------------------ MODULE Objects ------------------------------
(***************************************************************************)
(* The object requests of internal/service over the catalog and one         *)
(* physical store: BeginUpload with its sweep of expired uploads,           *)
(* CommitUpload, Delete and RotateObjectKey.  Requests hold the bucket's    *)
(* lock shared, so they interleave at every provider call and every         *)
(* transaction.  A provider call or a transaction may fail, and a request   *)
(* may be cut short anywhere: its client disconnects (every later call with *)
(* the request's context fails) or the process is restarted.                *)
(***************************************************************************)
EXTENDS Integers, FiniteSets

CONSTANTS
  Bucket, Keys, Payloads,
  Requests,    \* concurrent request handlers
  Ops,         \* which of {"delete", "rotate"} clients call besides uploads
  MaxUploads,  \* bound: uploads begun
  MaxFinals,   \* bound: final physical keys written
  MaxPuts,     \* bound: PUTs that arrive
  MaxFaults,   \* bound: failed calls and cut requests
  Gone,        \* no physical object under a key
  Partial,     \* an incomplete body
  S3, None, Unlimited

ASSUME BoundsAssumption == {MaxUploads, MaxFinals, MaxPuts, MaxFaults} \subseteq Nat
ASSUME NamesAssumption ==
  /\ IsFiniteSet(Keys)
  /\ Gone \notin Payloads \cup {Partial} /\ Partial \notin Payloads
  /\ Gone \notin Keys /\ S3 # None /\ Unlimited \notin Int

VARIABLES
  status, quota, used, reserved, attached, capacity, sUsed, sReserved,
  objects, uploads,
  objId,      \* objects.id of a slot: the id of the upload that created the row
  objPhys,    \* objects.physical_key
  objTag,     \* objects.etag
  upId,       \* uploads.id of a slot
  store,      \* the provider: physical key -> body
  granted,    \* ids whose upload URL was handed to a client
  expired,    \* ids whose expires_at has passed
  ids,        \* upload ids drawn so far
  finals,     \* final keys drawn so far
  puts, faults,
  delivered,  \* history: complete bodies that arrived for each id
  missed,     \* history: final keys whose row a delete removed unread
  req         \* the handlers' local variables

catalogVars == <<status, quota, used, reserved, attached, capacity, sUsed,
                 sReserved, objects, uploads>>
rowVars == <<objId, objPhys, objTag, upId>>
clientVars == <<granted, expired, puts, delivered, missed>>
vars == <<catalogVars, rowVars, store, clientVars, ids, finals, faults, req>>

C == INSTANCE Catalog WITH
       Buckets <- {Bucket}, Sources <- {}, Legacy <- S3, Quotas <- {},
       Capacities <- {}, Sizes <- {1}, TotalLimit <- 1, MaxObjects <- 100,
       MaxPending <- 100, MaxInt <- 1000

Slots == {Bucket} \X Keys
Ids == 1..MaxUploads
Staging(u) == <<"staging", u>>   \* stagingPhysical(bucket, id, key)
Final(n) == <<"final", n>>       \* physical(bucket, key, time.Now().UnixNano())
PhysKeys == {Staging(u) : u \in Ids} \cup {Final(n) : n \in 1..MaxFinals}
NoKey == <<"none", 0>>

Idle == [pc |-> "idle", x |-> None, up |-> 0, id |-> 0, old |-> NoKey,
         new |-> NoKey, tag |-> Gone, todo |-> {}]

Pcs == {"idle", "sweep", "cancel", "grant", "head", "copy", "verify", "commit",
        "undo", "delstaging", "delold", "delete", "deleterow", "rotatecopy",
        "rotatedelete", "rotaterow", "restore", "unrotate"}

TypeOK ==
  /\ C!TypeOK
  /\ objId \in [Slots -> Ids \cup {0}]
  /\ objPhys \in [Slots -> PhysKeys \cup {NoKey}]
  /\ objTag \in [Slots -> Payloads \cup {Gone}]
  /\ upId \in [Slots -> Ids \cup {0}]
  /\ store \in [PhysKeys -> Payloads \cup {Partial, Gone}]
  /\ granted \subseteq Ids /\ expired \subseteq Ids
  /\ ids \in 0..MaxUploads /\ finals \in 0..MaxFinals
  /\ puts \in 0..MaxPuts /\ faults \in 0..MaxFaults
  /\ delivered \in [Ids -> SUBSET Payloads] /\ missed \subseteq PhysKeys
  /\ DOMAIN req = Requests /\ \A r \in Requests : req[r].pc \in Pcs

Init ==
  /\ C!Init
  /\ objId = [x \in Slots |-> 0]
  /\ objPhys = [x \in Slots |-> NoKey]
  /\ objTag = [x \in Slots |-> Gone]
  /\ upId = [x \in Slots |-> 0]
  /\ store = [p \in PhysKeys |-> Gone]
  /\ granted = {} /\ expired = {}
  /\ ids = 0 /\ finals = 0 /\ puts = 0 /\ faults = 0
  /\ delivered = [u \in Ids |-> {}] /\ missed = {}
  /\ req = [r \in Requests |-> Idle]

-----------------------------------------------------------------------------
(* The shape of a handler's step. *)

At(r, pc) == req[r].pc = pc
Goto(r, pc) == req' = [req EXCEPT ![r].pc = pc]
Return(r) == req' = [req EXCEPT ![r] = Idle]
Fault == faults < MaxFaults /\ faults' = faults + 1
NoFault == UNCHANGED faults

(* A step that only talks to the provider, and one that does not. *)
ProviderOnly == UNCHANGED <<catalogVars, rowVars, clientVars, ids>>
StoreAlone == UNCHANGED <<store, finals>>

(* BucketOperation: the bucket exists and is not being deleted. *)
Enter(r, k) == At(r, "idle") /\ status[Bucket] = "active" /\ k \in Keys

(* A body is written to the next fresh final key. *)
FreshFinal == Final(finals + 1)
CopyTo(from) ==
  /\ finals < MaxFinals
  /\ finals' = finals + 1
  /\ store' = [store EXCEPT ![FreshFinal] = store[from]]

(* Providers delete idempotently: a missing key is no error. *)
Unlink(p) == store' = [store EXCEPT ![p] = Gone]

(* A copy that fails before anything is written, or whose answer is lost. *)
CopyFails(from) ==
  \/ UNCHANGED <<store, finals>> /\ Fault
  \/ UNCHANGED <<store, finals>> /\ NoFault /\ finals = MaxFinals
  \/ CopyTo(from) /\ Fault

(* A delete whose outcome the handler ignores: done, or failed. *)
TryUnlink(p) ==
  /\ UNCHANGED finals
  /\ \/ Unlink(p) /\ NoFault
     \/ UNCHANGED store /\ Fault

-----------------------------------------------------------------------------
(* Clients, clocks, disconnections and restarts. *)

CreateBucket ==
  /\ C!CreateBucket(Bucket, Unlimited)
  /\ UNCHANGED <<rowVars, store, clientVars, ids, finals, faults, req>>

(* A body reaches the staging key of an issued URL.  The provider checks the
   URL when the transfer starts, so the body may land after the expiry, after
   the commit or after the cancellation, and it may land incomplete. *)
Put(u, v) ==
  /\ u \in granted
  /\ puts < MaxPuts
  /\ puts' = puts + 1
  /\ store' = [store EXCEPT ![Staging(u)] = v]
  /\ delivered' = IF v = Partial THEN delivered
                  ELSE [delivered EXCEPT ![u] = @ \cup {v}]
  /\ UNCHANGED <<catalogVars, rowVars, granted, expired, missed, ids, finals,
                 faults, req>>

Expire(u) ==
  /\ u \in 1..ids /\ u \notin expired
  /\ expired' = expired \cup {u}
  /\ UNCHANGED <<catalogVars, rowVars, store, granted, puts, delivered, missed,
                 ids, finals, faults, req>>

(* The request's context is cancelled, or its transaction or call fails and
   the handler returns the error at once. *)
Cut(r) ==
  /\ ~At(r, "idle")
  /\ Fault /\ Return(r)
  /\ ProviderOnly /\ StoreAlone

(* The server process restarts: every handler is gone, nothing else. *)
Restart ==
  /\ \E r \in Requests : ~At(r, "idle")
  /\ Fault
  /\ req' = [r \in Requests |-> Idle]
  /\ ProviderOnly /\ StoreAlone

-----------------------------------------------------------------------------
(* BeginUpload and the sweep it starts with. *)

BeginSweep(r, k) ==
  /\ Enter(r, k)
  /\ req' = [req EXCEPT ![r] =
               [Idle EXCEPT !.pc = "sweep", !.x = <<Bucket, k>>,
                            !.todo = {u \in expired : \E x \in Slots : upId[x] = u}]]
  /\ ProviderOnly /\ StoreAlone /\ NoFault

SweepDelete(r, u) ==
  /\ At(r, "sweep") /\ u \in req[r].todo
  /\ UNCHANGED finals
  /\ \/ /\ Unlink(Staging(u)) /\ NoFault
        /\ req' = [req EXCEPT ![r].pc = "cancel", ![r].up = u]
     \/ /\ UNCHANGED store /\ Fault          \* this one is skipped
        /\ req' = [req EXCEPT ![r].todo = @ \ {u}]
  /\ ProviderOnly

(* Mutant: the row goes, what it reserved does not. *)
CancelRowOnly(u) ==
  /\ upId' = [x \in Slots |-> IF upId[x] = u THEN 0 ELSE upId[x]]
  /\ uploads' = [x \in Slots |-> IF upId[x] = u THEN C!NoUpload ELSE uploads[x]]
  /\ UNCHANGED <<status, quota, used, reserved, attached, capacity, sUsed,
                 sReserved, objects>>

(* CancelUpload by id; it fails without effect when the row is gone. *)
CancelRow(u) ==
  IF \E x \in Slots : upId[x] = u
  THEN \E x \in Slots : /\ upId[x] = u
                        /\ C!CancelUpload(x)
                        /\ upId' = [upId EXCEPT ![x] = 0]
  ELSE UNCHANGED <<catalogVars, upId>>

SweepCancel(r) ==
  /\ At(r, "cancel")
  /\ \/ CancelRow(req[r].up) /\ NoFault
     \/ UNCHANGED <<catalogVars, upId>> /\ Fault
  /\ req' = [req EXCEPT ![r].pc = "sweep", ![r].todo = @ \ {req[r].up},
                        ![r].up = 0]
  /\ UNCHANGED <<objId, objPhys, objTag, clientVars, ids>> /\ StoreAlone

BeginReserve(r) ==
  LET x == req[r].x IN
  /\ At(r, "sweep") /\ req[r].todo = {}
  /\ ids < MaxUploads
  /\ C!ReserveObject(x, S3, 1)
  /\ ids' = ids + 1
  /\ upId' = [upId EXCEPT ![x] = ids + 1]
  /\ req' = [req EXCEPT ![r].pc = "grant", ![r].up = ids + 1]
  /\ UNCHANGED <<objId, objPhys, objTag, clientVars>> /\ StoreAlone /\ NoFault

(* The reservation is refused: the key has a pending upload. *)
BeginRefused(r) ==
  /\ At(r, "sweep") /\ req[r].todo = {}
  /\ ids = MaxUploads \/ upId[req[r].x] # 0
  /\ Return(r) /\ NoFault
  /\ ProviderOnly /\ StoreAlone

(* The URL is signed and returned, or the reservation is taken back. *)
BeginGrant(r) ==
  LET u == req[r].up IN
  /\ At(r, "grant")
  /\ Return(r)
  /\ \/ /\ granted' = granted \cup {u}
        /\ UNCHANGED <<catalogVars, upId>> /\ NoFault
     \/ CancelRow(u) /\ UNCHANGED granted /\ Fault
  /\ UNCHANGED <<objId, objPhys, objTag, expired, puts, delivered, missed, ids>>
  /\ StoreAlone

-----------------------------------------------------------------------------
(* CommitUpload. *)

(* GetUpload: the row must match id and key; expires_at is not looked at. *)
CommitGet(r, k) ==
  LET x == <<Bucket, k>> IN
  /\ Enter(r, k)
  /\ upId[x] \in granted
  /\ req' = [req EXCEPT ![r] = [Idle EXCEPT !.pc = "head", !.x = x, !.up = upId[x]]]
  /\ ProviderOnly /\ StoreAlone /\ NoFault

(* Mutant: the staging key itself becomes the object's physical key. *)
CommitHeadInPlace(r) ==
  LET s == Staging(req[r].up) IN
  /\ At(r, "head") /\ store[s] \in Payloads
  /\ req' = [req EXCEPT ![r].pc = "commit", ![r].new = s, ![r].tag = store[s]]
  /\ ProviderOnly /\ StoreAlone /\ NoFault

CommitHead(r) ==
  /\ At(r, "head")
  /\ IF store[Staging(req[r].up)] \in Payloads THEN Goto(r, "copy") ELSE Return(r)
  /\ ProviderOnly /\ StoreAlone /\ NoFault

CommitCopy(r) ==
  LET from == Staging(req[r].up) IN
  /\ At(r, "copy")
  /\ ProviderOnly
  /\ \/ /\ store[from] # Gone
        /\ CopyTo(from) /\ NoFault
        /\ req' = [req EXCEPT ![r].pc = "verify", ![r].new = FreshFinal]
     \/ store[from] # Gone /\ CopyFails(from) /\ Return(r)
     \/ store[from] = Gone /\ StoreAlone /\ NoFault /\ Return(r)

(* Mutant: the copy's size is not compared. *)
CommitVerifyNothing(r) ==
  /\ At(r, "verify")
  /\ req' = [req EXCEPT ![r].pc = "commit", ![r].tag = store[req[r].new]]
  /\ ProviderOnly /\ StoreAlone /\ NoFault

(* Head of the final key: the size must be the staged one. *)
CommitVerify(r) ==
  /\ At(r, "verify")
  /\ ProviderOnly /\ StoreAlone
  /\ \/ /\ store[req[r].new] \in Payloads /\ NoFault
        /\ req' = [req EXCEPT ![r].pc = "commit", ![r].tag = store[req[r].new]]
     \/ store[req[r].new] \notin Payloads /\ NoFault /\ Goto(r, "undo")
     \/ Fault /\ Goto(r, "undo")

(* Mutant: the pending upload is looked up by key instead of by id. *)
CommitRowByKey(r) ==
  LET x == req[r].x IN
  /\ At(r, "commit")
  /\ C!CommitUpload(x)
  /\ upId' = [upId EXCEPT ![x] = 0]
  /\ objId' = [objId EXCEPT ![x] = IF objects[x].src = None THEN req[r].up ELSE @]
  /\ objPhys' = [objPhys EXCEPT ![x] = req[r].new]
  /\ objTag' = [objTag EXCEPT ![x] = req[r].tag]
  /\ req' = [req EXCEPT ![r].pc = "delstaging", ![r].old = objPhys[x]]
  /\ UNCHANGED <<clientVars, ids>> /\ StoreAlone /\ NoFault

CommitRow(r) ==
  LET x == req[r].x
      u == req[r].up
      fresh == objects[x].src = None
  IN
  /\ At(r, "commit")
  /\ upId[x] = u
  /\ C!CommitUpload(x)
  /\ upId' = [upId EXCEPT ![x] = 0]
  /\ objId' = [objId EXCEPT ![x] = IF fresh THEN u ELSE @]
  /\ objPhys' = [objPhys EXCEPT ![x] = req[r].new]
  /\ objTag' = [objTag EXCEPT ![x] = req[r].tag]
  /\ req' = [req EXCEPT ![r].pc = "delstaging", ![r].old = objPhys[x]]
  /\ UNCHANGED <<clientVars, ids>> /\ StoreAlone /\ NoFault

(* The transaction finds no upload row, or fails. *)
CommitRowFails(r) ==
  /\ At(r, "commit")
  /\ Goto(r, "undo")
  /\ \/ upId[req[r].x] # req[r].up /\ NoFault
     \/ Fault
  /\ ProviderOnly /\ StoreAlone

CommitUndo(r) ==
  /\ At(r, "undo")
  /\ TryUnlink(req[r].new)
  /\ Return(r)
  /\ ProviderOnly

(* Mutant: the replaced object's physical key is forgotten. *)
CommitForgetsOld(r) ==
  /\ At(r, "delstaging")
  /\ TryUnlink(Staging(req[r].up))
  /\ Return(r)
  /\ ProviderOnly

CommitDeleteStaging(r) ==
  /\ At(r, "delstaging")
  /\ TryUnlink(Staging(req[r].up))
  /\ IF req[r].old = NoKey THEN Return(r) ELSE Goto(r, "delold")
  /\ ProviderOnly

CommitDeleteOld(r) ==
  /\ At(r, "delold")
  /\ TryUnlink(req[r].old)
  /\ Return(r)
  /\ ProviderOnly

-----------------------------------------------------------------------------
(* Delete and RotateObjectKey read the object row first. *)

ReadRow(r, k, op, pc) ==
  LET x == <<Bucket, k>> IN
  /\ Enter(r, k) /\ op \in Ops
  /\ objId[x] # 0
  /\ req' = [req EXCEPT ![r] = [Idle EXCEPT !.pc = pc, !.x = x, !.id = objId[x],
                                           !.old = objPhys[x]]]
  /\ ProviderOnly /\ StoreAlone /\ NoFault

DeleteGet(r, k) == ReadRow(r, k, "delete", "delete")

DeletePhysical(r) ==
  /\ At(r, "delete")
  /\ Unlink(req[r].old) /\ UNCHANGED finals
  /\ Goto(r, "deleterow")
  /\ ProviderOnly /\ NoFault

DeleteRow(r) ==
  LET x == req[r].x IN
  /\ At(r, "deleterow")
  /\ Return(r)
  /\ IF objId[x] = req[r].id
     THEN /\ C!DeleteObject(x)
          /\ objId' = [objId EXCEPT ![x] = 0]
          /\ objPhys' = [objPhys EXCEPT ![x] = NoKey]
          /\ objTag' = [objTag EXCEPT ![x] = Gone]
          /\ missed' = missed \cup ({objPhys[x]} \ {req[r].old})
     ELSE UNCHANGED <<catalogVars, objId, objPhys, objTag, missed>>
  /\ UNCHANGED <<upId, granted, expired, puts, delivered, ids>> /\ StoreAlone /\ NoFault

RotateGet(r, k) == ReadRow(r, k, "rotate", "rotatecopy")

RotateCopy(r) ==
  LET from == req[r].old IN
  /\ At(r, "rotatecopy")
  /\ ProviderOnly
  /\ \/ /\ store[from] # Gone
        /\ CopyTo(from) /\ NoFault
        /\ req' = [req EXCEPT ![r].pc = "rotatedelete", ![r].new = FreshFinal]
     \/ store[from] # Gone /\ CopyFails(from) /\ Return(r)
     \/ store[from] = Gone /\ StoreAlone /\ NoFault /\ Return(r)

(* Mutant: the old key is not deleted. *)
RotateKeepsOld(r) ==
  /\ At(r, "rotatedelete")
  /\ Goto(r, "rotaterow")
  /\ ProviderOnly /\ StoreAlone /\ NoFault

RotateDelete(r) ==
  /\ At(r, "rotatedelete")
  /\ Unlink(req[r].old) /\ UNCHANGED finals
  /\ Goto(r, "rotaterow")
  /\ ProviderOnly /\ NoFault

(* UPDATE objects SET physical_key WHERE id: no row is no error. *)
RotateRow(r) ==
  LET x == req[r].x IN
  /\ At(r, "rotaterow")
  /\ \/ /\ objPhys' = IF objId[x] = req[r].id
                      THEN [objPhys EXCEPT ![x] = req[r].new] ELSE objPhys
        /\ Return(r) /\ NoFault
     \/ UNCHANGED objPhys /\ Goto(r, "restore") /\ Fault
  /\ UNCHANGED <<catalogVars, objId, objTag, upId, clientVars, ids>> /\ StoreAlone

(* Mutant: the new key is deleted before it is copied back. *)
RotateRestoreLate(r) ==
  /\ At(r, "restore")
  /\ Goto(r, "unrotate")
  /\ TryUnlink(req[r].new)
  /\ ProviderOnly

(* The switch failed: copy back, then delete the new key, errors ignored. *)
RotateRestore(r) ==
  /\ At(r, "restore")
  /\ Goto(r, "unrotate")
  /\ UNCHANGED finals
  /\ \/ /\ NoFault
        /\ store' = IF store[req[r].new] = Gone THEN store
                    ELSE [store EXCEPT ![req[r].old] = store[req[r].new]]
     \/ UNCHANGED store /\ Fault
  /\ ProviderOnly

RotateUndo(r) ==
  /\ At(r, "unrotate")
  /\ TryUnlink(req[r].new)
  /\ Return(r)
  /\ ProviderOnly

-----------------------------------------------------------------------------
Step(r) ==
  \/ \E u \in Ids : SweepDelete(r, u)
  \/ SweepCancel(r) \/ BeginReserve(r) \/ BeginRefused(r) \/ BeginGrant(r)
  \/ CommitHead(r) \/ CommitCopy(r) \/ CommitVerify(r) \/ CommitRow(r)
  \/ CommitRowFails(r) \/ CommitUndo(r) \/ CommitDeleteStaging(r)
  \/ CommitDeleteOld(r) \/ DeletePhysical(r) \/ DeleteRow(r)
  \/ RotateCopy(r) \/ RotateDelete(r) \/ RotateRow(r)
  \/ RotateRestore(r) \/ RotateUndo(r)

Next ==
  \/ CreateBucket \/ Restart
  \/ \E u \in Ids : Expire(u) \/ \E v \in Payloads \cup {Partial} : Put(u, v)
  \/ \E r \in Requests :
       \/ Step(r) \/ Cut(r)
       \/ \E k \in Keys : \/ BeginSweep(r, k) \/ CommitGet(r, k)
                          \/ DeleteGet(r, k) \/ RotateGet(r, k)

Spec == Init /\ [][Next]_vars

-----------------------------------------------------------------------------
(* Properties. *)

(* What a reader of slot x gets by following the mapping. *)
Body(x) == IF objPhys[x] = NoKey THEN Gone ELSE store[objPhys[x]]

Working(pcs, x) == \E r \in Requests : req[r].pc \in pcs /\ req[r].x = x

(* A mapped object is a complete body with the etag its row records: never
   a truncated one, never another upload's. *)
MappedIntact ==
  \A x \in Slots : objPhys[x] # NoKey /\ Body(x) # Gone => Body(x) = objTag[x]

(* The catalog underneath keeps its promises: every step of the requests
   is a transaction of Catalog or leaves it alone. *)
CatalogSpec == C!Spec

(* Readers see ObjectPromise: complete bodies, switched at once by the commit
   of an open upload and removed only while a delete works on the key. *)
Promise == INSTANCE ObjectPromise WITH
  Absent <- Gone,
  content <- [k \in Keys |-> Body(<<Bucket, k>>)],
  open <- [u \in Ids |-> IF \E k \in Keys : upId[<<Bucket, k>>] = u
                         THEN CHOOSE k \in Keys : upId[<<Bucket, k>>] = u ELSE Gone],
  delivered <- delivered,
  wanted <- {k \in Keys : Working({"delete", "deleterow"}, <<Bucket, k>>)}
PromiseSpec == Promise!Spec

(* No bytes are left behind by commits and deletes: when nothing failed and no
   request is under way, every final key in the store is mapped, or a commit
   replaced what a delete had read before that delete removed the row. *)
NoOrphans ==
  faults = 0 /\ (\A r \in Requests : At(r, "idle"))
    => \A n \in 1..MaxFinals : store[Final(n)] # Gone
         => Final(n) \in missed \/ \E x \in Slots : objPhys[x] = Final(n)

(* Rotation loses no bytes: under any one failure, and with rotations, uploads
   and the restore path of one rotation racing another, some final key still
   holds the body that each object row records. *)
BytesSurvive ==
  \A x \in Slots : objPhys[x] # NoKey =>
    \E n \in 1..MaxFinals : store[Final(n)] = objTag[x]

(* A rotation whose metadata switch failed leaves the mapping readable: the
   claim of the comment on the restore path of RotateObjectKey. *)
FailedSwitchKeepsReadable ==
  [][\A r \in Requests, x \in Slots :
       At(r, "unrotate") /\ req[r].x = x /\ At(r, "idle")' => Body(x)' # Gone]_vars

(* A successful rotation leaves no earlier physical key of the object behind,
   so every direct URL signed before it fails: with nothing failed and no
   request under way, an unmapped final key is gone. *)
OldKeysRetired == NoOrphans
=============================================================================
