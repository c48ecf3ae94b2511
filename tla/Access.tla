------------------------------- MODULE Access -------------------------------
(***************************************************************************)
(* Who may touch which bucket: bootstrap tokens and the claims that spend   *)
(* them, access keys, and the slugs by which requests name buckets.  A slug *)
(* is free again once its bucket is gone, so a handler that read a bucket   *)
(* or a credential may act after the slug has come to name another bucket.  *)
(* Every query and transaction of a handler is a step of its own.           *)
(*                                                                          *)
(* The sweep between acceptance and the end of a deletion, the confirmation *)
(* before it and the bucket locks are in BucketDeletion; quotas in Catalog. *)
(***************************************************************************)
EXTENDS Naturals, FiniteSets

CONSTANTS
  Slugs, Tokens, Requests,
  MaxBuckets,  \* bound: bucket ids ever drawn
  MaxKeys,     \* bound: access keys ever drawn
  Admin, None

ASSUME BoundAssumption == MaxBuckets \in Nat /\ MaxKeys \in Nat
ASSUME NoneAssumption == None \notin Slugs \cup Tokens /\ Admin \notin Tokens \cup {None}

VARIABLES
  tokens,   \* bootstrap_tokens: used_at and expires_at
  buckets,  \* buckets rows by id, with what bucket_deletions says of them
  keys,     \* access_keys rows
  uploads,  \* uploads rows: the bucket, and the key whose holder reserved it
  req,      \* the handlers' local variables
  madeBy,   \* history: the token whose claim, or the Admin who, drew a bucket id
  home      \* history: the bucket a key was drawn for

rows == <<tokens, buckets, keys, uploads, madeBy, home>>
vars == <<tokens, buckets, keys, uploads, req, madeBy, home>>

Ids == 1..MaxBuckets
Keys == 1..MaxKeys
Gone == [slug |-> None, state |-> "gone"]
NoKey == [bucket |-> 0, revoked |-> TRUE]
Local(pc, t, s, b, k) == [pc |-> pc, t |-> t, slug |-> s, b |-> b, k |-> k]
Idle == Local("idle", None, None, 0, 0)

Named(s) == {b \in Ids : buckets[b].slug = s}
Active(b) == b \in Ids /\ buckets[b].state = "active"
Exists(b) == b \in Ids /\ buckets[b].state # "gone"

(* Ids are drawn at random in the program and in order here. *)
NextId(b) == madeBy[b] = None /\ \A c \in Ids : c < b => madeBy[c] # None
NextKey(k) == home[k] = 0 /\ \A l \in Keys : l < k => home[l] # 0

Locals == [pc : {"idle", "look", "burn", "bucket", "key", "act", "delete"},
           t : Tokens \cup {None}, slug : Slugs \cup {None},
           b : 0..MaxBuckets, k : 0..MaxKeys]

Shape ==
  /\ tokens \in [Tokens -> {"none", "open", "expired", "used"}]
  /\ buckets \in [Ids -> [slug : Slugs \cup {None}, state : {"gone", "active", "deleting"}]]
  /\ keys \in [Keys -> [bucket : 0..MaxBuckets, revoked : BOOLEAN]]
  /\ uploads \subseteq [bucket : Ids, key : Keys]
  /\ req \in [Requests -> Locals]
  /\ madeBy \in [Ids -> Tokens \cup {Admin, None}]
  /\ home \in [Keys -> 0..MaxBuckets]

(* The foreign keys of access_keys and uploads, and the unique slugs. *)
References ==
  /\ \A k \in Keys : keys[k].bucket # 0 => Exists(keys[k].bucket) /\ home[k] = keys[k].bucket
  /\ \A u \in uploads : Exists(u.bucket)
  /\ \A b \in Ids : (buckets[b].slug = None) <=> (buckets[b].state = "gone")
  /\ \A b, c \in Ids : buckets[b].slug = buckets[c].slug /\ Exists(b) => b = c

TypeOK == Shape /\ References

Init ==
  /\ tokens = [t \in Tokens |-> "none"]
  /\ buckets = [b \in Ids |-> Gone]
  /\ keys = [k \in Keys |-> NoKey]
  /\ uploads = {}
  /\ req = [r \in Requests |-> Idle]
  /\ madeBy = [b \in Ids |-> None]
  /\ home = [k \in Keys |-> 0]

At(r, pc) == req[r].pc = pc
Goto(r, pc) == req' = [req EXCEPT ![r].pc = pc]
Return(r) == req' = [req EXCEPT ![r] = Idle]

-----------------------------------------------------------------------------
(* Bootstrap tokens. *)

CreateBootstrap(t) ==
  /\ tokens[t] = "none"
  /\ tokens' = [tokens EXCEPT ![t] = "open"]
  /\ UNCHANGED <<buckets, keys, uploads, req, madeBy, home>>

Expire(t) ==
  /\ tokens[t] = "open"
  /\ tokens' = [tokens EXCEPT ![t] = "expired"]
  /\ UNCHANGED <<buckets, keys, uploads, req, madeBy, home>>

(* Claim: InspectBootstrap, GetBucket, ClaimBootstrap, NewBucket, NewKey. *)
ClaimInspect(r, t, s) ==
  /\ At(r, "idle")
  /\ IF tokens[t] = "open"
     THEN req' = [req EXCEPT ![r] = Local("look", t, s, 0, 0)]
     ELSE Return(r)
  /\ UNCHANGED rows

ClaimLook(r) ==
  /\ At(r, "look")
  /\ IF Named(req[r].slug) = {} THEN Goto(r, "burn") ELSE Return(r)
  /\ UNCHANGED rows

(* Mutant: used_at and expires_at are not read again. *)
ClaimBurnUnread(r) ==
  /\ At(r, "burn")
  /\ tokens' = [tokens EXCEPT ![req[r].t] = "used"]
  /\ Goto(r, "bucket")
  /\ UNCHANGED <<buckets, keys, uploads, madeBy, home>>

ClaimBurn(r) ==
  /\ At(r, "burn")
  /\ IF tokens[req[r].t] = "open"
     THEN tokens' = [tokens EXCEPT ![req[r].t] = "used"] /\ Goto(r, "bucket")
     ELSE Return(r) /\ UNCHANGED tokens
  /\ UNCHANGED <<buckets, keys, uploads, madeBy, home>>

-----------------------------------------------------------------------------
(* Buckets and keys. *)

CreateBucket(b, s, maker) ==
  /\ Named(s) = {} /\ NextId(b)
  /\ buckets' = [buckets EXCEPT ![b] = [slug |-> s, state |-> "active"]]
  /\ madeBy' = [madeBy EXCEPT ![b] = maker]
  /\ UNCHANGED <<tokens, keys, uploads, home>>

ClaimBucket(r, b) ==
  /\ At(r, "bucket")
  /\ CreateBucket(b, req[r].slug, req[r].t)
  /\ req' = [req EXCEPT ![r] = Local("key", None, None, b, 0)]

AdminBucket(b, s) == CreateBucket(b, s, Admin) /\ UNCHANGED req

CreateKeyStart(r, b) ==
  /\ At(r, "idle") /\ Exists(b)
  /\ req' = [req EXCEPT ![r] = Local("key", None, None, b, 0)]
  /\ UNCHANGED rows

(* Mutant: the insert asks for the bucket and not for its deletion. *)
CreateAccessKeyIfExists(r, k) ==
  /\ At(r, "key") /\ NextKey(k)
  /\ IF Exists(req[r].b)
     THEN /\ keys' = [keys EXCEPT ![k] = [bucket |-> req[r].b, revoked |-> FALSE]]
          /\ home' = [home EXCEPT ![k] = req[r].b]
     ELSE UNCHANGED <<keys, home>>
  /\ Return(r)
  /\ UNCHANGED <<tokens, buckets, uploads, madeBy>>

CreateAccessKey(r, k) ==
  /\ At(r, "key") /\ NextKey(k)
  /\ IF Active(req[r].b)
     THEN /\ keys' = [keys EXCEPT ![k] = [bucket |-> req[r].b, revoked |-> FALSE]]
          /\ home' = [home EXCEPT ![k] = req[r].b]
     ELSE UNCHANGED <<keys, home>>
  /\ Return(r)
  /\ UNCHANGED <<tokens, buckets, uploads, madeBy>>

RevokeKey(k) ==
  /\ keys[k].bucket # 0
  /\ keys' = [keys EXCEPT ![k].revoked = TRUE]
  /\ UNCHANGED <<tokens, buckets, uploads, req, madeBy, home>>

-----------------------------------------------------------------------------
(* A request signed with a key: it is authenticated, then it reserves. *)

Authenticate(r, k, s) ==
  LET b == keys[k].bucket IN
  /\ At(r, "idle")
  /\ ~keys[k].revoked /\ Active(b) /\ buckets[b].slug = s
  /\ req' = [req EXCEPT ![r] = Local("act", None, s, b, k)]
  /\ UNCHANGED rows

(* Mutant: the bucket is looked up again, by the slug in the path. *)
ReserveBySlug(r) ==
  /\ At(r, "act")
  /\ uploads' = uploads \cup [bucket : {b \in Named(req[r].slug) : Active(b)}, key : {req[r].k}]
  /\ Return(r)
  /\ UNCHANGED <<tokens, buckets, keys, madeBy, home>>

Reserve(r) ==
  /\ At(r, "act")
  /\ uploads' = uploads \cup [bucket : {b \in {req[r].b} : Active(b)}, key : {req[r].k}]
  /\ Return(r)
  /\ UNCHANGED <<tokens, buckets, keys, madeBy, home>>

-----------------------------------------------------------------------------
(* Deletion, accepted and then finished. *)

DeleteStart(r, b) ==
  /\ At(r, "idle") /\ Exists(b)
  /\ req' = [req EXCEPT ![r] = Local("delete", None, None, b, 0)]
  /\ UNCHANGED rows

BeginBucketDeletion(r) ==
  LET b == req[r].b IN
  /\ At(r, "delete")
  /\ IF Active(b)
     THEN /\ buckets' = [buckets EXCEPT ![b].state = "deleting"]
          /\ keys' = [k \in Keys |->
                       IF keys[k].bucket = b THEN [keys[k] EXCEPT !.revoked = TRUE] ELSE keys[k]]
     ELSE UNCHANGED <<buckets, keys>>
  /\ Return(r)
  /\ UNCHANGED <<tokens, uploads, madeBy, home>>

(* Mutant: the keys of the bucket stay behind. *)
FinishKeepsKeys(b) ==
  /\ buckets[b].state = "deleting"
  /\ buckets' = [buckets EXCEPT ![b] = Gone]
  /\ uploads' = {u \in uploads : u.bucket # b}
  /\ UNCHANGED <<tokens, keys, req, madeBy, home>>

FinishBucketDeletion(b) ==
  /\ buckets[b].state = "deleting"
  /\ buckets' = [buckets EXCEPT ![b] = Gone]
  /\ keys' = [k \in Keys |-> IF keys[k].bucket = b THEN NoKey ELSE keys[k]]
  /\ uploads' = {u \in uploads : u.bucket # b}
  /\ UNCHANGED <<tokens, req, madeBy, home>>

(* A query fails, a limit refuses, or the process stops at this point. *)
Fail(r) ==
  /\ ~At(r, "idle")
  /\ Return(r)
  /\ UNCHANGED rows

Next ==
  \/ \E t \in Tokens : CreateBootstrap(t) \/ Expire(t)
  \/ \E r \in Requests, t \in Tokens, s \in Slugs : ClaimInspect(r, t, s)
  \/ \E r \in Requests : ClaimLook(r) \/ ClaimBurn(r)
  \/ \E r \in Requests, b \in Ids : ClaimBucket(r, b) \/ CreateKeyStart(r, b)
                                    \/ DeleteStart(r, b)
  \/ \E b \in Ids, s \in Slugs : AdminBucket(b, s)
  \/ \E r \in Requests, k \in Keys : CreateAccessKey(r, k)
  \/ \E k \in Keys : RevokeKey(k)
  \/ \E r \in Requests, k \in Keys, s \in Slugs : Authenticate(r, k, s)
  \/ \E r \in Requests : Reserve(r) \/ BeginBucketDeletion(r) \/ Fail(r)
  \/ \E b \in Ids : FinishBucketDeletion(b)

Spec == Init /\ [][Next]_vars

-----------------------------------------------------------------------------
(* A bootstrap token is one-time: claims that raced past InspectBootstrap, a *)
(* crash between the steps of one, or the end of an earlier bucket never let *)
(* a token draw a second bucket, or an unspent one draw any.                 *)
OneBucketPerToken ==
  \A t \in Tokens : /\ \A b, c \in Ids : madeBy[b] = t /\ madeBy[c] = t => b = c
                    /\ \A b \in Ids : madeBy[b] = t => tokens[t] = "used"

(* A key that is not revoked opens a bucket that is there and not being      *)
(* deleted: neither a createKey nor a Claim that read the bucket before the  *)
(* deletion was accepted leaves a live key behind it.                        *)
LiveKeysOpenLiveBuckets == \A k \in Keys : ~keys[k].revoked => Active(keys[k].bucket)

(* Whatever a key's holder reserved is in the bucket the key was drawn for,  *)
(* even when the slug of the request has come to name another bucket since.  *)
KeysStayHome == \A u \in uploads : u.bucket = home[u.key]
=============================================================================
