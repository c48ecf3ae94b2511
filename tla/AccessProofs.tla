---------------------------- MODULE AccessProofs ----------------------------
(* That a bootstrap token buys one bucket, that no live key survives the     *)
(* acceptance of its bucket's deletion, and that a key's holder writes only  *)
(* to the bucket the key was drawn for: for any number of handlers, slugs,   *)
(* tokens, buckets and keys.                                                 *)
EXTENDS Access, TLAPS

(* A handler past ClaimBootstrap is the only one its token has, and the      *)
(* token has no bucket yet.                                                  *)
ClaimsAlone ==
  /\ \A r \in Requests : req[r].pc \in {"look", "burn", "bucket"}
                           => req[r].t \in Tokens /\ req[r].slug \in Slugs
  /\ \A r \in Requests : At(r, "bucket")
       => /\ tokens[req[r].t] = "used"
          /\ \A b \in Ids : madeBy[b] # req[r].t
          /\ \A q \in Requests : At(q, "bucket") /\ req[q].t = req[r].t => q = r

(* A credential in hand names the bucket its key was drawn for. *)
CredentialsStayHome ==
  \A r \in Requests : At(r, "act") => req[r].k \in Keys /\ home[req[r].k] = req[r].b
                                      /\ req[r].b \in Ids

IInv == Shape /\ References /\ ClaimsAlone /\ CredentialsStayHome
        /\ OneBucketPerToken /\ LiveKeysOpenLiveBuckets /\ KeysStayHome

USE BoundAssumption, NoneAssumption DEF Ids, Keys, At, Exists, Active

(* The empty tables satisfy the invariant. *)
LEMMA InitIInv == Init => IInv
  BY DEF Init, IInv, Shape, Locals, References, ClaimsAlone, CredentialsStayHome,
         OneBucketPerToken, LiveKeysOpenLiveBuckets, KeysStayHome, Gone, NoKey, Idle, Local

(* A handler at rest has well-typed locals. *)
LEMMA IdleLocals == Idle \in Locals /\ Idle.pc = "idle"
  BY DEF Idle, Local, Locals

(* A handler may read whatever is there and go on, with a credential only if *)
(* the key was drawn for the bucket it names.                                *)
LEMMA StartKeeps ==
  ASSUME IInv, UNCHANGED rows, NEW r \in Requests, NEW l \in Locals,
         req' = [req EXCEPT ![r] = l],
         l.pc \in {"look", "burn"} => l.t \in Tokens /\ l.slug \in Slugs,
         l.pc # "bucket",
         l.pc = "act" => l.k \in Keys /\ home[l.k] = l.b /\ l.b \in Ids
  PROVE  IInv'
<1>1. Shape'
  BY DEF IInv, Shape, rows
<1>2. \A q \in Requests : req'[q] = (IF q = r THEN l ELSE req[q])
  BY DEF IInv, Shape
<1>3. ClaimsAlone' /\ CredentialsStayHome'
  BY <1>2 DEF IInv, ClaimsAlone, CredentialsStayHome, rows
<1>4. References' /\ OneBucketPerToken' /\ LiveKeysOpenLiveBuckets' /\ KeysStayHome'
  BY DEF IInv, References, OneBucketPerToken, LiveKeysOpenLiveBuckets, KeysStayHome, rows
<1> QED BY <1>1, <1>3, <1>4 DEF IInv

(* A handler may return at any point: its locals are all it takes with it. *)
LEMMA ReturnKeeps ==
  ASSUME IInv, NEW r \in Requests, Return(r), UNCHANGED rows
  PROVE  IInv'
  BY IdleLocals, StartKeeps DEF Return

(* A new bucket row takes a slug nobody has and an id nobody had. *)
LEMMA BucketKeeps ==
  ASSUME IInv, NEW b \in Ids, NEW s \in Slugs, NEW m \in Tokens \cup {Admin},
         CreateBucket(b, s, m)
  PROVE  /\ buckets' \in [Ids -> [slug : Slugs \cup {None}, state : {"gone", "active", "deleting"}]]
         /\ madeBy' \in [Ids -> Tokens \cup {Admin, None}]
         /\ References' /\ LiveKeysOpenLiveBuckets' /\ KeysStayHome'
         /\ madeBy[b] = None /\ \A c \in Ids : madeBy'[c] = (IF c = b THEN m ELSE madeBy[c])
<1> DEFINE row == [slug |-> s, state |-> "active"]
<1>1. row \in [slug : Slugs \cup {None}, state : {"gone", "active", "deleting"}]
      /\ row.slug = s /\ row.state = "active"
  OBVIOUS
<1>2. \A c \in Ids : buckets'[c] = (IF c = b THEN row ELSE buckets[c]) /\ buckets[c].slug # s
  BY DEF CreateBucket, Named, IInv, Shape
<1> HIDE DEF row
<1>3. buckets' \in [Ids -> [slug : Slugs \cup {None}, state : {"gone", "active", "deleting"}]]
      /\ madeBy' \in [Ids -> Tokens \cup {Admin, None}]
  BY <1>1 DEF CreateBucket, IInv, Shape, row
<1>4. UNCHANGED <<tokens, keys, uploads, home>>
  BY DEF CreateBucket
<1>5. References'
  <2>1. \A k \in Keys : keys[k].bucket # 0
          => (Exists(keys[k].bucket))' /\ home[k] = keys[k].bucket
    BY <1>1, <1>2, <1>4 DEF IInv, References
  <2>2. \A u \in uploads : (Exists(u.bucket))'
    BY <1>1, <1>2, <1>4 DEF IInv, References
  <2>3. \A c \in Ids : (buckets'[c].slug = None) <=> (buckets'[c].state = "gone")
    BY <1>1, <1>2 DEF IInv, References
  <2>4. \A c, d \in Ids : buckets'[c].slug = buckets'[d].slug /\ (Exists(c))' => c = d
    BY <1>1, <1>2 DEF IInv, References
  <2> QED BY <1>4, <2>1, <2>2, <2>3, <2>4 DEF References
<1>6. LiveKeysOpenLiveBuckets' /\ KeysStayHome'
  BY <1>1, <1>2, <1>4 DEF IInv, LiveKeysOpenLiveBuckets, KeysStayHome
<1>7. madeBy[b] = None /\ \A c \in Ids : madeBy'[c] = (IF c = b THEN m ELSE madeBy[c])
  BY DEF CreateBucket, NextId, IInv, Shape
<1> QED BY <1>3, <1>5, <1>6, <1>7

(* Every step keeps the invariant; one step of the proof per action, and     *)
(* under it one per conjunct the action can disturb.                         *)
LEMMA StepIInv == IInv /\ [Next]_vars => IInv'
<1> SUFFICES ASSUME IInv, [Next]_vars PROVE IInv'
  OBVIOUS
<1>1. ASSUME NEW t \in Tokens, CreateBootstrap(t) PROVE IInv'
  <2>1. \A u \in Tokens : tokens'[u] = (IF u = t THEN "open" ELSE tokens[u])
    BY <1>1 DEF CreateBootstrap, IInv, Shape
  <2>2. Shape'
    BY <1>1 DEF CreateBootstrap, IInv, Shape
  <2>3. OneBucketPerToken'
    BY <1>1, <2>1 DEF CreateBootstrap, IInv, OneBucketPerToken
  <2>4. ClaimsAlone'
    BY <1>1, <2>1 DEF CreateBootstrap, IInv, ClaimsAlone
  <2>5. References' /\ CredentialsStayHome' /\ LiveKeysOpenLiveBuckets' /\ KeysStayHome'
    BY <1>1 DEF CreateBootstrap, IInv, References, CredentialsStayHome, LiveKeysOpenLiveBuckets, KeysStayHome
  <2> QED BY <2>2, <2>3, <2>4, <2>5 DEF IInv
<1>2. ASSUME NEW t \in Tokens, Expire(t) PROVE IInv'
  <2>1. \A u \in Tokens : tokens'[u] = (IF u = t THEN "expired" ELSE tokens[u])
    BY <1>2 DEF Expire, IInv, Shape
  <2>2. Shape'
    BY <1>2 DEF Expire, IInv, Shape
  <2>3. OneBucketPerToken'
    BY <1>2, <2>1 DEF Expire, IInv, OneBucketPerToken
  <2>4. ClaimsAlone'
    BY <1>2, <2>1 DEF Expire, IInv, ClaimsAlone
  <2>5. References' /\ CredentialsStayHome' /\ LiveKeysOpenLiveBuckets' /\ KeysStayHome'
    BY <1>2 DEF Expire, IInv, References, CredentialsStayHome, LiveKeysOpenLiveBuckets, KeysStayHome
  <2> QED BY <2>2, <2>3, <2>4, <2>5 DEF IInv
<1>3. ASSUME NEW r \in Requests, NEW t \in Tokens, NEW s \in Slugs, ClaimInspect(r, t, s)
      PROVE IInv'
  <2>1. CASE tokens[t] = "open"
    <3> DEFINE l == Local("look", t, s, 0, 0)
    <3>1. l \in Locals /\ l.pc = "look" /\ l.t = t /\ l.slug = s
      BY DEF Idle, Local, Locals
    <3> QED BY <1>3, <2>1, <3>1, StartKeeps DEF ClaimInspect
  <2>2. CASE tokens[t] # "open"
    BY <1>3, <2>2, ReturnKeeps DEF ClaimInspect
  <2> QED BY <2>1, <2>2
<1>4. ASSUME NEW r \in Requests, ClaimLook(r) PROVE IInv'
  <2>1. CASE Goto(r, "burn")
    <3> DEFINE l == [req[r] EXCEPT !.pc = "burn"]
    <3>1. req[r] \in Locals
      BY DEF IInv, Shape
    <3>2. l \in Locals /\ l.pc = "burn" /\ l.t = req[r].t /\ l.slug = req[r].slug
      BY <3>1 DEF Locals
    <3>3. req' = [req EXCEPT ![r] = l]
      BY <2>1 DEF Goto
    <3> QED BY <1>4, <3>2, <3>3, StartKeeps DEF ClaimLook, IInv, ClaimsAlone
  <2>2. CASE Return(r)
    BY <1>4, <2>2, ReturnKeeps DEF ClaimLook
  <2> QED BY <1>4, <2>1, <2>2 DEF ClaimLook
<1>5. ASSUME NEW r \in Requests, ClaimBurn(r) PROVE IInv'
  <2>1. CASE tokens[req[r].t] = "open"
    <3> DEFINE l == [req[r] EXCEPT !.pc = "bucket"]
    <3>1. req[r] \in Locals /\ req[r].t \in Tokens /\ req[r].slug \in Slugs
      BY <1>5 DEF ClaimBurn, IInv, Shape, ClaimsAlone
    <3>2. l \in Locals /\ l.pc = "bucket" /\ l.t = req[r].t /\ l.slug = req[r].slug
      BY <3>1 DEF Locals
    <3>3. req' = [req EXCEPT ![r] = l] /\ tokens' = [tokens EXCEPT ![req[r].t] = "used"]
          /\ UNCHANGED <<buckets, keys, uploads, madeBy, home>>
      BY <1>5, <2>1 DEF ClaimBurn, Goto
    <3> HIDE DEF l
    <3>4. \A q \in Requests : req'[q] = (IF q = r THEN l ELSE req[q])
      BY <3>3 DEF IInv, Shape
    <3>5. Shape'
      BY <3>1, <3>2, <3>3 DEF IInv, Shape
    <3>6. ClaimsAlone'
      BY <2>1, <3>1, <3>2, <3>3, <3>4 DEF IInv, Shape, ClaimsAlone, OneBucketPerToken
    <3>7. CredentialsStayHome'
      BY <3>2, <3>3, <3>4 DEF IInv, CredentialsStayHome
    <3>8. References' /\ LiveKeysOpenLiveBuckets' /\ KeysStayHome'
      BY <3>3 DEF IInv, References, LiveKeysOpenLiveBuckets, KeysStayHome
    <3>9. OneBucketPerToken'
      BY <3>1, <3>3 DEF IInv, Shape, OneBucketPerToken
    <3> QED BY <3>5, <3>6, <3>7, <3>8, <3>9 DEF IInv
  <2>2. CASE tokens[req[r].t] # "open"
    BY <1>5, <2>2, ReturnKeeps DEF ClaimBurn, rows
  <2> QED BY <2>1, <2>2
<1>6. ASSUME NEW r \in Requests, NEW b \in Ids, ClaimBucket(r, b) PROVE IInv'
  <2> DEFINE l == Local("key", None, None, b, 0)
  <2>1. l \in Locals /\ l.pc = "key"
    BY DEF Idle, Local, Locals
  <2>2. At(r, "bucket") /\ CreateBucket(b, req[r].slug, req[r].t) /\ req' = [req EXCEPT ![r] = l]
    BY <1>6 DEF ClaimBucket
  <2> HIDE DEF l
  <2>3. req[r].t \in Tokens /\ req[r].slug \in Slugs /\ tokens[req[r].t] = "used"
    BY <2>2 DEF IInv, ClaimsAlone
  <2>4. UNCHANGED <<tokens, keys, uploads, home>>
    BY <2>2 DEF CreateBucket
  <2>5. \A q \in Requests : req'[q] = (IF q = r THEN l ELSE req[q])
    BY <2>2 DEF IInv, Shape
  <2>6. Shape' /\ References' /\ LiveKeysOpenLiveBuckets' /\ KeysStayHome'
    BY <2>1, <2>2, <2>3, <2>4, BucketKeeps DEF IInv, Shape
  <2>7. ClaimsAlone'
    BY <2>1, <2>2, <2>3, <2>4, <2>5, BucketKeeps DEF IInv, ClaimsAlone
  <2>8. CredentialsStayHome'
    BY <2>1, <2>4, <2>5 DEF IInv, CredentialsStayHome
  <2>9. OneBucketPerToken'
    BY <2>2, <2>3, <2>4, BucketKeeps DEF IInv, ClaimsAlone, OneBucketPerToken
  <2> QED BY <2>6, <2>7, <2>8, <2>9 DEF IInv
<1>7. ASSUME NEW b \in Ids, NEW s \in Slugs, AdminBucket(b, s) PROVE IInv'
  <2>1. CreateBucket(b, s, Admin) /\ UNCHANGED <<tokens, keys, uploads, home, req>>
    BY <1>7 DEF AdminBucket, CreateBucket
  <2>2. Shape' /\ References' /\ LiveKeysOpenLiveBuckets' /\ KeysStayHome'
    BY <2>1, BucketKeeps DEF IInv, Shape
  <2>3. \A c \in Ids : madeBy'[c] \in Tokens => madeBy'[c] = madeBy[c]
    BY <2>1, BucketKeeps
  <2>4. ClaimsAlone'
    BY <2>1, <2>3 DEF IInv, ClaimsAlone
  <2>5. CredentialsStayHome'
    BY <2>1 DEF IInv, CredentialsStayHome
  <2>6. OneBucketPerToken'
    BY <2>1, <2>3 DEF IInv, OneBucketPerToken
  <2> QED BY <2>2, <2>4, <2>5, <2>6 DEF IInv
<1>8. ASSUME NEW r \in Requests, NEW b \in Ids, CreateKeyStart(r, b) \/ DeleteStart(r, b)
      PROVE IInv'
  <2>1. ASSUME NEW pc \in {"key", "delete"}, UNCHANGED rows,
               req' = [req EXCEPT ![r] = Local(pc, None, None, b, 0)]
        PROVE  IInv'
    <3> DEFINE l == Local(pc, None, None, b, 0)
    <3>1. l \in Locals /\ l.pc = pc
      BY DEF Idle, Local, Locals
    <3> QED BY <2>1, <3>1, StartKeeps
  <2> QED BY <1>8, <2>1 DEF CreateKeyStart, DeleteStart
<1>9. ASSUME NEW r \in Requests, NEW k \in Keys, CreateAccessKey(r, k) PROVE IInv'
  <2> DEFINE key == [bucket |-> req[r].b, revoked |-> FALSE]
  <2>1. CASE Active(req[r].b)
    <3>1. keys' = [keys EXCEPT ![k] = key] /\ home' = [home EXCEPT ![k] = req[r].b]
          /\ home[k] = 0 /\ Return(r) /\ UNCHANGED <<tokens, buckets, uploads, madeBy>>
      BY <1>9, <2>1 DEF CreateAccessKey, NextKey
    <3>2. req[r].b \in Ids /\ key \in [bucket : 0..MaxBuckets, revoked : BOOLEAN]
          /\ key.bucket = req[r].b /\ ~key.revoked
      BY <2>1
    <3> HIDE DEF key
    <3>3. \A j \in Keys : /\ keys'[j] = (IF j = k THEN key ELSE keys[j])
                           /\ home'[j] = (IF j = k THEN req[r].b ELSE home[j])
      BY <3>1 DEF IInv, Shape
    <3>4. \A q \in Requests : req'[q] = (IF q = r THEN Idle ELSE req[q])
      BY <3>1 DEF Return, IInv, Shape
    <3>5. Shape'
      BY <3>1, <3>2, IdleLocals DEF Return, IInv, Shape
    <3>6. References'
      BY <2>1, <3>1, <3>2, <3>3 DEF IInv, References
    <3>7. ClaimsAlone' /\ OneBucketPerToken'
      BY <3>1, <3>4, IdleLocals DEF IInv, ClaimsAlone, OneBucketPerToken
    <3>8. CredentialsStayHome'
      BY <3>1, <3>3, <3>4, IdleLocals DEF IInv, CredentialsStayHome
    <3>9. LiveKeysOpenLiveBuckets'
      BY <2>1, <3>1, <3>2, <3>3 DEF IInv, LiveKeysOpenLiveBuckets
    <3>10. KeysStayHome'
      BY <3>1, <3>3 DEF IInv, Shape, KeysStayHome
    <3> QED BY <3>5, <3>6, <3>7, <3>8, <3>9, <3>10 DEF IInv
  <2>2. CASE ~Active(req[r].b)
    BY <1>9, <2>2, ReturnKeeps DEF CreateAccessKey, rows
  <2> QED BY <2>1, <2>2
<1>10. ASSUME NEW k \in Keys, RevokeKey(k) PROVE IInv'
  <2>1. \A j \in Keys : keys'[j].bucket = keys[j].bucket /\ (keys[j].revoked => keys'[j].revoked)
    BY <1>10 DEF RevokeKey, IInv, Shape
  <2>2. UNCHANGED <<tokens, buckets, uploads, req, madeBy, home>>
    BY <1>10 DEF RevokeKey
  <2>3. Shape'
    BY <1>10 DEF RevokeKey, IInv, Shape
  <2>4. References' /\ LiveKeysOpenLiveBuckets'
    BY <2>1, <2>2 DEF IInv, References, LiveKeysOpenLiveBuckets
  <2>5. ClaimsAlone' /\ CredentialsStayHome' /\ OneBucketPerToken' /\ KeysStayHome'
    BY <2>2 DEF IInv, ClaimsAlone, CredentialsStayHome, OneBucketPerToken, KeysStayHome
  <2> QED BY <2>3, <2>4, <2>5 DEF IInv
<1>11. ASSUME NEW r \in Requests, NEW k \in Keys, NEW s \in Slugs, Authenticate(r, k, s)
       PROVE IInv'
  <2> DEFINE l == Local("act", None, s, keys[k].bucket, k)
  <2>1. keys[k].bucket \in Ids /\ home[k] = keys[k].bucket
    BY <1>11 DEF Authenticate, IInv, References
  <2>2. l \in Locals /\ l.pc = "act" /\ l.k = k /\ l.b = keys[k].bucket
    BY <2>1 DEF Local, Locals
  <2>3. req' = [req EXCEPT ![r] = l] /\ UNCHANGED rows
    BY <1>11 DEF Authenticate
  <2> HIDE DEF l
  <2> QED BY <2>1, <2>2, <2>3, StartKeeps
<1>12. ASSUME NEW r \in Requests, Reserve(r) PROVE IInv'
  <2>1. Return(r) /\ UNCHANGED <<tokens, buckets, keys, madeBy, home>>
    BY <1>12 DEF Reserve
  <2>2. req[r].k \in Keys /\ home[req[r].k] = req[r].b
    BY <1>12 DEF Reserve, IInv, CredentialsStayHome
  <2>3. \A u \in uploads' :
          \/ u \in uploads
          \/ /\ u \in [bucket : Ids, key : Keys] /\ u.bucket = req[r].b
             /\ u.key = req[r].k /\ Active(u.bucket)
    <3> DEFINE B == {b \in {req[r].b} : Active(b)}
    <3>1. uploads' = uploads \cup [bucket : B, key : {req[r].k}]
      BY <1>12 DEF Reserve
    <3>2. \A b \in B : b = req[r].b /\ b \in Ids /\ Active(b)
      OBVIOUS
    <3> HIDE DEF B
    <3>3. ASSUME NEW u \in [bucket : B, key : {req[r].k}]
          PROVE  /\ u \in [bucket : Ids, key : Keys] /\ u.bucket = req[r].b
                 /\ u.key = req[r].k /\ Active(u.bucket)
      <4>1. u = [bucket |-> u.bucket, key |-> u.key] /\ u.bucket \in B /\ u.key = req[r].k
        OBVIOUS
      <4> QED BY <2>2, <3>2, <4>1
    <3> QED BY <3>1, <3>3
  <2>4. \A q \in Requests : req'[q] = (IF q = r THEN Idle ELSE req[q])
    BY <2>1 DEF Return, IInv, Shape
  <2>5. Shape'
    <3>1. uploads' \subseteq [bucket : Ids, key : Keys]
      BY <2>3 DEF IInv, Shape
    <3>2. req' \in [Requests -> Locals]
      BY <2>1, IdleLocals DEF Return, IInv, Shape
    <3> QED BY <2>1, <3>1, <3>2 DEF IInv, Shape
  <2>6. References'
    BY <2>1, <2>3 DEF IInv, References
  <2>7. ClaimsAlone' /\ CredentialsStayHome' /\ OneBucketPerToken'
    BY <2>1, <2>4, IdleLocals DEF IInv, ClaimsAlone, CredentialsStayHome, OneBucketPerToken
  <2>8. LiveKeysOpenLiveBuckets' /\ KeysStayHome'
    BY <2>1, <2>2, <2>3 DEF IInv, LiveKeysOpenLiveBuckets, KeysStayHome
  <2> QED BY <2>5, <2>6, <2>7, <2>8 DEF IInv
<1>13. ASSUME NEW r \in Requests, BeginBucketDeletion(r) PROVE IInv'
  <2> DEFINE b == req[r].b
  <2>1. CASE Active(b)
    <3>1. /\ buckets' = [buckets EXCEPT ![b].state = "deleting"]
          /\ keys' = [k \in Keys |->
                       IF keys[k].bucket = b THEN [keys[k] EXCEPT !.revoked = TRUE] ELSE keys[k]]
          /\ Return(r) /\ UNCHANGED <<tokens, uploads, madeBy, home>>
      BY <1>13, <2>1 DEF BeginBucketDeletion
    <3> HIDE DEF b
    <3>2. \A c \in Ids : /\ buckets'[c].slug = buckets[c].slug
                         /\ buckets'[c].state = (IF c = b THEN "deleting" ELSE buckets[c].state)
      BY <2>1, <3>1 DEF IInv, Shape
    <3>3. \A k \in Keys : /\ keys'[k].bucket = keys[k].bucket
                          /\ ~keys'[k].revoked => ~keys[k].revoked /\ keys[k].bucket # b
      BY <3>1 DEF IInv, Shape
    <3>4. \A q \in Requests : req'[q] = (IF q = r THEN Idle ELSE req[q])
      BY <3>1 DEF Return, IInv, Shape
    <3>5. Shape'
      <4>1. buckets' \in [Ids -> [slug : Slugs \cup {None}, state : {"gone", "active", "deleting"}]]
        <5>1. buckets[b] \in [slug : Slugs \cup {None}, state : {"gone", "active", "deleting"}]
          BY <2>1 DEF IInv, Shape, b
        <5>2. [buckets[b] EXCEPT !.state = "deleting"]
                \in [slug : Slugs \cup {None}, state : {"gone", "active", "deleting"}]
          BY <5>1
        <5> QED BY <3>1, <5>2 DEF IInv, Shape
      <4>2. keys' \in [Keys -> [bucket : 0..MaxBuckets, revoked : BOOLEAN]]
        <5>1. \A k \in Keys : [keys[k] EXCEPT !.revoked = TRUE] \in [bucket : 0..MaxBuckets, revoked : BOOLEAN]
          BY DEF IInv, Shape
        <5> QED BY <3>1, <5>1 DEF IInv, Shape
      <4> QED BY <3>1, <4>1, <4>2, IdleLocals DEF Return, IInv, Shape
    <3>6. References'
      BY <2>1, <3>1, <3>2, <3>3 DEF IInv, References
    <3>7. ClaimsAlone' /\ OneBucketPerToken'
      BY <3>1, <3>4, IdleLocals DEF IInv, ClaimsAlone, OneBucketPerToken
    <3>8. CredentialsStayHome' /\ KeysStayHome'
      BY <3>1, <3>4, IdleLocals DEF IInv, CredentialsStayHome, KeysStayHome
    <3>9. LiveKeysOpenLiveBuckets'
      BY <3>2, <3>3 DEF IInv, LiveKeysOpenLiveBuckets
    <3> QED BY <3>5, <3>6, <3>7, <3>8, <3>9 DEF IInv
  <2>2. CASE ~Active(b)
    BY <1>13, <2>2, ReturnKeeps DEF BeginBucketDeletion, rows
  <2> QED BY <2>1, <2>2
<1>14. ASSUME NEW b \in Ids, FinishBucketDeletion(b) PROVE IInv'
  <2>1. /\ buckets' = [buckets EXCEPT ![b] = Gone]
        /\ keys' = [k \in Keys |-> IF keys[k].bucket = b THEN NoKey ELSE keys[k]]
        /\ uploads' = {u \in uploads : u.bucket # b}
        /\ UNCHANGED <<tokens, req, madeBy, home>>
    BY <1>14 DEF FinishBucketDeletion
  <2>2. \A c \in Ids : buckets'[c] = (IF c = b THEN Gone ELSE buckets[c])
    BY <2>1 DEF IInv, Shape
  <2>3. Gone.slug = None /\ Gone.state = "gone" /\ NoKey.bucket = 0 /\ NoKey.revoked
    BY DEF Gone, NoKey
  <2>4. \A k \in Keys : keys'[k] = (IF keys[k].bucket = b THEN NoKey ELSE keys[k])
    BY <2>1
  <2>5. Shape'
    BY <2>1 DEF IInv, Shape, Gone, NoKey
  <2>6. References'
    BY <2>1, <2>2, <2>3, <2>4 DEF IInv, References
  <2>7. LiveKeysOpenLiveBuckets'
    BY <2>1, <2>2, <2>3, <2>4 DEF IInv, LiveKeysOpenLiveBuckets
  <2>8. ClaimsAlone' /\ CredentialsStayHome' /\ OneBucketPerToken' /\ KeysStayHome'
    BY <2>1 DEF IInv, ClaimsAlone, CredentialsStayHome, OneBucketPerToken, KeysStayHome
  <2> QED BY <2>5, <2>6, <2>7, <2>8 DEF IInv
<1>15. ASSUME NEW r \in Requests, Fail(r) PROVE IInv'
  BY <1>15, ReturnKeeps DEF Fail
<1>16. CASE UNCHANGED vars
  <2>1. Shape' /\ ClaimsAlone' /\ CredentialsStayHome' /\ OneBucketPerToken'
    BY <1>16 DEF vars, IInv, Shape, ClaimsAlone, CredentialsStayHome, OneBucketPerToken
  <2>2. References' /\ LiveKeysOpenLiveBuckets' /\ KeysStayHome'
    BY <1>16 DEF vars, IInv, References, LiveKeysOpenLiveBuckets, KeysStayHome
  <2> QED BY <2>1, <2>2 DEF IInv
<1> QED
  BY <1>1, <1>2, <1>3, <1>4, <1>5, <1>6, <1>7, <1>8, <1>9, <1>10, <1>11, <1>12, <1>13, <1>14,
     <1>15, <1>16 DEF Next

(* A bootstrap token draws at most one bucket, and only once it is spent,    *)
(* however many claims race for it and wherever they fail.                   *)
THEOREM OneTokenOneBucket == Spec => []OneBucketPerToken
<1>1. IInv => OneBucketPerToken
  BY DEF IInv
<1> QED BY <1>1, InitIInv, StepIInv, PTL DEF Spec

(* No live key is left to a bucket whose deletion has been accepted          *)
(* (BeginBucketDeletion deletes the keys, CreateAccessKey asks the bucket).  *)
THEOREM KeysFollowTheirBucket == Spec => []LiveKeysOpenLiveBuckets
<1>1. IInv => LiveKeysOpenLiveBuckets
  BY DEF IInv
<1> QED BY <1>1, InitIInv, StepIInv, PTL DEF Spec

(* What a key's holder reserves is in the bucket the key was drawn for       *)
(* (Authenticate, ReserveObject).                                            *)
THEOREM KeysStayAtHome == Spec => []KeysStayHome
<1>1. IInv => KeysStayHome
  BY DEF IInv
<1> QED BY <1>1, InitIInv, StepIInv, PTL DEF Spec

(* Type correctness, with the references between the tables. *)
THEOREM AccessTypeCorrect == Spec => []TypeOK
<1>1. IInv => TypeOK
  BY DEF IInv, TypeOK
<1> QED BY <1>1, InitIInv, StepIInv, PTL DEF Spec
=============================================================================
