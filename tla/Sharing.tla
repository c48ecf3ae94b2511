------------------------------- MODULE Sharing -------------------------------
(***************************************************************************)
(* How the objects of one bucket are handed out: presigned URLs, download   *)
(* tokens of relayed sources, and the stable public aliases that redirect   *)
(* to either, against the commits, deletes and rotations of the objects.    *)
(*                                                                          *)
(* The operations that write one object take turns here (their races, and   *)
(* the failures of their undo steps, are in Objects); everything that reads *)
(* or shares it may come between any two of their steps.  The lock and the  *)
(* sweep of a deletion are in BucketDeletion.  Capabilities never expire:   *)
(* an expired one reads nothing.                                            *)
(***************************************************************************)
EXTENDS Naturals, FiniteSets

CONSTANTS
  Keys,      \* logical keys
  Slugs,     \* slugs of public aliases, drawn at random
  Requests,
  Kinds,     \* kinds of source: TRUE for WebDAV, whose downloads are relayed
  MaxFiles,  \* bound: physical keys in use or remembered
  MaxCaps,   \* bound: different capabilities handed out
  None

ASSUME SharingAssumption == Kinds \subseteq BOOLEAN /\ MaxFiles \in Nat /\ MaxCaps \in Nat
                          /\ None \notin Keys \cup Slugs

VARIABLES
  relayed,  \* the kind of the source
  bucket,   \* "public", "private", "deleting" or "gone"
  objects,  \* objects rows: their id and physical key
  files,    \* the source: which object's bytes a physical key holds, 0 for none
  links,    \* public_links rows; an expired link counts as revoked
  tokens,   \* transfer_tokens rows
  caps,     \* URLs handed out, each with the alias it was handed out through
  write,    \* the commit, delete or rotation at work on a key
  req,      \* locals of the handlers that share
  aim,      \* history: the object an alias was asked for
  retired   \* history: capabilities that a delete or rotation withdrew

vars == <<relayed, bucket, objects, files, links, tokens, caps, write, req,
          aim, retired>>

Files == 1..MaxFiles
NoObject == [id |-> 0, phys |-> 0]
NoLink == [obj |-> 0, live |-> FALSE]
Still == [op |-> "none", next |-> 0, old |-> 0, seen |-> {}]
Row == [id : 0..MaxFiles, phys : 0..MaxFiles]
Local(op, k, s, o, pub) == [op |-> op, key |-> k, slug |-> s, o |-> o, public |-> pub]
Idle == Local("idle", None, None, NoObject, FALSE)
Caps == [via : Slugs \cup {None}, obj : Files, phys : Files]

Exists(id) == \E k \in Keys : objects[k].id = id
RowOf(id) == objects[CHOOSE k \in Keys : objects[k].id = id]
Active == bucket \in {"public", "private"}

(* Physical keys are drawn fresh (UnixNano) and an object's id from its     *)
(* first upload's, so the number of that upload's key serves for both.      *)
Drawn == {objects[k].phys : k \in Keys} \cup {write[k].next : k \in Keys}
           \cup {write[k].old : k \in Keys}
           \cup {c.phys : c \in caps} \cup {f \in Files : files[f] # 0}
           \cup {objects[k].id : k \in Keys} \cup {links[s].obj : s \in Slugs}
           \cup {req[r].o.phys : r \in Requests} \cup {req[r].o.id : r \in Requests}
           \cup {aim[s] : s \in Slugs} \cup {c.obj : c \in caps}
Fresh(f) == f \in Files \ Drawn /\ \A g \in Files \ Drawn : f <= g
NewId(k, f) == IF objects[k] = NoObject THEN f ELSE objects[k].id

Init ==
  /\ relayed \in Kinds
  /\ bucket \in {"public", "private"}
  /\ objects = [k \in Keys |-> NoObject]
  /\ files = [f \in Files |-> 0]
  /\ links = [s \in Slugs |-> NoLink]
  /\ tokens = {} /\ caps = {} /\ retired = {}
  /\ write = [k \in Keys |-> Still]
  /\ req = [r \in Requests |-> Idle]
  /\ aim = [s \in Slugs |-> 0]

------------------------------------------------------------------------------
(* The writers of an object. *)

(* Mutant: a final key without its generation, the same for every version. *)
CommitUploadOneKey(k) ==
  /\ Active /\ write[k] = Still
  /\ \E f \in Files : Fresh(f) /\ LET id == NewId(k, f) IN
       /\ files' = [files EXCEPT ![1] = id]
       /\ objects' = [objects EXCEPT ![k] = [id |-> id, phys |-> 1]]
  /\ UNCHANGED <<bucket, links, tokens, caps, write, req, aim, retired>>

(* CommitUpload: the promoted copy, the row, then the old physical key,     *)
(* whose deletion may fail.                                                 *)
CommitUpload(k) ==
  /\ Active /\ write[k] = Still
  /\ \E f \in Files : Fresh(f) /\ LET id == NewId(k, f) IN
       /\ files' = [files EXCEPT ![f] = id]
       /\ objects' = [objects EXCEPT ![k] = [id |-> id, phys |-> f]]
       /\ write' = [write EXCEPT ![k] = IF objects[k] = NoObject THEN Still
                      ELSE [Still EXCEPT !.op = "replace", !.old = objects[k].phys]]
  /\ UNCHANGED <<bucket, links, tokens, caps, req, aim, retired>>

CommitDeleteOld(k) ==
  /\ write[k].op = "replace"
  /\ write' = [write EXCEPT ![k] = Still]
  /\ files' \in {files, [files EXCEPT ![write[k].old] = 0]}
  /\ UNCHANGED <<bucket, objects, links, tokens, caps, req, aim, retired>>

(* The capabilities that name the bytes a key maps to now. *)
Naming(k) == {c \in caps : c.obj = objects[k].id /\ c.phys = objects[k].phys}

Begin(k, op, next) ==
  /\ Active /\ write[k] = Still /\ objects[k] # NoObject
  /\ write' = [write EXCEPT ![k] =
       [op |-> op, next |-> next, old |-> objects[k].phys, seen |-> Naming(k)]]

(* Delete: the physical key, then the row with what refers to it. *)
DeletePhysical(k) ==
  /\ Begin(k, "delete", 0)
  /\ files' = [files EXCEPT ![objects[k].phys] = 0]
  /\ UNCHANGED <<bucket, objects, links, tokens, caps, req, aim, retired>>

(* Mutant: the row alone is deleted, and foreign keys are not enforced. *)
DeleteObjectAlone(k) ==
  /\ write[k].op = "delete"
  /\ objects' = [objects EXCEPT ![k] = NoObject]
  /\ retired' = retired \cup write[k].seen
  /\ write' = [write EXCEPT ![k] = Still]
  /\ UNCHANGED <<bucket, files, links, tokens, caps, req, aim>>

DeleteObject(k) ==
  /\ write[k].op = "delete"
  /\ objects' = [objects EXCEPT ![k] = NoObject]
  /\ links' = [s \in Slugs |-> IF links[s].obj = objects[k].id THEN NoLink ELSE links[s]]
  /\ tokens' = {t \in tokens : t.obj # objects[k].id}
  /\ retired' = retired \cup write[k].seen
  /\ write' = [write EXCEPT ![k] = Still]
  /\ UNCHANGED <<bucket, files, caps, req, aim>>

(* RotateObjectKey: copy, delete the old key, switch the row. *)
RotateCopy(k) ==
  /\ \E f \in Files : /\ Fresh(f) /\ Begin(k, "copied", f)
                      /\ files' = [files EXCEPT ![f] = files[objects[k].phys]]
  /\ files[objects[k].phys] # 0
  /\ UNCHANGED <<bucket, objects, links, tokens, caps, req, aim, retired>>

(* Mutant: the old key is left to a later sweep. *)
RotateDeleteLater(k) ==
  /\ write[k].op = "copied"
  /\ write' = [write EXCEPT ![k].op = "deleted"]
  /\ UNCHANGED <<bucket, objects, files, links, tokens, caps, req, aim, retired>>

RotateDelete(k) ==
  /\ write[k].op = "copied"
  /\ files' = [files EXCEPT ![write[k].old] = 0]
  /\ write' = [write EXCEPT ![k].op = "deleted"]
  /\ UNCHANGED <<bucket, objects, links, tokens, caps, req, aim, retired>>

RotatePhysicalKey(k) ==
  /\ write[k].op = "deleted"
  /\ objects' = [objects EXCEPT ![k].phys = write[k].next]
  /\ retired' = retired \cup write[k].seen
  /\ write' = [write EXCEPT ![k] = Still]
  /\ UNCHANGED <<bucket, files, links, tokens, caps, req, aim>>

(* The row switch fails: the old key is restored, and nothing is withdrawn. *)
RotateRestore(k) ==
  /\ write[k].op = "deleted"
  /\ files' = [files EXCEPT ![write[k].old] = files[write[k].next], ![write[k].next] = 0]
  /\ write' = [write EXCEPT ![k] = Still]
  /\ UNCHANGED <<bucket, objects, links, tokens, caps, req, aim, retired>>

(* A provider call or a transaction fails, or the server stops: what was    *)
(* done before stays done.  The row is kept, so the call can be repeated.   *)
GiveUp(k) ==
  /\ write[k].op \in {"delete", "copied", "deleted"}
  /\ write' = [write EXCEPT ![k] = Still]
  /\ UNCHANGED <<bucket, objects, files, links, tokens, caps, req, aim, retired>>

------------------------------------------------------------------------------
(* The handlers that share. *)

Step(r, l) == req' = [req EXCEPT ![r] = l]

(* Mutant: CreateDownloadToken finds the object by its key, not by its id. *)
HandByKey(o, via) ==
  \E k \in Keys :
    LET c == [via |-> via, obj |-> objects[k].id, phys |-> objects[k].phys]
    IN  /\ objects[k] # NoObject
        /\ caps' = caps \cup {c} /\ Cardinality(caps') <= MaxCaps
        /\ tokens' = tokens \cup {c}

(* The capability for object id whose row read o: an S3 URL names the       *)
(* physical key the handler read, CreateDownloadToken reads the row again,  *)
(* and inserts nothing when it is gone.                                     *)
Hand(o, via) ==
  LET phys == IF relayed /\ Exists(o.id) THEN RowOf(o.id).phys ELSE o.phys
      c == [via |-> via, obj |-> o.id, phys |-> phys]
  IN  /\ caps' = caps \cup {c} /\ Cardinality(caps') <= MaxCaps
      /\ tokens' = IF relayed /\ Exists(o.id) THEN tokens \cup {c} ELSE tokens

(* Authentication reads the bucket, BucketOperation checks it again, and    *)
(* GetObject reads the row: the visibility used later is the first one.     *)
Authenticate(r) ==
  /\ req[r] = Idle /\ Active
  /\ \E k \in Keys, op \in {"link", "download"} :
       Step(r, Local(op, k, None, NoObject, bucket = "public"))
  /\ UNCHANGED <<bucket, objects, files, links, tokens, caps, write, aim, retired>>

GetObject(r) ==
  /\ req[r].op \in {"link", "download"} /\ req[r].o = NoObject
  /\ IF Active /\ objects[req[r].key] # NoObject /\ (req[r].op = "link" => req[r].public)
       THEN Step(r, [req[r] EXCEPT !.o = objects[req[r].key]])
       ELSE Step(r, Idle)
  /\ UNCHANGED <<bucket, objects, files, links, tokens, caps, write, aim, retired>>

DownloadURL(r) ==
  /\ req[r].op = "download" /\ req[r].o # NoObject
  /\ Hand(req[r].o, None)
  /\ Step(r, Idle)
  /\ UNCHANGED <<bucket, objects, files, links, write, aim, retired>>

(* NewPublicLink signs first and inserts the alias afterwards. *)
NewPublicLink(r) ==
  /\ req[r].op = "link" /\ req[r].o # NoObject
  /\ \E s \in Slugs :
       /\ aim[s] = 0
       /\ aim' = [aim EXCEPT ![s] = req[r].o.id]
       /\ Step(r, [req[r] EXCEPT !.op = "insert", !.slug = s])
  /\ Hand(req[r].o, None)
  /\ UNCHANGED <<bucket, objects, files, links, write, retired>>

(* Mutant: foreign keys are not enforced. *)
CreatePublicLinkAnyway(r) ==
  /\ req[r].op = "insert"
  /\ links' = [links EXCEPT ![req[r].slug] = [obj |-> req[r].o.id, live |-> TRUE]]
  /\ Step(r, Idle)
  /\ UNCHANGED <<bucket, objects, files, tokens, caps, write, aim, retired>>

(* The foreign key refuses an alias of an object that is gone. *)
CreatePublicLink(r) ==
  /\ req[r].op = "insert"
  /\ links' = IF Exists(req[r].o.id)
                THEN [links EXCEPT ![req[r].slug] = [obj |-> req[r].o.id, live |-> TRUE]]
                ELSE links
  /\ Step(r, Idle)
  /\ UNCHANGED <<bucket, objects, files, tokens, caps, write, aim, retired>>

RevokePublicLink(s) ==
  /\ links[s].live
  /\ links' = [links EXCEPT ![s].live = FALSE]
  /\ UNCHANGED <<bucket, objects, files, tokens, caps, write, req, aim, retired>>

Resolvable(s) == links[s].live /\ bucket = "public" /\ Exists(links[s].obj)

PublicObject(r, s) ==
  /\ req[r] = Idle /\ Resolvable(s)
  /\ Step(r, Local("resolve", None, s, RowOf(links[s].obj), TRUE))
  /\ UNCHANGED <<bucket, objects, files, links, tokens, caps, write, aim, retired>>

(* BucketOperation refuses a bucket that is being deleted; no one asks the  *)
(* alias or the visibility again.                                           *)
ResolvePublic(r) ==
  /\ req[r].op = "resolve"
  /\ IF Active THEN Hand(req[r].o, req[r].slug) ELSE UNCHANGED <<caps, tokens>>
  /\ Step(r, Idle)
  /\ UNCHANGED <<bucket, objects, files, links, write, aim, retired>>

UpdateBucket ==
  /\ Active
  /\ bucket' \in {"public", "private"} \ {bucket}
  /\ UNCHANGED <<objects, files, links, tokens, caps, write, req, aim, retired>>

BeginBucketDeletion ==
  /\ Active
  /\ bucket' = "deleting"
  /\ links' = [s \in Slugs |-> [links[s] EXCEPT !.live = FALSE]]
  /\ UNCHANGED <<objects, files, tokens, caps, write, req, aim, retired>>

(* The sweep and the final transaction, behind the bucket lock: no writer   *)
(* and no handler that has read a row under the lock is left.               *)
FinishBucketDeletion ==
  /\ bucket = "deleting"
  /\ \A k \in Keys : write[k] = Still
  /\ \A r \in Requests : req[r].op = "resolve" \/ req[r].o = NoObject
  /\ bucket' = "gone"
  /\ files' = [f \in Files |-> 0]
  /\ objects' = [k \in Keys |-> NoObject]
  /\ links' = [s \in Slugs |-> NoLink]
  /\ tokens' = {}
  /\ UNCHANGED <<caps, write, req, aim, retired>>

Change ==
  \/ \E k \in Keys :
       \/ CommitUpload(k) \/ CommitDeleteOld(k) \/ DeletePhysical(k) \/ DeleteObject(k)
       \/ RotateCopy(k) \/ RotateDelete(k) \/ RotatePhysicalKey(k) \/ RotateRestore(k)
       \/ GiveUp(k)
  \/ \E r \in Requests :
       \/ Authenticate(r) \/ GetObject(r) \/ DownloadURL(r) \/ NewPublicLink(r)
       \/ CreatePublicLink(r) \/ ResolvePublic(r) \/ \E s \in Slugs : PublicObject(r, s)
  \/ \E s \in Slugs : RevokePublicLink(s)
  \/ UpdateBucket \/ BeginBucketDeletion \/ FinishBucketDeletion

Next == Change /\ UNCHANGED relayed

Spec == Init /\ [][Next]_vars

(* Mutant: token rows keep no physical key of their own and follow the row. *)
ReadsMapped(c) ==
  IF c \in tokens /\ Active /\ Exists(c.obj) THEN files[RowOf(c.obj).phys] ELSE 0

(* What a capability reads: an S3 URL asks the provider, a token is looked  *)
(* up by DownloadByTransferHash, joined to its object in a live bucket.     *)
Reads(c) ==
  IF relayed => c \in tokens /\ Active /\ Exists(c.obj) THEN files[c.phys] ELSE 0

------------------------------------------------------------------------------
(* Rows and locals have their types, and the foreign keys hold: an alias    *)
(* or a token row never outlives its object (the tables of migrate).        *)
TypeOK ==
  /\ relayed \in BOOLEAN
  /\ bucket \in {"public", "private", "deleting", "gone"}
  /\ objects \in [Keys -> Row]
  /\ files \in [Files -> 0..MaxFiles]
  /\ links \in [Slugs -> [obj : 0..MaxFiles, live : BOOLEAN]]
  /\ tokens \subseteq caps /\ caps \subseteq Caps /\ retired \subseteq caps
  /\ \A r \in Requests : req[r].op \in {"idle", "link", "download", "insert", "resolve"}
  /\ \A s \in Slugs : links[s] # NoLink => Exists(links[s].obj)
  /\ \A t \in tokens : Exists(t.obj)

(* A redirect handed out through an alias never reads the bytes of another  *)
(* object than the one the alias was created for, even when the object was  *)
(* deleted and its key committed anew in the meantime (ResolvePublic,       *)
(* DeleteObject, CommitUpload).                                             *)
AliasFollowsItsObject ==
  \A c \in caps : c.via # None => Reads(c) \in {0, aim[c.via]}

(* A URL or token that named the mapped bytes of an object when its delete  *)
(* or rotation began reads nothing once that call has succeeded, whatever   *)
(* was signed, resolved or restored in between (RotateObjectKey, Delete).   *)
RetiredReadNothing == \A c \in retired : Reads(c) = 0

(* A redirect through an alias of an object that can be read reads it:      *)
(* "Stable aliases resolve through the mapping and continue unless revoked" *)
(* while older URLs fail (docs/architecture.md:19, of rotation).            *)
RedirectsReachTheObject ==
  [][\A c \in caps' \ caps :
       c.via # None /\ Exists(c.obj) /\ files[RowOf(c.obj).phys] # 0
         => files[c.phys] # 0]_vars

(* A redirect is handed out only while the bucket is public: "Switching a   *)
(* virtual bucket to private immediately stops its existing aliases from    *)
(* redirecting" (docs/api.md:116).                                          *)
PrivateStopsAliases ==
  [][\A c \in caps' \ caps : c.via # None => bucket = "public"]_vars
==============================================================================
