------------------------------- MODULE Listing -------------------------------
(***************************************************************************)
(* Listing the keys of a bucket page by page, while objects are committed   *)
(* and deleted, and the bucket itself is deleted and its slug taken by a    *)
(* new one.  Three handlers answer pages: ListObjectsV2 of the S3 gateway,  *)
(* whose continuation token carries bucket and prefix; the list of the      *)
(* administrators' API; and its browse mode, which folds keys into folders  *)
(* in one query and then reads the row of every other entry by itself.      *)
(*                                                                          *)
(* Names (keys, prefixes, folders, cursors) are numbered in the byte order  *)
(* in which SQLite compares them; the names that begin with n are then the  *)
(* interval n..Last[n], and 0 is the empty name.                            *)
(***************************************************************************)
EXTENDS Naturals, FiniteSets

CONSTANTS
  MaxName,     \* bound: the last name
  Last,        \* the last name that begins with a name
  Keys,        \* the names that are uploaded as keys
  Folders,     \* the names that end in a slash
  Prefixes,    \* the prefixes that are asked for
  Limits,      \* the page sizes that are asked for
  MaxBuckets   \* bound: buckets that ever have the slug

Names == 0..MaxName
Under(n) == n..Last[n]

ASSUME NamesAssumption ==
  /\ MaxName \in Nat /\ MaxBuckets \in Nat
  /\ Last \in [Names -> Names] /\ Last[0] = MaxName
  /\ \A n \in Names : n <= Last[n] /\ \A m \in Under(n) : Last[m] <= Last[n]
  /\ Keys \subseteq Names \ {0} /\ Folders \subseteq Names \ {0} /\ Prefixes \subseteq Names
  /\ Limits \subseteq Nat \ {0}

VARIABLES
  bucket,   \* the id and state of the bucket that has the slug; id 0 for none
  lastId,   \* the last bucket id given out
  objects,  \* the keys with an objects row
  w         \* the listing: the client's state, and the handler's while a page is made

listingVars == <<bucket, lastId, objects, w>>

Kinds == {"s3", "list", "browse"}
BucketIds == 0..MaxBuckets

(* steady and ever are history: the keys that have had a row all the time    *)
(* since the listing began, and at some time since; from holds the buckets   *)
(* that its pages were taken from.                                           *)
Idle == [pc |-> "idle", kind |-> "s3", prefix |-> 0, limit |-> 1, start |-> 0, after |-> 0,
         token |-> 0, b |-> 0, got |-> {}, rest |-> {}, next |-> 0, seen |-> {},
         steady |-> {}, ever |-> {}, from |-> {}]

ListingTypeOK ==
  /\ bucket \in [id : BucketIds, state : {"active", "deleting"}]
  /\ lastId \in BucketIds /\ bucket.id <= lastId
  /\ objects \subseteq Keys /\ (bucket.id = 0 => objects = {})
  /\ w \in [pc : {"idle", "auth", "query", "rows", "done"}, kind : Kinds,
            prefix : Prefixes \cup {0}, limit : Limits \cup {1}, start : Names,
            after : Names, token : BucketIds, b : BucketIds, got : SUBSET Names,
            rest : SUBSET Keys, next : Names, seen : SUBSET Names, steady : SUBSET objects,
            ever : SUBSET Keys, from : SUBSET BucketIds]
  /\ Cardinality(w.got \cup w.rest) <= w.limit

ListingInit ==
  /\ bucket = [id |-> 0, state |-> "active"]
  /\ lastId = 0 /\ objects = {}
  /\ w = Idle

-----------------------------------------------------------------------------
(* Rows come and go. *)

CreateBucket ==
  /\ bucket.id = 0 /\ lastId < MaxBuckets
  /\ lastId' = lastId + 1
  /\ bucket' = [id |-> lastId + 1, state |-> "active"]
  /\ UNCHANGED <<objects, w>>

CommitUpload(k) ==
  /\ bucket.id # 0 /\ bucket.state = "active"
  /\ objects' = objects \cup {k}
  /\ w' = [w EXCEPT !.ever = IF w.pc = "idle" THEN {} ELSE @ \cup {k}]
  /\ UNCHANGED <<bucket, lastId>>

DeleteObject(k) ==
  /\ k \in objects
  /\ objects' = objects \ {k}
  /\ w' = [w EXCEPT !.steady = @ \ {k}]
  /\ UNCHANGED <<bucket, lastId>>

BeginBucketDeletion ==
  /\ bucket.id # 0 /\ bucket.state = "active"
  /\ bucket' = [bucket EXCEPT !.state = "deleting"]
  /\ UNCHANGED <<lastId, objects, w>>

FinishBucketDeletion ==
  /\ bucket.id # 0 /\ bucket.state = "deleting"
  /\ bucket' = [id |-> 0, state |-> "active"]
  /\ objects' = {}
  /\ w' = [w EXCEPT !.steady = {}]
  /\ UNCHANGED lastId

-----------------------------------------------------------------------------
(* What a page is made of. *)

(* The folder below the prefix that hides a key: the shortest one. *)
FoldersAbove(p, k) == {f \in Folders : f \in Under(p) /\ f # p /\ k \in Under(f)}
Entry(kind, p, k) ==
  IF kind = "browse" /\ FoldersAbove(p, k) # {}
  THEN CHOOSE f \in FoldersAbove(p, k) : \A g \in FoldersAbove(p, k) : f <= g
  ELSE k

Scoped(kind, p, S) == {k \in S : k \in Under(p) /\ (kind = "browse" => k # p)}
Entries(kind, p, S) == {Entry(kind, p, k) : k \in Scoped(kind, p, S)}

(* Mutant: the row that tells whether there is more stays on the page. *)
FirstAndOne(S, n) == {e \in S : Cardinality({f \in S : f < e}) <= n}
First(S, n) == {e \in S : Cardinality({f \in S : f < e}) < n}

(* Mutant: the cursor is the first name that is not on the page. *)
CursorAfter(S, n) ==
  IF Cardinality(S) <= n THEN 0
  ELSE CHOOSE e \in S \ First(S, n) : \A f \in S \ First(S, n) : e <= f

Cursor(S, n) ==
  IF Cardinality(S) <= n THEN 0
  ELSE CHOOSE e \in First(S, n) : \A f \in First(S, n) : f <= e

Rows(b) == IF b # 0 /\ b = bucket.id THEN objects ELSE {}

-----------------------------------------------------------------------------
(* A listing. *)

(* start is start-after of the gateway, the first after of the others.  The  *)
(* gateway answers max-keys=0 itself, with no keys and no token.             *)
Begin(kind, p, n, start) ==
  /\ w.pc \in {"idle", "done"}
  /\ w' = [Idle EXCEPT !.pc = "auth", !.kind = kind, !.prefix = p, !.limit = n, !.start = start,
                       !.after = start, !.steady = objects, !.ever = objects]
  /\ UNCHANGED <<bucket, lastId, objects>>

Refuse == w' = Idle

(* Mutant: the bucket in a continuation token is not compared. *)
AuthenticateAnyToken ==
  /\ w.pc = "auth"
  /\ IF bucket.id # 0 /\ (w.kind = "s3" => bucket.state = "active")
     THEN w' = [w EXCEPT !.pc = "query", !.b = bucket.id]
     ELSE Refuse
  /\ UNCHANGED <<bucket, lastId, objects>>

(* The gateway knows the bucket by an access key, which a deletion revokes;  *)
(* the administrators' API knows it by its slug.                             *)
Authenticate ==
  /\ w.pc = "auth"
  /\ IF /\ bucket.id # 0
        /\ w.kind = "s3" => bucket.state = "active" /\ w.token \in {0, bucket.id}
     THEN w' = [w EXCEPT !.pc = "query", !.b = bucket.id]
     ELSE Refuse
  /\ UNCHANGED <<bucket, lastId, objects>>

Query ==
  LET S == {e \in Entries(w.kind, w.prefix, Rows(w.b)) : e > w.after}
      page == First(S, w.limit)
      shown == IF w.kind = "browse" THEN page \cap Folders ELSE page
  IN
  /\ w.pc = "query"
  /\ w' = [w EXCEPT !.pc = "rows", !.got = shown, !.rest = page \ shown,
                    !.next = Cursor(S, w.limit)]
  /\ UNCHANGED <<bucket, lastId, objects>>

(* GetObject; a row that is gone is left out. *)
ReadRow(k) ==
  /\ w.pc = "rows" /\ k \in w.rest /\ \A l \in w.rest : k <= l
  /\ w' = [w EXCEPT !.rest = @ \ {k}, !.got = IF k \in Rows(w.b) THEN @ \cup {k} ELSE @]
  /\ UNCHANGED <<bucket, lastId, objects>>

(* The client has the page, and asks for the next one if there is a cursor. *)
Receive ==
  /\ w.pc = "rows" /\ w.rest = {}
  /\ w' = [w EXCEPT !.pc = IF w.next = 0 THEN "done" ELSE "auth", !.seen = @ \cup w.got,
                    !.after = w.next, !.token = w.b, !.got = {}, !.b = 0, !.next = 0,
                    !.from = IF w.got = {} THEN @ ELSE @ \cup {w.b}]
  /\ UNCHANGED <<bucket, lastId, objects>>

(* The answer fails or does not arrive, and the client asks again. *)
Lost ==
  /\ w.pc \in {"query", "rows"}
  /\ w' = [w EXCEPT !.pc = "auth", !.got = {}, !.rest = {}, !.b = 0, !.next = 0]
  /\ UNCHANGED <<bucket, lastId, objects>>

ListingNext ==
  \/ CreateBucket \/ BeginBucketDeletion \/ FinishBucketDeletion
  \/ \E k \in Keys : CommitUpload(k) \/ DeleteObject(k) \/ ReadRow(k)
  \/ \E kind \in Kinds, p \in Prefixes, n \in Limits, start \in Names : Begin(kind, p, n, start)
  \/ Authenticate \/ Query \/ Receive \/ Lost

ListingSpec == ListingInit /\ [][ListingNext]_listingVars

-----------------------------------------------------------------------------
(* A listing that came to its end has shown every key under the prefix and   *)
(* beyond the start that was there all along, or the folder it is in,        *)
(* whatever was committed and deleted between the pages, or between the      *)
(* query of a browsing page and the rows it reads (ListObjectsPage,          *)
(* BrowseObjectsPage, and the cursors of list and adminObjects).             *)
ListingsCover ==
  w.pc = "done" =>
    \A e \in Entries(w.kind, w.prefix, w.steady) : e > w.start => e \in w.seen

(* A listing shows nothing twice and nothing that was not there: what is on  *)
(* a page comes after all that was shown before, and is or hides a key that  *)
(* had a row at some time since the listing began; the cursor moves on; and  *)
(* a continuation token never goes on with the next bucket under the slug.   *)
ListingsHonest ==
  /\ \A e \in w.got \cup w.rest : e > w.after /\ \A f \in w.seen : f < e
  /\ w.got \cup w.rest \cup w.seen \subseteq Entries(w.kind, w.prefix, w.ever)
  /\ w.next # 0 => w.next > w.after /\ \A e \in w.got \cup w.rest : e <= w.next
  /\ w.kind = "s3" => \A b, c \in w.from : b = c
=============================================================================
