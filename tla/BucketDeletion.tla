--------------------------- MODULE BucketDeletion ---------------------------
(***************************************************************************)
(* The life and removal of one virtual bucket: the bucket's read-write      *)
(* lock, the requests that work under it, the durable deletion intent, the  *)
(* receipts of signed upload URLs, and the single cleanup worker that sweeps *)
(* the bucket's two namespaces on every storage source, removes the rows    *)
(* and leaves a tombstone for transfers that end late.                      *)
(*                                                                          *)
(* Time is kept as time left: a timer counts down to its instant and, where *)
(* the code compares it with an earlier instant, below zero.                *)
(***************************************************************************)
EXTENDS Integers, FiniteSets, FiniteSetsExt

CONSTANTS
  Sources,      \* storage sources, all in the table and in the runtime map
  Ids,          \* bound: upload URLs ever signed
  Requests,     \* concurrent request handlers
  Lifetimes,    \* expires_in values clients ask for
  Grace,        \* the transfer grace period after an expiry (60 s)
  ConfirmWait,  \* the wait before a deletion token may be used (5 s)
  ConfirmLife,  \* how long it may be used after that (15 min)
  Week,         \* how long a tombstone is kept (7 days)
  Retry,        \* between two sweeps of a tombstone (15 min)
  MaxTransfer,  \* the longest a PUT takes to end once it was accepted
  ZoneOffset,   \* local time minus UTC
  MaxFaults,    \* bound: failed provider calls, failed transactions, restarts
  None

ASSUME TimeAssumption ==
  /\ Lifetimes \subseteq Nat \ {0}
  /\ {Grace, ConfirmWait, ConfirmLife, Week, Retry, MaxTransfer} \subseteq Nat \ {0}
  /\ ZoneOffset \in Int /\ MaxFaults \in Nat
  /\ \E d \in Lifetimes : \A e \in Lifetimes : e <= d   \* expires_in is an int64

ASSUME NoneAssumption == None \notin Sources \cup [until : Nat, next : Nat]

VARIABLES
  status,    \* no buckets row, a row, a row with a bucket_deletions row
  confirm,   \* time left of the confirmation, its wait included; 0: none
  cleanup,   \* time left until bucket_deletions.cleanup_after
  receipts,  \* upload_grants rows
  issued,    \* ids whose URL a client has
  left,      \* time left until each receipt's expires_at; below zero once past
  url,       \* time left of each signed URL
  flight,    \* time left for the running PUT of each id; 0: none
  final,     \* sources that hold bytes under rosemary/<bucket>/
  staging,   \* sources that hold bytes under rosemary-staging/<bucket>/
  home,      \* the source of each id's staging key
  tomb,      \* the bucket_cleanup_tombstones row
  req,       \* the handlers' local variables
  worker,    \* the cleanup goroutine's local variables
  faults

bucketVars == <<status, confirm, cleanup, receipts, tomb>>
clientVars == <<issued, left, url, flight, home>>
fileVars == <<final, staging>>
vars == <<bucketVars, clientVars, fileVars, req, worker, faults>>

Never == Max({Grace + 1, Grace + 1 + ZoneOffset, Grace + 1 - ZoneOffset})
Longest == Max(Lifetimes)

IdleReq == [pc |-> "idle", id |-> None, at |-> None, ttl |-> 0, lapse |-> 0]
IdleWorker == [pc |-> "idle", todo |-> {}, ok |-> TRUE, lapse |-> 0]
Namespaces == {"final", "staging"}

(* The pcs at which a handler holds the bucket's lock shared. *)
Inside == {"held", "work", "sign", "row", "undo", "relay"}
Readers == {r \in Requests : req[r].pc \in Inside}
WriterHolds == worker.pc \in {"purge", "finish"}
WriterPending == worker.pc = "lock"

TypeOK ==
  /\ status \in {"active", "deleting", "absent"}
  /\ confirm \in 0..(ConfirmWait + ConfirmLife)
  /\ cleanup \in 0..(Longest + Grace)
  /\ receipts \subseteq Ids /\ issued \subseteq Ids
  /\ left \in [Ids -> (-Never)..Longest]
  /\ url \in [Ids -> 0..Longest] /\ flight \in [Ids -> 0..MaxTransfer]
  /\ final \subseteq Sources /\ staging \subseteq Sources
  /\ home \in [Ids -> Sources \cup {None}]
  /\ tomb \in [until : 0..Week, next : 0..Retry] \cup {None}
  /\ req \in [Requests -> [pc : Inside \cup {"idle", "wait"},
                           id : Ids \cup {None}, at : Sources \cup {None},
                           ttl : 0..Longest, lapse : 0..1]]
  /\ worker \in [pc : {"idle", "lock", "purge", "finish", "late", "note"},
                 todo : SUBSET (Sources \X Namespaces), ok : BOOLEAN, lapse : 0..1]
  /\ faults \in 0..MaxFaults

Init ==
  /\ status = "active" /\ confirm = 0 /\ cleanup = 0
  /\ receipts = {} /\ issued = {} /\ tomb = None
  /\ left = [u \in Ids |-> -Never] /\ url = [u \in Ids |-> 0]
  /\ flight = [u \in Ids |-> 0]
  /\ home = [u \in Ids |-> None]
  /\ final = {} /\ staging = {}
  /\ req = [r \in Requests |-> IdleReq]
  /\ worker = IdleWorker
  /\ faults = 0

Fault == faults < MaxFaults /\ faults' = faults + 1
NoFault == UNCHANGED faults
At(r, pc) == req[r].pc = pc
Goto(r, pc) == req' = [req EXCEPT ![r].pc = pc]
Return(r) == req' = [req EXCEPT ![r] = IdleReq]

-----------------------------------------------------------------------------
(* Time, clients and the process. *)

Down(t) == Max({t - 1, 0})

(* A sweep is cut off after two minutes and the step from the reservation to
   the signature waits at most for SQLite's busy timeout: each spans one unit
   of time at most. *)
Tick ==
  /\ worker.pc \in {"purge", "finish", "late", "note"} => worker.lapse = 0
  /\ \A r \in Requests : At(r, "sign") => req[r].lapse = 0
  /\ worker' = IF worker.pc \in {"idle", "lock"} THEN worker
               ELSE [worker EXCEPT !.lapse = 1]
  /\ confirm' = Down(confirm)
  /\ cleanup' = Down(cleanup)
  /\ left' = [u \in Ids |-> Max({left[u] - 1, -Never})]
  /\ url' = [u \in Ids |-> Down(url[u])]
  /\ flight' = [u \in Ids |-> Down(flight[u])]   \* at 0 it has been cut off
  /\ req' = [r \in Requests |-> IF At(r, "sign") THEN [req[r] EXCEPT !.lapse = 1]
                                ELSE req[r]]
  /\ tomb' = IF tomb = None THEN None
             ELSE [until |-> Down(tomb.until), next |-> Down(tomb.next)]
  /\ UNCHANGED <<status, receipts, issued, home, fileVars, faults>>

(* The provider looks at the signature when the PUT starts, not when it ends. *)
StartPut(u) ==
  /\ u \in issued /\ url[u] > 0 /\ flight[u] = 0
  /\ flight' = [flight EXCEPT ![u] = MaxTransfer]
  /\ UNCHANGED <<bucketVars, issued, left, url, home, fileVars, req, worker, faults>>

EndPut(u) ==
  /\ flight[u] > 0
  /\ flight' = [flight EXCEPT ![u] = 0]
  /\ staging' = staging \cup {home[u]}
  /\ UNCHANGED <<bucketVars, issued, left, url, home, final, req, worker, faults>>

(* The in-memory lock, the handlers and the worker's pass are gone. *)
Restart ==
  /\ worker # IdleWorker \/ \E r \in Requests : ~At(r, "idle")
  /\ Fault
  /\ req' = [r \in Requests |-> IdleReq]
  /\ worker' = IdleWorker
  /\ UNCHANGED <<bucketVars, clientVars, fileVars>>

(* PruneUploadGrants, run by any bucket's BeginUpload.  expires_at was written  *)
(* from a local time.Now() and is compared, as text, with a UTC time.           *)
PruneUploadGrants ==
  LET pruned == {u \in receipts : left[u] + ZoneOffset < -Grace} IN
  /\ status # "deleting"
  /\ pruned # {}
  /\ receipts' = receipts \ pruned
  /\ UNCHANGED <<status, confirm, cleanup, tomb, clientVars, fileVars, req,
                 worker, faults>>

-----------------------------------------------------------------------------
(* BucketOperation: check, lock, check again; then one of the operations that *)
(* create files or receipts.                                                  *)

Enter(r) ==
  /\ At(r, "idle") /\ status = "active"
  /\ Goto(r, "wait")
  /\ UNCHANGED <<bucketVars, clientVars, fileVars, worker, faults>>

(* A waiting writer keeps new readers out (sync.RWMutex). *)
RLock(r) ==
  /\ At(r, "wait") /\ ~WriterHolds /\ ~WriterPending
  /\ Goto(r, "held")
  /\ UNCHANGED <<bucketVars, clientVars, fileVars, worker, faults>>

(* Mutants: the check is not repeated under the lock; the refused request
   keeps the lock. *)
RecheckNothing(r) ==
  /\ At(r, "held")
  /\ Goto(r, "work")
  /\ UNCHANGED <<bucketVars, clientVars, fileVars, worker, faults>>

RecheckKeepsLock(r) ==
  /\ At(r, "held")
  /\ status = "active" /\ Goto(r, "work")
  /\ UNCHANGED <<bucketVars, clientVars, fileVars, worker, faults>>

Recheck(r) ==
  /\ At(r, "held")
  /\ IF status = "active" THEN Goto(r, "work") ELSE Return(r)
  /\ UNCHANGED <<bucketVars, clientVars, fileVars, worker, faults>>

(* BeginUpload: ReserveObject tests bucket_deletions in its transaction and
   writes the receipt, with an expiry computed before the transaction; the
   URL's own lifetime starts when it is signed. *)
Reserve(r, u, s, d) ==
  /\ At(r, "work") /\ status = "active"
  /\ home[u] = None
  /\ receipts' = receipts \cup {u}
  /\ left' = [left EXCEPT ![u] = d]
  /\ home' = [home EXCEPT ![u] = s]
  /\ req' = [req EXCEPT ![r].pc = "sign", ![r].id = u, ![r].ttl = d]
  /\ UNCHANGED <<status, confirm, cleanup, tomb, issued, url, flight, fileVars,
                 worker, faults>>

Sign(r) ==
  LET u == req[r].id IN
  /\ At(r, "sign") /\ Return(r)
  /\ \/ /\ issued' = issued \cup {u}
        /\ url' = [url EXCEPT ![u] = req[r].ttl]
        /\ UNCHANGED receipts /\ NoFault
     \/ receipts' = receipts \ {u} /\ UNCHANGED <<issued, url>> /\ Fault
  /\ UNCHANGED <<status, confirm, cleanup, tomb, left, flight, home, fileVars, worker>>

(* CommitUpload and RotateObjectKey: a body is copied to a final key, then the
   rows are switched; only the commit's transaction tests bucket_deletions. *)
CopyFinal(r, s) ==
  /\ At(r, "work")
  /\ final' = final \cup {s}
  /\ req' = [req EXCEPT ![r].pc = "row", ![r].at = s]
  /\ UNCHANGED <<bucketVars, clientVars, staging, worker, faults>>

SwitchRow(r) ==
  /\ At(r, "row")
  /\ \/ Return(r) /\ NoFault
     \/ Goto(r, "undo") /\ status # "active" /\ NoFault
     \/ Goto(r, "undo") /\ Fault
  /\ UNCHANGED <<bucketVars, clientVars, fileVars, worker>>

(* The new key is deleted, errors ignored; other keys may still be there. *)
UndoCopy(r) ==
  /\ At(r, "undo") /\ Return(r)
  /\ final' \in {final, final \ {req[r].at}}
  /\ UNCHANGED <<bucketVars, clientVars, staging, worker, faults>>

(* RelayUpload: the body of a WebDAV upload passes through the handler. *)
RelayStart(r, u) ==
  /\ At(r, "work")
  /\ u \in issued /\ left[u] >= 0
  /\ req' = [req EXCEPT ![r].pc = "relay", ![r].id = u]
  /\ UNCHANGED <<bucketVars, clientVars, fileVars, worker, faults>>

RelayEnd(r) ==
  /\ At(r, "relay") /\ Return(r)
  /\ staging' = staging \cup {home[req[r].id]}
  /\ UNCHANGED <<bucketVars, clientVars, final, worker, faults>>

(* Any other outcome: a refusal, a read, a delete, a failed call. *)
Leave(r) ==
  /\ At(r, "work") /\ Return(r)
  /\ final' \in SUBSET final /\ staging' \in SUBSET staging
  /\ UNCHANGED <<bucketVars, clientVars, worker, faults>>

-----------------------------------------------------------------------------
(* The administrator. *)

PrepareBucketDeletion ==
  /\ status # "absent" /\ confirm = 0
  /\ confirm' = ConfirmWait + ConfirmLife
  /\ UNCHANGED <<status, cleanup, receipts, tomb, clientVars, fileVars, req,
                 worker, faults>>

(* Mutants: the wait forgets "not before now"; the receipts are not read. *)
DeleteBucketFromReceipts ==
  /\ status = "active" /\ confirm \in 1..ConfirmLife
  /\ status' = "deleting" /\ confirm' = 0
  /\ cleanup' = IF receipts = {} THEN 0 ELSE Max({left[u] + Grace : u \in receipts})
  /\ UNCHANGED <<receipts, tomb, clientVars, fileVars, req, worker, faults>>

DeleteBucketAtOnce ==
  /\ status = "active" /\ confirm \in 1..ConfirmLife
  /\ status' = "deleting" /\ confirm' = 0
  /\ cleanup' = 0
  /\ UNCHANGED <<receipts, tomb, clientVars, fileVars, req, worker, faults>>

(* BeginBucketDeletion: no lock is taken.  The cleanup waits for the last
   expiry among the receipts plus the grace period. *)
DeleteBucket ==
  /\ status = "active"
  /\ confirm \in 1..ConfirmLife
  /\ status' = "deleting"
  /\ confirm' = 0
  /\ cleanup' = Max({0} \cup {left[u] + Grace : u \in receipts})
  /\ UNCHANGED <<receipts, tomb, clientVars, fileVars, req, worker, faults>>

-----------------------------------------------------------------------------
(* RunBucketCleanup. *)

WorkerOnly == UNCHANGED <<bucketVars, clientVars, fileVars, req>>

TakeJob ==
  /\ worker.pc = "idle" /\ status = "deleting"
  /\ worker' = [IdleWorker EXCEPT !.pc = "lock"]
  /\ WorkerOnly /\ NoFault

(* Lock() returns once no reader is left. *)
Lock ==
  /\ worker.pc = "lock" /\ Readers = {}
  /\ worker' = [worker EXCEPT !.pc = "purge", !.todo = Sources \X Namespaces]
  /\ WorkerOnly /\ NoFault

(* PurgePrefix of one namespace of one source: rosemary/ before rosemary-staging/.
   An error ends the pass and releases the lock. *)
Purge(s, n) ==
  /\ worker.pc = "purge"
  /\ <<s, n>> \in worker.todo
  /\ n = "staging" => <<s, "final">> \notin worker.todo
  /\ \/ /\ final' = IF n = "final" THEN final \ {s} ELSE final
        /\ staging' = IF n = "staging" THEN staging \ {s} ELSE staging
        /\ worker' = [worker EXCEPT !.todo = @ \ {<<s, n>>}]
        /\ NoFault
     \/ worker' = IdleWorker /\ UNCHANGED fileVars /\ Fault
  /\ UNCHANGED <<bucketVars, clientVars, req>>

(* Mutant: the deadline itself still counts as too early. *)
SweptTooEarly ==
  /\ worker.pc = "purge" /\ worker.todo = {}
  /\ worker' = IF cleanup >= 0 THEN IdleWorker ELSE [worker EXCEPT !.pc = "finish"]
  /\ WorkerOnly /\ NoFault

(* cleanBucket's own look at the clock, after the sweep. *)
Swept ==
  /\ worker.pc = "purge" /\ worker.todo = {}
  /\ worker' = IF cleanup > 0 THEN IdleWorker ELSE [worker EXCEPT !.pc = "finish"]
  /\ WorkerOnly /\ NoFault

(* Mutant: no tombstone is left. *)
FinishWithoutTombstone ==
  /\ worker.pc = "finish"
  /\ worker' = IdleWorker
  /\ cleanup = 0 /\ NoFault
  /\ status' = "absent" /\ confirm' = 0 /\ receipts' = {}
  /\ UNCHANGED <<tomb, cleanup, clientVars, fileVars, req>>

FinishBucketDeletion ==
  /\ worker.pc = "finish"
  /\ worker' = IdleWorker
  /\ \/ /\ cleanup = 0 /\ NoFault
        /\ status' = "absent"
        /\ confirm' = 0
        /\ receipts' = {}
        /\ tomb' = [until |-> Week, next |-> Retry]
     \/ UNCHANGED <<status, confirm, receipts, tomb>> /\ Fault
  /\ UNCHANGED <<cleanup, clientVars, fileVars, req>>

(* A due tombstone: the staging namespace only. *)
TakeTombstone ==
  /\ worker.pc = "idle"
  /\ tomb # None /\ tomb.next = 0
  /\ worker' = [IdleWorker EXCEPT !.pc = "late", !.todo = Sources \X {"staging"}]
  /\ WorkerOnly /\ NoFault

SweepLate(s) ==
  /\ worker.pc = "late" /\ <<s, "staging">> \in worker.todo
  /\ \/ /\ staging' = staging \ {s}
        /\ worker' = [worker EXCEPT !.todo = @ \ {<<s, "staging">>}]
        /\ NoFault
     \/ /\ worker' = [worker EXCEPT !.pc = "note", !.ok = FALSE]
        /\ UNCHANGED staging /\ Fault
  /\ UNCHANGED <<bucketVars, clientVars, final, req>>

SweptLate ==
  /\ worker.pc = "late" /\ worker.todo = {}
  /\ worker' = [worker EXCEPT !.pc = "note"]
  /\ WorkerOnly /\ NoFault

(* UpdateBucketCleanupTombstone; a failed statement is ignored. *)
UpdateTombstone ==
  /\ worker.pc = "note"
  /\ worker' = IdleWorker
  /\ \/ /\ NoFault
        /\ tomb' = IF worker.ok /\ tomb.until = 0 THEN None
                   ELSE [tomb EXCEPT !.next = Retry]
     \/ UNCHANGED tomb /\ Fault
  /\ UNCHANGED <<status, confirm, cleanup, receipts, clientVars, fileVars, req>>

-----------------------------------------------------------------------------
Serve(r) ==
  \/ RLock(r) \/ Recheck(r) \/ Sign(r) \/ SwitchRow(r) \/ UndoCopy(r)
  \/ RelayEnd(r) \/ Leave(r)
  \/ \E u \in Ids, s \in Sources, d \in Lifetimes : Reserve(r, u, s, d)
  \/ \E s \in Sources : CopyFinal(r, s)
  \/ \E u \in Ids : RelayStart(r, u)

Clean ==
  \/ TakeJob \/ Lock \/ Swept \/ FinishBucketDeletion
  \/ TakeTombstone \/ SweptLate \/ UpdateTombstone
  \/ \E s \in Sources : SweepLate(s) \/ \E n \in Namespaces : Purge(s, n)

Next ==
  \/ Tick \/ Restart \/ PruneUploadGrants
  \/ PrepareBucketDeletion \/ DeleteBucket \/ Clean
  \/ \E u \in Ids : StartPut(u) \/ EndPut(u)
  \/ \E r \in Requests : Enter(r) \/ Serve(r)

(* Time passes, the worker's goroutine runs, and a handler that was let in
   goes on: every provider call is bounded by its transport's timeouts. *)
Fairness == WF_vars(Tick) /\ WF_vars(Clean) /\ \A r \in Requests : WF_vars(Serve(r))
Spec == Init /\ [][Next]_vars /\ Fairness

-----------------------------------------------------------------------------
(* Properties. *)

(* Once the rows are gone no committed file is left behind or created later:
   the manifest outlives every file, whatever requests were under way when
   the deletion was accepted, whatever failed, whenever the process died. *)
NoFilesWithoutRows == status = "absent" => final = {}

(* The rows stay until every signed URL has expired, the ones signed late,
   under requests already running when the deletion was accepted, included:
   no provider accepts a transfer for a bucket that no longer exists. *)
GrantsOutlived == status = "absent" => \A u \in issued : url[u] = 0

(* A deletion that was accepted completes. *)
DeletionCompletes == status = "deleting" ~> status = "absent"

(* A bucket's namespaces end up empty for good: the tombstone outlives every
   transfer that was accepted before its URL expired. *)
NothingRemains == status = "absent" ~> [](final = {} /\ staging = {})

(* A request that waits for the bucket's lock gets an answer: the worker and
   the handlers never wait for each other. *)
WaitersReturn == \A r \in Requests : At(r, "wait") ~> At(r, "idle")

(* "Operations already in progress finish before deletion is recorded." *)
OperationsFinishFirst ==
  [][status = "active" /\ status' = "deleting"
       => \A r \in Requests : req[r].pc \in {"idle", "wait"}]_vars
=============================================================================
