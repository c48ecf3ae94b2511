------------------------ MODULE BucketDeletionProofs ------------------------
(***************************************************************************)
(* For any number of sources, requests, upload URLs and failures, and for    *)
(* any durations: no committed file outlives the rows of its bucket, and     *)
(* east of Greenwich no upload URL does.                                     *)
(***************************************************************************)
EXTENDS BucketDeletion, WellFoundedInduction, TLAPS

(* The records of the handlers and of the worker. *)
Handlers == [pc : Inside \cup {"idle", "wait"}, id : Ids \cup {None},
             at : Sources \cup {None}, ttl : Nat, lapse : 0..1]
Workers == [pc : {"idle", "lock", "purge", "finish", "late", "note"},
            todo : SUBSET (Sources \X Namespaces), ok : BOOLEAN, lapse : 0..1]

(* What the argument needs to know of the values of the variables. *)
Shape ==
  /\ status \in {"active", "deleting", "absent"}
  /\ final \subseteq Sources
  /\ req \in [Requests -> Handlers]
  /\ worker \in Workers

(* The lock excludes: while the worker holds it nobody is inside. *)
Exclusion == WriterHolds => Readers = {}

(* The worker waits for the lock, sweeps and finishes only for a bucket whose
   deletion is recorded. *)
OnlyDeleting ==
  worker.pc \in {"lock", "purge", "finish"} => status = "deleting"

(* What the sweep has left behind so far is clean. *)
SweptSoFar ==
  WriterHolds => \A s \in final : worker.pc = "purge" /\ <<s, "final">> \in worker.todo

(* Once the rows are gone, nobody is past the second check. *)
NobodyWorks ==
  status = "absent" =>
    /\ final = {}
    /\ \A r \in Requests : req[r].pc \in {"idle", "wait", "held"}

(* The inductive invariant behind NoFilesWithoutRows. *)
IInv == Shape /\ Exclusion /\ OnlyDeleting /\ SweptSoFar /\ NobodyWorks

-----------------------------------------------------------------------------
(* The initial state satisfies the inductive invariant. *)
LEMMA InitIInv == Init => IInv
BY DEF Init, IInv, Shape, Exclusion, OnlyDeleting, SweptSoFar, NobodyWorks,
       IdleReq, IdleWorker, WriterHolds, Readers, Inside, Handlers, Workers

(* Every step of the system preserves the inductive invariant. *)
LEMMA StepIInv == IInv /\ [Next]_vars => IInv'
<1> SUFFICES ASSUME IInv, [Next]_vars PROVE IInv'
  OBVIOUS
<1> USE DEF IInv, Shape, Exclusion, OnlyDeleting, SweptSoFar, NobodyWorks,
            WriterHolds, Readers, Inside, At, Namespaces, Handlers, Workers
<1>1. CASE Tick
  <2>1. /\ UNCHANGED <<status, final>>
        /\ \A r \in Requests : req'[r].pc = req[r].pc
        /\ worker'.pc = worker.pc /\ worker'.todo = worker.todo
    BY <1>1 DEF Tick, fileVars
  <2>2. worker' \in Workers
    BY <1>1 DEF Tick
  <2>3. req' \in [Requests -> Handlers]
    BY <1>1 DEF Tick
  <2> QED
    BY <2>1, <2>2, <2>3
<1>2. CASE Restart
  BY <1>2 DEF Restart, IdleReq, IdleWorker, bucketVars, clientVars, fileVars
<1>3. CASE PruneUploadGrants \/ PrepareBucketDeletion
  BY <1>3 DEF PruneUploadGrants, PrepareBucketDeletion, fileVars
<1>4. CASE DeleteBucket
  BY <1>4 DEF DeleteBucket, fileVars
<1>5. CASE \E u \in Ids : StartPut(u) \/ EndPut(u)
  BY <1>5 DEF StartPut, EndPut, bucketVars, fileVars
<1>6. ASSUME NEW r \in Requests, Enter(r) PROVE IInv'
  BY <1>6 DEF Enter, Goto, bucketVars, fileVars
<1>7. ASSUME NEW r \in Requests, Serve(r) PROVE IInv'
  <2>1. CASE RLock(r)
    BY <2>1 DEF RLock, Goto, WriterPending, bucketVars, fileVars
  <2>2. CASE Recheck(r)
    BY <2>2 DEF Recheck, Goto, Return, IdleReq, bucketVars, fileVars
  <2>3. ASSUME NEW u \in Ids, NEW s \in Sources, NEW d \in Lifetimes, Reserve(r, u, s, d)
        PROVE  IInv'
    <3>1. d \in Nat
      BY TimeAssumption
    <3>2. req' = [req EXCEPT ![r] = [@ EXCEPT !.pc = "sign", !.id = u, !.ttl = d]]
      BY <2>3 DEF Reserve
    <3>3. /\ UNCHANGED <<status, final, worker>>
          /\ req[r].pc = "work" /\ status = "active"
      BY <2>3 DEF Reserve, fileVars
    <3>4. req' \in [Requests -> Handlers]
      <4>1. req[r] \in Handlers
        OBVIOUS
      <4>2. [req[r] EXCEPT !.pc = "sign", !.id = u, !.ttl = d] \in Handlers
        BY <3>1, <4>1
      <4> HIDE DEF Handlers
      <4> QED
        BY <3>2, <4>2
    <3>5. \A q \in Requests : req'[q].pc = IF q = r THEN "sign" ELSE req[q].pc
      BY <3>2
    <3> QED
      BY <3>3, <3>4, <3>5
  <2>4. CASE Sign(r)
    BY <2>4 DEF Sign, Return, IdleReq, fileVars
  <2>5. ASSUME NEW s \in Sources, CopyFinal(r, s) PROVE IInv'
    <3>1. req' = [req EXCEPT ![r] = [@ EXCEPT !.pc = "row", !.at = s]]
      BY <2>5 DEF CopyFinal
    <3>2. /\ UNCHANGED <<status, worker>> /\ final' = final \cup {s}
          /\ req[r].pc = "work"
      BY <2>5 DEF CopyFinal, bucketVars
    <3>3. ~WriterHolds /\ status # "absent"
      BY <3>2
    <3>4. req' \in [Requests -> Handlers]
      <4>1. req[r] \in Handlers
        OBVIOUS
      <4>2. [req[r] EXCEPT !.pc = "row", !.at = s] \in Handlers
        BY <4>1
      <4> HIDE DEF Handlers
      <4> QED
        BY <3>1, <4>2
    <3>5. \A q \in Requests : req'[q].pc = IF q = r THEN "row" ELSE req[q].pc
      BY <3>1
    <3> QED
      BY <3>2, <3>3, <3>4, <3>5
  <2>6. CASE SwitchRow(r)
    BY <2>6 DEF SwitchRow, Goto, Return, IdleReq, bucketVars, fileVars
  <2>7. CASE UndoCopy(r) \/ Leave(r)
    BY <2>7 DEF UndoCopy, Leave, Return, IdleReq, bucketVars
  <2>8. CASE RelayEnd(r) \/ \E u \in Ids : RelayStart(r, u)
    BY <2>8 DEF RelayEnd, RelayStart, Return, IdleReq, bucketVars, fileVars
  <2> QED
    BY <1>7, <2>1, <2>2, <2>3, <2>4, <2>5, <2>6, <2>7, <2>8 DEF Serve
<1>8. CASE Clean
  <2>1. CASE TakeJob \/ TakeTombstone \/ SweptLate
    <3>1. /\ UNCHANGED <<status, final, req>>
          /\ worker'.pc \in {"lock", "late", "note"}
          /\ worker'.pc = "lock" => status = "deleting"
      BY <2>1 DEF TakeJob, TakeTombstone, SweptLate, IdleWorker, WorkerOnly,
                  bucketVars, fileVars
    <3>2. CASE TakeJob
      <4>1. worker' = [pc |-> "lock", todo |-> {}, ok |-> TRUE, lapse |-> 0]
        BY <3>2 DEF TakeJob, IdleWorker
      <4>2. worker' \in Workers
        BY <4>1
      <4> QED
        BY <3>1, <4>1, <4>2
    <3>3. CASE TakeTombstone
      <4>1. worker' = [pc |-> "late", todo |-> Sources \X {"staging"},
                       ok |-> TRUE, lapse |-> 0]
        BY <3>3 DEF TakeTombstone, IdleWorker
      <4>2. worker' \in Workers
        BY <4>1
      <4> QED
        BY <3>1, <4>2
    <3>4. CASE SweptLate
      BY <3>1, <3>4 DEF SweptLate
    <3> QED
      BY <2>1, <3>2, <3>3, <3>4
  <2>6. CASE Lock
    <3>1. /\ UNCHANGED <<status, final, req>> /\ worker.pc = "lock"
          /\ worker' = [worker EXCEPT !.pc = "purge", !.todo = Sources \X Namespaces]
          /\ Readers = {}
      BY <2>6 DEF Lock, WorkerOnly, bucketVars, fileVars
    <3>2. worker'.pc = "purge" /\ \A s \in final : <<s, "final">> \in worker'.todo
      BY <3>1
    <3> QED
      BY <3>1, <3>2
  <2>2. ASSUME NEW s \in Sources, NEW n \in Namespaces, Purge(s, n) PROVE IInv'
    <3>1. /\ UNCHANGED <<status, req>> /\ worker.pc = "purge"
      BY <2>2 DEF Purge, bucketVars
    <3>2. CASE UNCHANGED final /\ worker' = IdleWorker
      BY <3>1, <3>2 DEF IdleWorker
    <3>3. CASE /\ final' = IF n = "final" THEN final \ {s} ELSE final
               /\ worker' = [worker EXCEPT !.todo = @ \ {<<s, n>>}]
      <4>1. worker'.pc = "purge" /\ worker'.todo = worker.todo \ {<<s, n>>}
        BY <3>3, <3>1
      <4>2. \A t \in final' : <<t, "final">> \in worker'.todo
        BY <3>1, <3>3, <4>1
      <4>3. worker' \in Workers
        BY <3>3
      <4> QED
        BY <3>1, <3>3, <4>1, <4>2, <4>3
    <3> QED
      BY <2>2, <3>2, <3>3 DEF Purge, fileVars
  <2>3. CASE Swept
    BY <2>3 DEF Swept, IdleWorker, WorkerOnly, bucketVars, fileVars
  <2>4. CASE FinishBucketDeletion
    BY <2>4 DEF FinishBucketDeletion, IdleWorker, fileVars
  <2>5. CASE UpdateTombstone
    BY <2>5 DEF UpdateTombstone, IdleWorker, fileVars
  <2>7. ASSUME NEW s \in Sources, SweepLate(s) PROVE IInv'
    <3>1. /\ UNCHANGED <<status, req, final>> /\ worker.pc = "late"
      BY <2>7 DEF SweepLate, bucketVars
    <3>2. worker'.pc \in {"late", "note"} /\ worker' \in Workers
      <4>1. CASE worker' = [worker EXCEPT !.todo = @ \ {<<s, "staging">>}]
        BY <3>1, <4>1
      <4>2. CASE worker' = [worker EXCEPT !.pc = "note", !.ok = FALSE]
        BY <4>2
      <4> QED
        BY <2>7, <4>1, <4>2 DEF SweepLate
    <3> QED
      BY <3>1, <3>2
  <2> QED
    BY <1>8, <2>1, <2>2, <2>3, <2>4, <2>5, <2>6, <2>7 DEF Clean
<1>9. CASE UNCHANGED vars
  BY <1>9 DEF vars, bucketVars, fileVars
<1> QED
  BY <1>1, <1>2, <1>3, <1>4, <1>5, <1>6, <1>7, <1>8, <1>9 DEF Next

(* Whatever was under way when the deletion was accepted, whatever failed and
   whenever the process died: when the bucket's rows are gone, so are its
   committed files, and none appears later. *)
THEOREM RowsOutliveFiles == Spec => []NoFilesWithoutRows
<1>1. IInv => NoFilesWithoutRows
  BY DEF IInv, NobodyWorks, NoFilesWithoutRows
<1> QED
  BY <1>1, InitIInv, StepIInv, PTL DEF Spec

-----------------------------------------------------------------------------
(* A set of integers with an upper bound that is not empty has a greatest element. *)
LEMMA GreatestOfBounded ==
  ASSUME NEW S \in SUBSET Int, S # {}, NEW B \in Int, \A x \in S : x <= B
  PROVE  Max(S) \in S /\ \A x \in S : x <= Max(S)
<1> DEFINE T == {B - x : x \in S}
<1>1. T \subseteq Nat /\ T # {}
  <2>1. \A x \in S : B - x \in Nat
    OBVIOUS
  <2>2. PICK x \in S : TRUE
    OBVIOUS
  <2>3. B - x \in T
    OBVIOUS
  <2> QED BY <2>1, <2>3
<1>2. PICK m \in T : \A y \in T : ~ (<<y, m>> \in OpToRel(<, Nat))
  BY <1>1, NatLessThanWellFounded, WFMin, Zenon
<1>3. \A y \in T : ~ (y < m)
  <2>1. \A y \in T : y < m => <<y, m>> \in OpToRel(<, Nat)
    BY <1>1, <1>2, Zenon DEF OpToRel
  <2> QED BY <1>2, <2>1, Zenon
<1>4. PICK x \in S : m = B - x
  OBVIOUS
<1>5. \A y \in S : x >= y
  <2> SUFFICES ASSUME NEW y \in S PROVE x >= y
    OBVIOUS
  <2>1. B - y \in T
    OBVIOUS
  <2>2. ~ (B - y < B - x)
    BY <1>3, <1>4, <2>1
  <2> QED BY <2>2
<1>6. \E z \in S : \A y \in S : z >= y
  BY <1>4, <1>5
<1>7. Max(S) \in S /\ \A y \in S : Max(S) >= y
  BY <1>6 DEF Max
<1> QED BY <1>7

(* Max of two numbers, as the timers use it. *)
LEMMA MaxTwo ==
  ASSUME NEW a \in Int, NEW b \in Int
  PROVE  Max({a, b}) = IF a <= b THEN b ELSE a
<1>1. \E z \in {a, b} : \A y \in {a, b} : z >= y
  OBVIOUS
<1>2. Max({a, b}) \in {a, b} /\ \A y \in {a, b} : Max({a, b}) >= y
  BY <1>1 DEF Max
<1> QED BY <1>2

(* The longest expires_in, and the value of a receipt that is long past. *)
LEMMA Bounds ==
  /\ Never \in Nat /\ Grace < Never
  /\ Longest \in Nat \ {0} /\ \A d \in Lifetimes : d \in 1..Longest
<1>1. \E z \in {Grace + 1, Grace + 1 + ZoneOffset, Grace + 1 - ZoneOffset} : 
      \A y \in {Grace + 1, Grace + 1 + ZoneOffset, Grace + 1 - ZoneOffset} : z >= y
  BY TimeAssumption
<1>2. Never \in {Grace + 1, Grace + 1 + ZoneOffset, Grace + 1 - ZoneOffset} /\ Never >= Grace + 1
  BY <1>1 DEF Never, Max
<1>3. \E z \in Lifetimes : \A y \in Lifetimes : z >= y
  BY TimeAssumption
<1>4. Longest \in Lifetimes /\ \A y \in Lifetimes : Longest >= y
  BY <1>3 DEF Longest, Max
<1> QED BY <1>2, <1>4, TimeAssumption

-----------------------------------------------------------------------------
(* What the ids that handlers and clients hold refer to. *)
Refs ==
  /\ \A u \in Ids : u \in issued \/ flight[u] > 0 => home[u] # None
  /\ \A r \in Requests : req[r].pc \in {"sign", "relay"} =>
       req[r].id \in Ids /\ home[req[r].id] # None
  /\ worker.pc \in {"late", "note"} => tomb # None

(* Handlers with the bound that TypeOK puts on what they remember. *)
HandlerTypes == [pc : Inside \cup {"idle", "wait"}, id : Ids \cup {None},
                 at : Sources \cup {None}, ttl : 0..Longest, lapse : 0..1]
Tombstones == [until : 0..Week, next : 0..Retry]

(* A timer counts down and stops at zero. *)
LEMMA DownNat == \A t \in Nat : Down(t) \in Nat /\ Down(t) = IF t = 0 THEN 0 ELSE t - 1
BY MaxTwo DEF Down

(* A handler and a worker at rest. *)
LEMMA IdleTypes == IdleReq \in HandlerTypes /\ IdleWorker \in Workers
BY Bounds DEF IdleReq, IdleWorker, HandlerTypes, Inside, Workers

(* The initial state has its types and references. *)
LEMMA InitTypes == Init => TypeOK /\ Refs
<1> SUFFICES ASSUME Init PROVE TypeOK /\ Refs
  OBVIOUS
<1>1. req \in [Requests -> HandlerTypes] /\ worker \in Workers
  BY IdleTypes DEF Init
<1>2. TypeOK
  BY <1>1, Bounds, TimeAssumption DEF Init, TypeOK, HandlerTypes, Workers
<1>3. Refs
  BY DEF Init, Refs, IdleReq, IdleWorker
<1> QED BY <1>2, <1>3

(* A handler that returns. *)
LEMMA ReturnTypes ==
  ASSUME TypeOK, NEW r \in Requests, Return(r)
  PROVE  /\ req' \in [Requests -> HandlerTypes]
         /\ req'[r].pc = "idle"
         /\ \A q \in Requests \ {r} : req'[q] = req[q]
<1>1. req \in [Requests -> HandlerTypes]
  BY DEF TypeOK, HandlerTypes
<1>2. req'[r] = IdleReq /\ \A q \in Requests \ {r} : req'[q] = req[q]
  BY <1>1 DEF Return
<1>3. req' \in [Requests -> HandlerTypes]
  BY <1>1, IdleTypes DEF Return
<1> QED BY <1>2, <1>3 DEF IdleReq

(* A handler that goes on to another place. *)
LEMMA GotoTypes ==
  ASSUME TypeOK, NEW r \in Requests, NEW pc \in Inside \cup {"idle", "wait"}, Goto(r, pc)
  PROVE  /\ req' \in [Requests -> HandlerTypes]
         /\ req'[r] = [req[r] EXCEPT !.pc = pc] /\ req'[r].pc = pc
         /\ \A q \in Requests \ {r} : req'[q] = req[q]
<1>1. req \in [Requests -> HandlerTypes]
  BY DEF TypeOK, HandlerTypes
<1>2. req' = [req EXCEPT ![r] = [@ EXCEPT !.pc = pc]]
  BY DEF Goto
<1>3. [req[r] EXCEPT !.pc = pc] \in HandlerTypes /\ [req[r] EXCEPT !.pc = pc].pc = pc
  BY <1>1 DEF HandlerTypes
<1>4. req' \in [Requests -> HandlerTypes]
  BY <1>1, <1>2, <1>3
<1> QED BY <1>1, <1>2, <1>3, <1>4

(* The parts of TypeOK and Refs that are not about the handlers or the worker. *)
TableTypes ==
  /\ status \in {"active", "deleting", "absent"}
  /\ confirm \in 0..(ConfirmWait + ConfirmLife)
  /\ cleanup \in 0..(Longest + Grace)
  /\ receipts \subseteq Ids
  /\ tomb \in Tombstones \cup {None}
  /\ faults \in 0..MaxFaults
ClientTypes ==
  /\ issued \subseteq Ids
  /\ left \in [Ids -> (-Never)..Longest]
  /\ url \in [Ids -> 0..Longest] /\ flight \in [Ids -> 0..MaxTransfer]
  /\ home \in [Ids -> Sources \cup {None}]
FileTypes == final \subseteq Sources /\ staging \subseteq Sources

(* TypeOK, taken apart. *)
LEMMA TypeParts ==
  TypeOK <=> /\ TableTypes /\ ClientTypes /\ FileTypes
             /\ req \in [Requests -> HandlerTypes] /\ worker \in Workers
BY DEF TypeOK, TableTypes, ClientTypes, FileTypes, HandlerTypes, Workers, Tombstones

(* The clock keeps types and references. *)
LEMMA TickTypes ==
  ASSUME TypeOK, Refs, Tick
  PROVE  (TypeOK /\ Refs)'
<1>1. /\ req \in [Requests -> HandlerTypes] /\ worker \in Workers
      /\ TableTypes /\ ClientTypes /\ FileTypes
  BY TypeParts
<1>2. worker' \in Workers /\ worker'.pc = worker.pc
  <2>1. CASE worker.pc \in {"idle", "lock"}
    BY <1>1, <2>1 DEF Tick
  <2>2. CASE worker.pc \notin {"idle", "lock"}
    <3>1. worker' = [worker EXCEPT !.lapse = 1]
      BY <2>2 DEF Tick
    <3> QED BY <1>1, <3>1 DEF Workers
  <2> QED BY <2>1, <2>2
<1>3. /\ req' \in [Requests -> HandlerTypes]
      /\ \A r \in Requests : req'[r].pc = req[r].pc /\ req'[r].id = req[r].id
  <2>1. \A r \in Requests : /\ [req[r] EXCEPT !.lapse = 1] \in HandlerTypes
                            /\ [req[r] EXCEPT !.lapse = 1].pc = req[r].pc
                            /\ [req[r] EXCEPT !.lapse = 1].id = req[r].id
    BY <1>1 DEF HandlerTypes
  <2>2. req' = [r \in Requests |-> IF At(r, "sign") THEN [req[r] EXCEPT !.lapse = 1] ELSE req[r]]
    BY DEF Tick
  <2>3. \A r \in Requests : req'[r] = IF At(r, "sign") THEN [req[r] EXCEPT !.lapse = 1] ELSE req[r]
    BY <2>2
  <2>4. \A r \in Requests : req[r] \in HandlerTypes
    BY <1>1
  <2> HIDE DEF HandlerTypes
  <2> QED BY <2>1, <2>2, <2>3, <2>4
<1>4. /\ \A u \in Ids : left'[u] \in (-Never)..Longest
      /\ \A u \in Ids : url'[u] \in 0..Longest
      /\ \A u \in Ids : flight'[u] \in 0..MaxTransfer /\ (flight'[u] > 0 => flight[u] > 0)
  <2> SUFFICES ASSUME NEW u \in Ids
               PROVE  /\ left'[u] \in (-Never)..Longest
                      /\ url'[u] \in 0..Longest
                      /\ flight'[u] \in 0..MaxTransfer /\ (flight'[u] > 0 => flight[u] > 0)
    OBVIOUS
  <2>1. /\ left'[u] = Max({left[u] - 1, -Never})
        /\ url'[u] = Down(url[u]) /\ flight'[u] = Down(flight[u])
    BY DEF Tick
  <2>2. left[u] \in (-Never)..Longest /\ url[u] \in 0..Longest /\ flight[u] \in 0..MaxTransfer
    BY <1>1 DEF ClientTypes
  <2>3. Never \in Nat /\ Longest \in Nat /\ MaxTransfer \in Nat
    BY Bounds, TimeAssumption
  <2>4. left'[u] = IF left[u] - 1 <= -Never THEN -Never ELSE left[u] - 1
    BY <2>1, <2>2, <2>3, MaxTwo
  <2>5. /\ url'[u] = IF url[u] = 0 THEN 0 ELSE url[u] - 1
        /\ flight'[u] = IF flight[u] = 0 THEN 0 ELSE flight[u] - 1
    BY <2>1, <2>2, <2>3, DownNat
  <2> QED BY <2>2, <2>3, <2>4, <2>5
<1>5. ClientTypes'
  <2>1. /\ left' = [u \in Ids |-> left'[u]] /\ url' = [u \in Ids |-> url'[u]]
        /\ flight' = [u \in Ids |-> flight'[u]]
    BY DEF Tick
  <2> QED BY <1>1, <1>4, <2>1 DEF Tick, ClientTypes
<1>6. tomb' \in Tombstones \cup {None} /\ (tomb # None => tomb' # None)
  <2>1. CASE tomb = None
    BY <2>1 DEF Tick
  <2>2. CASE tomb # None
    <3>1. tomb \in Tombstones
      BY <1>1, <2>2 DEF TableTypes
    <3>2. Down(tomb.until) \in 0..Week /\ Down(tomb.next) \in 0..Retry
      BY <3>1, DownNat, TimeAssumption DEF Tombstones
    <3>3. tomb' = [until |-> Down(tomb.until), next |-> Down(tomb.next)]
      BY <2>2 DEF Tick
    <3>4. tomb' \in Tombstones
      BY <3>2, <3>3 DEF Tombstones
    <3>5. tomb' # None
      BY <3>2, <3>3, NoneAssumption
    <3> QED BY <3>4, <3>5
  <2> QED BY <2>1, <2>2
<1>7. TableTypes'
  <2>1. confirm' \in 0..(ConfirmWait + ConfirmLife)
    BY <1>1, DownNat, TimeAssumption DEF Tick, TableTypes
  <2>2. cleanup' \in 0..(Longest + Grace)
    BY <1>1, DownNat, TimeAssumption, Bounds DEF Tick, TableTypes
  <2> QED BY <1>1, <1>6, <2>1, <2>2 DEF Tick, TableTypes
<1>8. FileTypes'
  BY <1>1 DEF Tick, fileVars, FileTypes
<1>9. Refs'
  <2>1. UNCHANGED <<home, issued>>
    BY DEF Tick
  <2>2. \A u \in Ids : u \in issued' \/ flight'[u] > 0 => home'[u] # None
    BY <1>4, <2>1 DEF Refs
  <2>3. \A r \in Requests : req'[r].pc \in {"sign", "relay"} =>
          req'[r].id \in Ids /\ home'[req'[r].id] # None
    BY <1>3, <2>1 DEF Refs
  <2>4. worker'.pc \in {"late", "note"} => tomb' # None
    BY <1>2, <1>6 DEF Refs
  <2> QED BY <2>2, <2>3, <2>4 DEF Refs
<1>10. TypeOK'
  BY <1>2, <1>3, <1>5, <1>7, <1>8
     DEF TypeOK, TableTypes, ClientTypes, FileTypes, HandlerTypes, Workers, Tombstones
<1> QED BY <1>9, <1>10

-----------------------------------------------------------------------------
(* TypeOK, put together again after a step. *)
LEMMA PartsTogether ==
  (TableTypes /\ ClientTypes /\ FileTypes /\ req \in [Requests -> HandlerTypes] /\ worker \in Workers)'
    => TypeOK'
BY DEF TypeOK, TableTypes, ClientTypes, FileTypes, HandlerTypes, Workers, Tombstones

(* The time set by BeginBucketDeletion is no earlier than any receipt says. *)
LEMMA Deadline ==
  ASSUME left \in [Ids -> (-Never)..Longest], receipts \subseteq Ids,
         NEW d, d = Max({0} \cup {left[u] + Grace : u \in receipts})
  PROVE  d \in 0..(Longest + Grace) /\ \A u \in receipts : d >= left[u] + Grace
<1> DEFINE S == {0} \cup {left[u] + Grace : u \in receipts}
<1>1. Never \in Nat /\ Longest \in Nat /\ Grace \in Nat
  BY Bounds, TimeAssumption
<1>2. \A u \in receipts : left[u] + Grace \in Int /\ left[u] + Grace <= Longest + Grace
  BY <1>1
<1>3. S \in SUBSET Int /\ S # {} /\ \A x \in S : x <= Longest + Grace
  <2>1. 0 \in Int /\ 0 <= Longest + Grace
    BY <1>1
  <2>2. \A x \in {left[u] + Grace : u \in receipts} : x \in Int /\ x <= Longest + Grace
    BY <1>2
  <2>3. \A x \in S : x \in Int /\ x <= Longest + Grace
    BY <2>1, <2>2
  <2>4. 0 \in S
    OBVIOUS
  <2> QED BY <2>3, <2>4
<1> HIDE DEF S
<1>4. Max(S) \in S /\ \A x \in S : x <= Max(S)
  <2>1. Longest + Grace \in Int
    BY <1>1
  <2> QED BY <1>3, <2>1, GreatestOfBounded
<1>5. 0 \in S /\ \A u \in receipts : left[u] + Grace \in S
  BY DEF S
<1>6. d = Max(S)
  BY DEF S
<1>7. d \in Int /\ d <= Longest + Grace
  BY <1>3, <1>4, <1>6
<1>8. 0 <= d /\ \A u \in receipts : left[u] + Grace <= d
  BY <1>4, <1>5, <1>6
<1> QED BY <1>1, <1>2, <1>7, <1>8

(* A step counts one fault at most. *)
LEMMA FaultTypes == TypeOK /\ (UNCHANGED faults \/ Fault) => faults' \in 0..MaxFaults
BY TimeAssumption DEF TypeOK, Fault

(* What a handler's step has to keep. *)
LEMMA ServeKeeps ==
  ASSUME TypeOK, Refs, NEW r \in Requests,
         req' \in [Requests -> HandlerTypes], \A q \in Requests \ {r} : req'[q] = req[q],
         req'[r].pc \in {"sign", "relay"} => req'[r].id \in Ids /\ home'[req'[r].id] # None,
         UNCHANGED <<status, confirm, cleanup, tomb, flight, worker>>,
         receipts' \subseteq Ids, UNCHANGED faults \/ Fault, ClientTypes', FileTypes',
         \A u \in Ids : home[u] # None \/ u \in issued' \ issued => home'[u] # None
  PROVE  (TypeOK /\ Refs)'
<1>1. worker \in Workers /\ TableTypes
  BY TypeParts
<1>2. TableTypes' /\ worker' \in Workers
  BY <1>1, FaultTypes DEF TableTypes
<1>3. TypeOK'
  BY <1>2, PartsTogether
<1>4. Refs'
  <2>1. \A u \in Ids : u \in issued' \/ flight'[u] > 0 => home'[u] # None
    BY DEF Refs
  <2>2. \A q \in Requests : req'[q].pc \in {"sign", "relay"} =>
          req'[q].id \in Ids /\ home'[req'[q].id] # None
    BY DEF Refs
  <2>3. worker'.pc \in {"late", "note"} => tomb' # None
    BY DEF Refs
  <2> QED BY <2>1, <2>2, <2>3 DEF Refs
<1> QED BY <1>3, <1>4

(* The steps of a handler. *)
LEMMA ServeTypes ==
  ASSUME TypeOK, Refs, NEW r \in Requests, Enter(r) \/ Serve(r)
  PROVE  (TypeOK /\ Refs)'
<1>1. /\ req \in [Requests -> HandlerTypes]
      /\ TableTypes /\ ClientTypes /\ FileTypes
  BY TypeParts
<1> USE DEF At
<1>2. CASE Enter(r) \/ RLock(r) \/ Recheck(r) \/ SwitchRow(r)
  <2>1. /\ UNCHANGED <<bucketVars, clientVars, fileVars, worker>>
        /\ UNCHANGED faults \/ Fault
        /\ (\E pc \in {"wait", "held", "work", "undo"} : Goto(r, pc)) \/ Return(r)
    BY <1>2 DEF Enter, RLock, Recheck, SwitchRow, NoFault
  <2>2. /\ req' \in [Requests -> HandlerTypes] /\ req'[r].pc \notin {"sign", "relay"}
        /\ \A q \in Requests \ {r} : req'[q] = req[q]
    <3>1. CASE Return(r)
      BY <3>1, ReturnTypes
    <3>2. ASSUME NEW pc \in {"wait", "held", "work", "undo"}, Goto(r, pc)
          PROVE  /\ req' \in [Requests -> HandlerTypes] /\ req'[r].pc \notin {"sign", "relay"}
                 /\ \A q \in Requests \ {r} : req'[q] = req[q]
      <4>1. pc \in Inside \cup {"idle", "wait"} /\ pc \notin {"sign", "relay"}
        BY DEF Inside
      <4> QED BY <3>2, <4>1, GotoTypes
    <3> QED BY <2>1, <3>1, <3>2
  <2>3. ClientTypes' /\ FileTypes' /\ receipts' \subseteq Ids
    BY <1>1, <2>1 DEF bucketVars, clientVars, fileVars, ClientTypes, FileTypes, TableTypes
  <2> QED BY <2>1, <2>2, <2>3, ServeKeeps DEF bucketVars, clientVars
<1>3. ASSUME NEW u \in Ids, NEW s \in Sources, NEW d \in Lifetimes, Reserve(r, u, s, d)
      PROVE  (TypeOK /\ Refs)'
  <2>1. /\ UNCHANGED <<status, confirm, cleanup, tomb, issued, url, flight, fileVars, worker, faults>>
        /\ receipts' = receipts \cup {u} /\ left' = [left EXCEPT ![u] = d]
        /\ home' = [home EXCEPT ![u] = s]
        /\ req' = [req EXCEPT ![r] = [@ EXCEPT !.pc = "sign", !.id = u, !.ttl = d]]
    BY <1>3 DEF Reserve
  <2>2. d \in 1..Longest /\ Never \in Nat /\ Longest \in Nat
    BY Bounds
  <2>3. [req[r] EXCEPT !.pc = "sign", !.id = u, !.ttl = d] \in HandlerTypes
    <3>1. req[r] \in HandlerTypes /\ d \in 0..Longest /\ "sign" \in Inside
      BY <1>1, <2>2 DEF Inside
    <3> HIDE DEF Inside
    <3> QED BY <3>1 DEF HandlerTypes
  <2>4. req' \in [Requests -> HandlerTypes]
    BY <1>1, <2>1, <2>3
  <2>5. req'[r].id = u /\ \A q \in Requests \ {r} : req'[q] = req[q]
    BY <1>1, <2>1 DEF HandlerTypes
  <2>6. ClientTypes' /\ home'[u] # None /\ \A v \in Ids \ {u} : home'[v] = home[v]
    BY <1>1, <2>1, <2>2, NoneAssumption DEF ClientTypes
  <2>7. FileTypes' /\ receipts' \subseteq Ids
    BY <1>1, <2>1 DEF fileVars, FileTypes, TableTypes
  <2> QED BY <2>1, <2>4, <2>5, <2>6, <2>7, ServeKeeps
<1>4. CASE Sign(r)
  <2> DEFINE u == req[r].id
  <2>1. /\ UNCHANGED <<status, confirm, cleanup, tomb, left, flight, home, fileVars, worker>>
        /\ Return(r) /\ (UNCHANGED faults \/ Fault)
        /\ receipts' \subseteq receipts
        /\ \/ issued' = issued \cup {u} /\ url' = [url EXCEPT ![u] = req[r].ttl]
           \/ UNCHANGED <<issued, url>>
    BY <1>4 DEF Sign, NoFault
  <2>2. u \in Ids /\ home[u] # None /\ req[r].ttl \in 0..Longest
    BY <1>1, <1>4 DEF Sign, Refs, HandlerTypes
  <2>3. ClientTypes' /\ issued' \subseteq issued \cup {u}
    BY <1>1, <2>1, <2>2 DEF ClientTypes
  <2>4. FileTypes' /\ receipts' \subseteq Ids
    BY <1>1, <2>1 DEF fileVars, FileTypes, TableTypes
  <2>5. /\ req' \in [Requests -> HandlerTypes] /\ req'[r].pc = "idle"
        /\ \A q \in Requests \ {r} : req'[q] = req[q]
    BY <2>1, ReturnTypes
  <2>6. \A v \in Ids : home[v] # None \/ v \in issued' \ issued => home'[v] # None
    BY <2>1, <2>2, <2>3
  <2> HIDE DEF u
  <2> QED BY <2>1, <2>3, <2>4, <2>5, <2>6, ServeKeeps
<1>5. ASSUME NEW s \in Sources, CopyFinal(r, s) PROVE (TypeOK /\ Refs)'
  <2>1. /\ UNCHANGED <<bucketVars, clientVars, staging, worker, faults>>
        /\ final' = final \cup {s}
        /\ req' = [req EXCEPT ![r] = [@ EXCEPT !.pc = "row", !.at = s]]
    BY <1>5 DEF CopyFinal
  <2>2. [req[r] EXCEPT !.pc = "row", !.at = s] \in HandlerTypes
    BY <1>1 DEF HandlerTypes, Inside
  <2>3. req' \in [Requests -> HandlerTypes]
    BY <1>1, <2>1, <2>2
  <2>4. req'[r].pc = "row" /\ \A q \in Requests \ {r} : req'[q] = req[q]
    BY <1>1, <2>1 DEF HandlerTypes
  <2>5. ClientTypes' /\ FileTypes' /\ receipts' \subseteq Ids
    BY <1>1, <2>1 DEF bucketVars, clientVars, ClientTypes, FileTypes, TableTypes
  <2> QED BY <2>1, <2>3, <2>4, <2>5, ServeKeeps DEF bucketVars, clientVars
<1>6. CASE UndoCopy(r) \/ RelayEnd(r) \/ Leave(r)
  <2>1. UNCHANGED <<bucketVars, clientVars, worker, faults>> /\ Return(r)
    BY <1>6 DEF UndoCopy, RelayEnd, Leave
  <2>2. FileTypes'
    <3>1. CASE UndoCopy(r) \/ Leave(r)
      BY <1>1, <3>1 DEF UndoCopy, Leave, FileTypes
    <3>2. CASE RelayEnd(r)
      <4>1. home[req[r].id] \in Sources
        BY <1>1, <3>2 DEF RelayEnd, Refs, ClientTypes
      <4> QED BY <1>1, <3>2, <4>1 DEF RelayEnd, FileTypes
    <3> QED BY <1>6, <3>1, <3>2
  <2>3. /\ req' \in [Requests -> HandlerTypes] /\ req'[r].pc = "idle"
        /\ \A q \in Requests \ {r} : req'[q] = req[q]
    BY <2>1, ReturnTypes
  <2>4. ClientTypes' /\ receipts' \subseteq Ids
    BY <1>1, <2>1 DEF bucketVars, clientVars, ClientTypes, TableTypes
  <2> QED BY <2>1, <2>2, <2>3, <2>4, ServeKeeps DEF bucketVars, clientVars
<1>7. ASSUME NEW u \in Ids, RelayStart(r, u) PROVE (TypeOK /\ Refs)'
  <2>1. /\ UNCHANGED <<bucketVars, clientVars, fileVars, worker, faults>> /\ u \in issued
        /\ req' = [req EXCEPT ![r] = [@ EXCEPT !.pc = "relay", !.id = u]]
    BY <1>7 DEF RelayStart
  <2>2. [req[r] EXCEPT !.pc = "relay", !.id = u] \in HandlerTypes
    BY <1>1 DEF HandlerTypes, Inside
  <2>3. req' \in [Requests -> HandlerTypes]
    BY <1>1, <2>1, <2>2
  <2>4. req'[r].id = u /\ \A q \in Requests \ {r} : req'[q] = req[q]
    BY <1>1, <2>1 DEF HandlerTypes
  <2>5. home'[u] # None
    BY <2>1 DEF Refs, clientVars
  <2>6. ClientTypes' /\ FileTypes' /\ receipts' \subseteq Ids
    BY <1>1, <2>1 DEF bucketVars, clientVars, fileVars, ClientTypes, FileTypes, TableTypes
  <2> QED BY <2>1, <2>3, <2>4, <2>5, <2>6, ServeKeeps DEF bucketVars, clientVars
<1> QED BY <1>2, <1>3, <1>4, <1>5, <1>6, <1>7 DEF Serve

(* What a step that is no handler's has to keep. *)
LEMMA OthersKeep ==
  ASSUME TypeOK, Refs, ClientTypes', UNCHANGED <<req, home, issued>>,
         \A u \in Ids : flight'[u] > 0 => flight[u] > 0 \/ u \in issued,
         worker' \in Workers, TableTypes', FileTypes',
         worker'.pc \in {"late", "note"} => tomb' # None
  PROVE  (TypeOK /\ Refs)'
<1>1. TypeOK'
  BY TypeParts, PartsTogether
<1>2. Refs'
  BY DEF Refs
<1> QED BY <1>1, <1>2

(* The steps of the worker keep types and references. *)
LEMMA CleanTypes ==
  ASSUME TypeOK, Refs, Clean
  PROVE  (TypeOK /\ Refs)'
<1>1. TableTypes /\ ClientTypes /\ FileTypes /\ worker \in Workers
  BY TypeParts
<1>2. CASE TakeJob \/ Lock \/ Swept \/ TakeTombstone \/ SweptLate
  <2>1. WorkerOnly /\ NoFault
    BY <1>2 DEF TakeJob, Lock, Swept, TakeTombstone, SweptLate
  <2>2. worker' \in Workers /\ (worker'.pc \in {"late", "note"} => tomb # None)
    <3>1. CASE TakeJob
      BY <3>1, IdleTypes DEF TakeJob, IdleWorker, Workers
    <3>2. CASE Lock
      <4>1. worker' = [worker EXCEPT !.pc = "purge", !.todo = Sources \X Namespaces]
        BY <3>2 DEF Lock
      <4> QED BY <1>1, <4>1 DEF Workers
    <3>3. CASE Swept
      <4>1. worker' = IdleWorker \/ worker' = [worker EXCEPT !.pc = "finish"]
        BY <3>3 DEF Swept
      <4>2. CASE worker' = IdleWorker
        BY <4>2, IdleTypes DEF IdleWorker
      <4>3. CASE worker' = [worker EXCEPT !.pc = "finish"]
        BY <1>1, <4>3 DEF Workers
      <4> QED BY <4>1, <4>2, <4>3
    <3>4. CASE TakeTombstone
      <4>1. worker' = [pc |-> "late", todo |-> Sources \X {"staging"}, ok |-> TRUE, lapse |-> 0]
            /\ tomb # None
        BY <3>4 DEF TakeTombstone, IdleWorker
      <4>2. Sources \X {"staging"} \in SUBSET (Sources \X Namespaces)
        BY DEF Namespaces
      <4> QED BY <4>1, <4>2 DEF Workers
    <3>5. CASE SweptLate
      <4>1. worker' = [worker EXCEPT !.pc = "note"] /\ worker.pc = "late"
        BY <3>5 DEF SweptLate
      <4> QED BY <1>1, <4>1 DEF Workers, Refs
    <3> QED BY <1>2, <3>1, <3>2, <3>3, <3>4, <3>5
  <2>3. TableTypes' /\ ClientTypes' /\ FileTypes'
    BY <1>1, <2>1 DEF WorkerOnly, NoFault, bucketVars, clientVars, fileVars,
                      TableTypes, ClientTypes, FileTypes
  <2> QED BY <2>1, <2>2, <2>3, OthersKeep DEF WorkerOnly, NoFault, bucketVars, clientVars, fileVars
<1>3. CASE FinishBucketDeletion
  <2>1. /\ worker' = IdleWorker /\ UNCHANGED <<cleanup, clientVars, fileVars, req>>
        /\ (UNCHANGED faults \/ Fault)
        /\ \/ status' = "absent" /\ confirm' = 0 /\ receipts' = {}
              /\ tomb' = [until |-> Week, next |-> Retry]
           \/ UNCHANGED <<status, confirm, receipts, tomb>>
    BY <1>3 DEF FinishBucketDeletion, NoFault
  <2>2. [until |-> Week, next |-> Retry] \in Tombstones
    BY TimeAssumption DEF Tombstones
  <2>3. TableTypes'
    BY <1>1, <2>1, <2>2, FaultTypes, TimeAssumption DEF TableTypes
  <2>4. ClientTypes' /\ FileTypes'
    BY <1>1, <2>1 DEF clientVars, fileVars, ClientTypes, FileTypes
  <2>5. worker' \in Workers /\ worker'.pc = "idle"
    BY <2>1, IdleTypes DEF IdleWorker
  <2> QED BY <2>1, <2>3, <2>4, <2>5, OthersKeep DEF clientVars
<1>4. CASE UpdateTombstone
  <2>1. /\ worker' = IdleWorker /\ worker.pc = "note"
        /\ UNCHANGED <<status, confirm, cleanup, receipts, clientVars, fileVars, req>>
        /\ (UNCHANGED faults \/ Fault)
        /\ tomb' = None \/ tomb' = tomb \/ tomb' = [tomb EXCEPT !.next = Retry]
    BY <1>4 DEF UpdateTombstone, NoFault
  <2>2. tomb \in Tombstones
    BY <1>1, <2>1 DEF Refs, TableTypes
  <2>3. [tomb EXCEPT !.next = Retry] \in Tombstones
    BY <2>2, TimeAssumption DEF Tombstones
  <2>4. TableTypes'
    BY <1>1, <2>1, <2>3, FaultTypes DEF TableTypes
  <2>5. ClientTypes' /\ FileTypes'
    BY <1>1, <2>1 DEF clientVars, fileVars, ClientTypes, FileTypes
  <2>6. worker' \in Workers /\ worker'.pc = "idle"
    BY <2>1, IdleTypes DEF IdleWorker
  <2> QED BY <2>1, <2>4, <2>5, <2>6, OthersKeep DEF clientVars
<1>5. ASSUME NEW s \in Sources, NEW n \in Namespaces, Purge(s, n) PROVE (TypeOK /\ Refs)'
  <2>1. /\ UNCHANGED <<bucketVars, clientVars, req>> /\ (UNCHANGED faults \/ Fault)
        /\ worker.pc = "purge" /\ final' \subseteq final /\ staging' \subseteq staging
        /\ worker' = IdleWorker \/ worker' = [worker EXCEPT !.todo = @ \ {<<s, n>>}]
    BY <1>5 DEF Purge, NoFault, fileVars
  <2>2. worker' \in Workers /\ worker'.pc \in {"idle", "purge"}
    <3>1. CASE worker' = IdleWorker
      BY <3>1, IdleTypes DEF IdleWorker
    <3>2. CASE worker' = [worker EXCEPT !.todo = @ \ {<<s, n>>}]
      BY <1>1, <2>1, <3>2 DEF Workers
    <3> QED BY <2>1, <3>1, <3>2
  <2>3. TableTypes' /\ ClientTypes' /\ FileTypes'
    BY <1>1, <2>1, FaultTypes DEF bucketVars, clientVars, TableTypes, ClientTypes, FileTypes
  <2> QED BY <2>1, <2>2, <2>3, OthersKeep DEF bucketVars, clientVars
<1>6. ASSUME NEW s \in Sources, SweepLate(s) PROVE (TypeOK /\ Refs)'
  <2>1. /\ UNCHANGED <<bucketVars, clientVars, final, req>> /\ (UNCHANGED faults \/ Fault)
        /\ worker.pc = "late" /\ staging' \subseteq staging
        /\ \/ worker' = [worker EXCEPT !.todo = @ \ {<<s, "staging">>}]
           \/ worker' = [worker EXCEPT !.pc = "note", !.ok = FALSE]
    BY <1>6 DEF SweepLate, NoFault
  <2>2. worker' \in Workers
    <3>1. CASE worker' = [worker EXCEPT !.todo = @ \ {<<s, "staging">>}]
      BY <1>1, <3>1 DEF Workers
    <3>2. CASE worker' = [worker EXCEPT !.pc = "note", !.ok = FALSE]
      BY <1>1, <3>2 DEF Workers
    <3> QED BY <2>1, <3>1, <3>2
  <2>3. TableTypes' /\ ClientTypes' /\ FileTypes'
    BY <1>1, <2>1, FaultTypes DEF bucketVars, clientVars, TableTypes, ClientTypes, FileTypes
  <2>4. tomb' # None
    BY <2>1 DEF Refs, bucketVars
  <2> QED BY <2>1, <2>2, <2>3, <2>4, OthersKeep DEF bucketVars, clientVars
<1> QED BY <1>2, <1>3, <1>4, <1>5, <1>6 DEF Clean

(* Every step keeps types and references. *)
LEMMA TypeStep == TypeOK /\ Refs /\ [Next]_vars => (TypeOK /\ Refs)'
<1> SUFFICES ASSUME TypeOK, Refs, [Next]_vars PROVE (TypeOK /\ Refs)'
  OBVIOUS
<1>1. /\ TableTypes /\ ClientTypes /\ FileTypes /\ worker \in Workers
      /\ req \in [Requests -> HandlerTypes]
  BY TypeParts
<1>2. CASE Restart
  <2>1. /\ UNCHANGED <<bucketVars, clientVars, fileVars>> /\ Fault
        /\ worker' = IdleWorker /\ req' = [r \in Requests |-> IdleReq]
    BY <1>2 DEF Restart
  <2>2. /\ req' \in [Requests -> HandlerTypes] /\ \A r \in Requests : req'[r].pc = "idle"
        /\ worker' \in Workers /\ worker'.pc = "idle"
    <3>1. IdleReq.pc = "idle" /\ IdleWorker.pc = "idle"
      BY DEF IdleReq, IdleWorker
    <3> QED BY <2>1, <3>1, IdleTypes
  <2>3. TableTypes' /\ ClientTypes' /\ FileTypes'
    BY <1>1, <2>1, FaultTypes DEF bucketVars, clientVars, fileVars, TableTypes, ClientTypes, FileTypes
  <2>4. TypeOK'
    BY <2>2, <2>3, PartsTogether
  <2>5. Refs'
    BY <2>1, <2>2 DEF Refs, clientVars
  <2> QED BY <2>4, <2>5
<1>3. CASE PruneUploadGrants \/ PrepareBucketDeletion
  <2>1. /\ UNCHANGED <<status, cleanup, tomb, clientVars, fileVars, req, worker, faults>>
        /\ receipts' \subseteq receipts /\ confirm' \in {confirm, ConfirmWait + ConfirmLife}
    BY <1>3 DEF PruneUploadGrants, PrepareBucketDeletion
  <2>2. TableTypes' /\ ClientTypes' /\ FileTypes'
    BY <1>1, <2>1, TimeAssumption DEF clientVars, fileVars, TableTypes, ClientTypes, FileTypes
  <2>3. worker'.pc \in {"late", "note"} => tomb' # None
    BY <2>1 DEF Refs
  <2> QED BY <1>1, <2>1, <2>2, <2>3, OthersKeep DEF clientVars
<1>4. CASE DeleteBucket
  <2>1. /\ status' = "deleting" /\ confirm' = 0
        /\ cleanup' = Max({0} \cup {left[u] + Grace : u \in receipts})
        /\ UNCHANGED <<receipts, tomb, clientVars, fileVars, req, worker, faults>>
    BY <1>4 DEF DeleteBucket
  <2>2. cleanup' \in 0..(Longest + Grace)
    BY <1>1, <2>1, Deadline DEF TableTypes, ClientTypes
  <2>3. TableTypes' /\ ClientTypes' /\ FileTypes'
    BY <1>1, <2>1, <2>2, TimeAssumption DEF clientVars, fileVars, TableTypes, ClientTypes, FileTypes
  <2>4. worker'.pc \in {"late", "note"} => tomb' # None
    BY <2>1 DEF Refs
  <2> QED BY <1>1, <2>1, <2>3, <2>4, OthersKeep DEF clientVars
<1>5. ASSUME NEW u \in Ids, StartPut(u) PROVE (TypeOK /\ Refs)'
  <2>1. /\ UNCHANGED <<bucketVars, issued, left, url, home, fileVars, req, worker, faults>>
        /\ u \in issued /\ flight' = [flight EXCEPT ![u] = MaxTransfer]
    BY <1>5 DEF StartPut
  <2>2. TableTypes' /\ ClientTypes' /\ FileTypes'
    BY <1>1, <2>1, TimeAssumption DEF bucketVars, fileVars, TableTypes, ClientTypes, FileTypes
  <2>3. \A v \in Ids : flight'[v] > 0 => flight[v] > 0 \/ v \in issued
    BY <1>1, <2>1 DEF ClientTypes
  <2>4. worker'.pc \in {"late", "note"} => tomb' # None
    BY <2>1 DEF Refs, bucketVars
  <2> QED BY <1>1, <2>1, <2>2, <2>3, <2>4, OthersKeep
<1>6. ASSUME NEW u \in Ids, EndPut(u) PROVE (TypeOK /\ Refs)'
  <2>1. /\ UNCHANGED <<bucketVars, issued, left, url, home, final, req, worker, faults>>
        /\ flight[u] > 0 /\ flight' = [flight EXCEPT ![u] = 0]
        /\ staging' = staging \cup {home[u]}
    BY <1>6 DEF EndPut
  <2>2. home[u] \in Sources
    BY <1>1, <2>1 DEF Refs, ClientTypes
  <2>3. TableTypes' /\ ClientTypes' /\ FileTypes'
    BY <1>1, <2>1, <2>2, TimeAssumption DEF bucketVars, TableTypes, ClientTypes, FileTypes
  <2>4. \A v \in Ids : flight'[v] > 0 => flight[v] > 0 \/ v \in issued
    BY <1>1, <2>1 DEF ClientTypes
  <2>5. worker'.pc \in {"late", "note"} => tomb' # None
    BY <2>1 DEF Refs, bucketVars
  <2> QED BY <1>1, <2>1, <2>3, <2>4, <2>5, OthersKeep
<1>7. CASE UNCHANGED vars
  <2>1. UNCHANGED <<bucketVars, clientVars, fileVars, req, worker, faults>>
    BY <1>7 DEF vars
  <2>2. TableTypes' /\ ClientTypes' /\ FileTypes'
    BY <1>1, <2>1 DEF bucketVars, clientVars, fileVars, TableTypes, ClientTypes, FileTypes
  <2>3. worker'.pc \in {"late", "note"} => tomb' # None
    BY <2>1 DEF Refs, bucketVars
  <2> QED BY <1>1, <2>1, <2>2, <2>3, OthersKeep DEF clientVars
<1> QED
  BY <1>2, <1>3, <1>4, <1>5, <1>6, <1>7, TickTypes, CleanTypes, ServeTypes DEF Next

-----------------------------------------------------------------------------
(* A URL lives at most one unit longer than its receipt says, the time a     *)
(* handler may take from the reservation to the signature; an id is signed   *)
(* by one handler, once.                                                     *)
Signing ==
  /\ \A u \in Ids : url[u] > 0 => home[u] # None /\ left[u] + 1 >= url[u]
  /\ \A r \in Requests : At(r, "sign") =>
       /\ url[req[r].id] = 0 /\ req[r].ttl >= 1
       /\ left[req[r].id] + req[r].lapse >= req[r].ttl
  /\ \A q, r \in Requests : At(q, "sign") /\ At(r, "sign") /\ req[q].id = req[r].id => q = r

(* The deletion knows of every URL that works or is about to: by its receipt *)
(* until it is accepted, by its deadline from then on.                       *)
Open(u) == url[u] > 0 \/ \E r \in Requests : At(r, "sign") /\ req[r].id = u
Covered ==
  \A u \in Ids : Open(u) =>
    /\ status # "absent"
    /\ status = "active" => u \in receipts
    /\ status = "deleting" => cleanup >= left[u] + Grace

(* All that the steps below start from. *)
Grants == TypeOK /\ Refs /\ Signing /\ Covered /\ Exclusion /\ OnlyDeleting /\ NobodyWorks

(* What is open has not passed its expiry. *)
LEMMA OpenInTime == TypeOK /\ Refs /\ Signing => \A u \in Ids : Open(u) => left[u] >= 0
<1> SUFFICES ASSUME TypeOK, Refs, Signing, NEW u \in Ids, Open(u) PROVE left[u] >= 0
  OBVIOUS
<1>1. left[u] \in Int /\ url[u] \in Nat
  BY Bounds DEF TypeOK
<1>2. CASE url[u] > 0
  BY <1>1, <1>2 DEF Signing
<1>3. ASSUME NEW r \in Requests, At(r, "sign"), req[r].id = u PROVE left[u] >= 0
  <2>1. req[r].ttl \in Nat /\ req[r].lapse \in 0..1
    BY Bounds DEF TypeOK
  <2> QED BY <1>1, <1>3, <2>1 DEF Signing
<1> QED BY <1>2, <1>3 DEF Open

(* Steps after which no more ids are open than before. *)
LEMMA FewerOpen ==
  ASSUME Signing, Covered,
         UNCHANGED <<status, cleanup, left, url, home>>,
         \A u \in Ids : Open(u) /\ u \in receipts => u \in receipts',
         \A r \in Requests : req'[r].pc = "sign" => req'[r] = req[r]
  PROVE  Signing' /\ Covered'
<1>1. \A u \in Ids : Open(u)' => Open(u)
  BY DEF Open, At
<1>2. Covered'
  BY <1>1 DEF Covered
<1>3. Signing'
  BY DEF Signing, At
<1> QED BY <1>2, <1>3

(* The clock brings a URL, its receipt and the deadline nearer together. *)
LEMMA TickGrants ==
  ASSUME Grants, Tick PROVE Signing' /\ Covered'
<1>1. /\ UNCHANGED <<status, receipts, home>>
      /\ \A r \in Requests : At(r, "sign") => req[r].lapse = 0
      /\ \A r \in Requests : req'[r] = IF At(r, "sign") THEN [req[r] EXCEPT !.lapse = 1] ELSE req[r]
      /\ cleanup' = Down(cleanup)
      /\ \A u \in Ids : left'[u] = Max({left[u] - 1, -Never}) /\ url'[u] = Down(url[u])
  BY DEF Tick
<1>2. Never \in Nat /\ Longest \in Nat /\ Grace \in Nat /\ Grace < Never
  BY Bounds, TimeAssumption
<1>3. \A u \in Ids : left[u] \in Int /\ left[u] >= -Never /\ url[u] \in Nat
  <2>1. left \in [Ids -> (-Never)..Longest] /\ url \in [Ids -> 0..Longest]
    BY DEF Grants, TypeOK
  <2> QED BY <1>2, <2>1
<1>4. \A u \in Ids : left'[u] = IF left[u] - 1 <= -Never THEN -Never ELSE left[u] - 1
  <2> SUFFICES ASSUME NEW u \in Ids
               PROVE  left'[u] = IF left[u] - 1 <= -Never THEN -Never ELSE left[u] - 1
    OBVIOUS
  <2>1. left[u] - 1 \in Int /\ -Never \in Int
    BY <1>2, <1>3
  <2> QED BY <1>1, <2>1, MaxTwo
<1>5. \A u \in Ids : url'[u] = IF url[u] = 0 THEN 0 ELSE url[u] - 1
  BY <1>1, <1>3, DownNat
<1>6. cleanup \in Nat /\ cleanup' = IF cleanup = 0 THEN 0 ELSE cleanup - 1
  <2>1. cleanup \in Nat
    BY <1>2 DEF Grants, TypeOK
  <2> QED BY <1>1, <2>1, DownNat
<1>7. \A r \in Requests :
        /\ req[r] \in HandlerTypes
        /\ At(r, "sign")' <=> At(r, "sign")
        /\ req'[r].id = req[r].id /\ req'[r].ttl = req[r].ttl
        /\ At(r, "sign") => req'[r].lapse = 1
  <2> SUFFICES ASSUME NEW r \in Requests
               PROVE  /\ req[r] \in HandlerTypes
                      /\ At(r, "sign")' <=> At(r, "sign")
                      /\ req'[r].id = req[r].id /\ req'[r].ttl = req[r].ttl
                      /\ At(r, "sign") => req'[r].lapse = 1
    OBVIOUS
  <2>1. req[r] \in HandlerTypes
    BY TypeParts DEF Grants
  <2>2. CASE At(r, "sign")
    BY <1>1, <2>1, <2>2 DEF At, HandlerTypes
  <2>3. CASE ~At(r, "sign")
    BY <1>1, <2>1, <2>3 DEF At
  <2> QED BY <2>1, <2>2, <2>3
<1>8. Signing'
  <2>1. ASSUME NEW u \in Ids, url'[u] > 0 PROVE home'[u] # None /\ left'[u] + 1 >= url'[u]
    <3>1. url[u] > 0 /\ home[u] # None /\ left[u] + 1 >= url[u]
      BY <1>3, <1>5, <2>1 DEF Grants, Signing
    <3> QED BY <1>1, <1>2, <1>3, <1>4, <1>5, <3>1
  <2>2. ASSUME NEW r \in Requests, At(r, "sign")'
        PROVE  /\ url'[req'[r].id] = 0 /\ req'[r].ttl >= 1
               /\ left'[req'[r].id] + req'[r].lapse >= req'[r].ttl
    <3> DEFINE u == req[r].id
    <3>1. /\ At(r, "sign") /\ req'[r].id = u /\ req'[r].ttl = req[r].ttl
          /\ req'[r].lapse = 1 /\ req[r].lapse = 0
      BY <1>1, <1>7, <2>2
    <3>2. u \in Ids
      BY <3>1 DEF Grants, Refs, At
    <3>3. url[u] = 0 /\ req[r].ttl >= 1 /\ left[u] + 0 >= req[r].ttl
      BY <3>1 DEF Grants, Signing
    <3>4. req[r].ttl \in Nat
      BY <1>2, <1>7 DEF HandlerTypes
    <3> HIDE DEF u
    <3>5. url'[u] = 0 /\ left'[u] + 1 >= req[r].ttl
      BY <1>2, <1>3, <1>4, <1>5, <3>2, <3>3, <3>4
    <3> QED BY <3>1, <3>3, <3>5
  <2>3. \A q, r \in Requests : At(q, "sign")' /\ At(r, "sign")' /\ req'[q].id = req'[r].id => q = r
    BY <1>7 DEF Grants, Signing
  <2> QED BY <2>1, <2>2, <2>3 DEF Signing
<1>9. Covered'
  <2> SUFFICES ASSUME NEW u \in Ids, Open(u)'
               PROVE  /\ status' # "absent"
                      /\ status' = "active" => u \in receipts'
                      /\ status' = "deleting" => cleanup' >= left'[u] + Grace
    BY DEF Covered
  <2>1. Open(u)
    BY <1>3, <1>5, <1>7 DEF Open
  <2>2. /\ status # "absent"
        /\ status = "active" => u \in receipts
        /\ status = "deleting" => cleanup >= left[u] + Grace
    BY <2>1 DEF Grants, Covered
  <2> QED BY <1>1, <1>2, <1>3, <1>4, <1>6, <2>2
<1> QED BY <1>8, <1>9

(* The steps of a handler: only Reserve opens an id, with its receipt. *)
LEMMA ServeGrants ==
  ASSUME Grants, NEW r \in Requests, Enter(r) \/ Serve(r)
  PROVE  Signing' /\ Covered'
<1>1. req \in [Requests -> HandlerTypes]
  BY TypeParts DEF Grants
<1>2. ASSUME NEW u \in Ids, NEW s \in Sources, NEW d \in Lifetimes, Reserve(r, u, s, d)
      PROVE  Signing' /\ Covered'
  <2>1. /\ UNCHANGED <<status, confirm, cleanup, tomb, issued, url, flight, fileVars, worker, faults>>
        /\ status = "active" /\ home[u] = None
        /\ receipts' = receipts \cup {u} /\ left' = [left EXCEPT ![u] = d]
        /\ home' = [home EXCEPT ![u] = s]
        /\ req' = [req EXCEPT ![r] = [@ EXCEPT !.pc = "sign", !.id = u, !.ttl = d]]
    BY <1>2 DEF Reserve
  <2>2. d \in 1..Longest /\ Longest \in Nat
    BY Bounds
  <2>3. /\ left'[u] = d /\ home'[u] = s /\ s # None
        /\ \A v \in Ids \ {u} : left'[v] = left[v] /\ home'[v] = home[v]
    BY <2>1, NoneAssumption DEF Grants, TypeOK
  <2>4. req'[r] = [req[r] EXCEPT !.pc = "sign", !.id = u, !.ttl = d]
        /\ \A q \in Requests \ {r} : req'[q] = req[q]
    BY <1>1, <2>1
  <2>5. req'[r].id = u /\ req'[r].ttl = d /\ req'[r].lapse \in 0..1
    BY <1>1, <2>4 DEF HandlerTypes
  <2>6. url[u] = 0 /\ \A q \in Requests : At(q, "sign") => req[q].id \in Ids \ {u}
    <3>1. url[u] \in Nat
      BY <2>2 DEF Grants, TypeOK
    <3> QED BY <2>1, <3>1 DEF Grants, Refs, Signing, At
  <2>7. Signing'
    <3>1. \A v \in Ids : url'[v] > 0 => home'[v] # None /\ left'[v] + 1 >= url'[v]
      BY <2>1, <2>3, <2>6 DEF Grants, Signing
    <3>2. /\ url'[req'[r].id] = 0 /\ req'[r].ttl >= 1
          /\ left'[req'[r].id] + req'[r].lapse >= req'[r].ttl
      BY <2>1, <2>2, <2>3, <2>5, <2>6
    <3>3. ASSUME NEW q \in Requests \ {r}, At(q, "sign")'
          PROVE  /\ url'[req'[q].id] = 0 /\ req'[q].ttl >= 1
                 /\ left'[req'[q].id] + req'[q].lapse >= req'[q].ttl
                 /\ req'[q].id # u
      <4>1. At(q, "sign") /\ req'[q] = req[q]
        BY <2>4, <3>3 DEF At
      <4>2. req[q].id \in Ids \ {u}
        BY <2>6, <4>1
      <4> QED BY <2>1, <2>3, <4>1, <4>2 DEF Grants, Signing
    <3>4. ASSUME NEW p \in Requests, NEW q \in Requests,
                 At(p, "sign")', At(q, "sign")', req'[p].id = req'[q].id
          PROVE  p = q
      <4>1. CASE p = r \/ q = r
        BY <2>5, <3>3, <3>4, <4>1
      <4>2. CASE p # r /\ q # r
        BY <2>4, <3>4, <4>2 DEF Grants, Signing, At
      <4> QED BY <4>1, <4>2
    <3> QED BY <3>1, <3>2, <3>3, <3>4 DEF Signing
  <2>8. Covered'
    <3> SUFFICES ASSUME NEW v \in Ids, Open(v)'
                 PROVE  status' = "active" /\ v \in receipts'
      BY DEF Covered
    <3>1. CASE v = u
      BY <2>1, <3>1
    <3>2. CASE v # u
      <4>1. Open(v)
        BY <2>1, <2>4, <2>5, <3>2 DEF Open, At
      <4> QED BY <2>1, <4>1 DEF Grants, Covered
    <3> QED BY <3>1, <3>2
  <2> QED BY <2>7, <2>8
<1>3. CASE Sign(r)
  <2> DEFINE u == req[r].id
  <2>1. /\ UNCHANGED <<status, confirm, cleanup, tomb, left, flight, home, fileVars, worker>>
        /\ Return(r) /\ At(r, "sign")
        /\ \/ url' = [url EXCEPT ![u] = req[r].ttl] /\ receipts' = receipts
           \/ url' = url /\ receipts' = receipts \ {u}
    BY <1>3 DEF Sign
  <2>2. u \in Ids /\ home[u] # None
    BY <2>1 DEF Grants, Refs, At
  <2>3. /\ url[u] = 0 /\ req[r].ttl >= 1 /\ left[u] + req[r].lapse >= req[r].ttl
        /\ req[r].lapse \in 0..1 /\ req[r].ttl \in Nat
    BY <1>1, <2>1, Bounds DEF Grants, Signing, HandlerTypes
  <2>4. \A q \in Requests : At(q, "sign")' => At(q, "sign") /\ q # r /\ req'[q] = req[q]
    BY <1>1, <2>1, ReturnTypes DEF Grants, At
  <2>5. \A q \in Requests : At(q, "sign") /\ q # r => req[q].id # u
    BY <2>1 DEF Grants, Signing
  <2>6. /\ url'[u] = 0 \/ url'[u] = req[r].ttl
        /\ \A v \in Ids \ {u} : url'[v] = url[v]
        /\ \A v \in Ids : left[v] \in Int /\ url[v] \in Nat
    <3>1. url \in [Ids -> 0..Longest] /\ left \in [Ids -> (-Never)..Longest]
          /\ Longest \in Nat /\ Never \in Nat
      BY Bounds DEF Grants, TypeOK
    <3> HIDE DEF u
    <3> QED BY <2>1, <2>2, <2>3, <3>1
  <2>7. Signing'
    <3>1. ASSUME NEW v \in Ids, url'[v] > 0 PROVE home'[v] # None /\ left'[v] + 1 >= url'[v]
      <4>1. CASE v = u
        <5>1. url'[u] = req[r].ttl
          BY <2>3, <2>6, <3>1, <4>1
        <5> HIDE DEF u
        <5> QED BY <2>1, <2>2, <2>3, <2>6, <4>1, <5>1
      <4>2. CASE v # u
        BY <2>1, <2>6, <3>1, <4>2 DEF Grants, Signing
      <4> QED BY <4>1, <4>2
    <3>2. ASSUME NEW q \in Requests, At(q, "sign")'
          PROVE  /\ url'[req'[q].id] = 0 /\ req'[q].ttl >= 1
                 /\ left'[req'[q].id] + req'[q].lapse >= req'[q].ttl
      <4>1. At(q, "sign") /\ req'[q] = req[q] /\ req[q].id # u /\ req[q].id \in Ids
        BY <2>4, <2>5, <3>2 DEF Grants, Refs, At
      <4>2. url'[req[q].id] = url[req[q].id]
        BY <2>6, <4>1
      <4> QED BY <2>1, <4>1, <4>2 DEF Grants, Signing
    <3>3. \A p, q \in Requests : At(p, "sign")' /\ At(q, "sign")' /\ req'[p].id = req'[q].id => p = q
      BY <2>4 DEF Grants, Signing
    <3> QED BY <3>1, <3>2, <3>3 DEF Signing
  <2>8. Covered'
    <3> SUFFICES ASSUME NEW v \in Ids, Open(v)'
                 PROVE  /\ status' # "absent"
                        /\ status' = "active" => v \in receipts'
                        /\ status' = "deleting" => cleanup' >= left'[v] + Grace
      BY DEF Covered
    <3>1. Open(v)
      <4>1. CASE v = u
        BY <2>1, <4>1 DEF Open
      <4>2. CASE v # u
        BY <2>4, <2>6, <4>2 DEF Open
      <4> QED BY <4>1, <4>2
    <3>2. v = u => receipts' = receipts
      <4>1. ASSUME v = u, url' = url PROVE FALSE
        BY <2>3, <2>4, <2>5, <4>1 DEF Open
      <4> QED BY <2>1, <4>1
    <3>3. v \in receipts => v \in receipts'
      BY <2>1, <3>2
    <3> QED BY <2>1, <3>1, <3>3 DEF Grants, Covered
  <2> QED BY <2>7, <2>8
<1>4. CASE ~(Sign(r) \/ \E u \in Ids, s \in Sources, d \in Lifetimes : Reserve(r, u, s, d))
  <2>1. CASE Enter(r) \/ RLock(r) \/ Recheck(r) \/ SwitchRow(r)
    <3>1. /\ UNCHANGED <<bucketVars, clientVars>>
          /\ (\E pc \in {"wait", "held", "work", "undo"} : Goto(r, pc)) \/ Return(r)
      BY <2>1 DEF Enter, RLock, Recheck, SwitchRow
    <3>2. req'[r].pc # "sign" /\ \A q \in Requests \ {r} : req'[q] = req[q]
      <4>1. CASE Return(r)
        BY <4>1, ReturnTypes DEF Grants
      <4>2. ASSUME NEW pc \in {"wait", "held", "work", "undo"}, Goto(r, pc)
            PROVE  req'[r].pc # "sign" /\ \A q \in Requests \ {r} : req'[q] = req[q]
        <5>1. pc \in Inside \cup {"idle", "wait"} /\ pc # "sign"
          BY DEF Inside
        <5> QED BY <4>2, <5>1, GotoTypes DEF Grants
      <4> QED BY <3>1, <4>1, <4>2
    <3> QED BY <3>1, <3>2, FewerOpen DEF Grants, bucketVars, clientVars
  <2>2. CASE UndoCopy(r) \/ RelayEnd(r) \/ Leave(r)
    <3>1. UNCHANGED <<bucketVars, clientVars>> /\ Return(r)
      BY <2>2 DEF UndoCopy, RelayEnd, Leave
    <3>2. req'[r].pc = "idle" /\ \A q \in Requests \ {r} : req'[q] = req[q]
      BY <3>1, ReturnTypes DEF Grants
    <3> QED BY <3>1, <3>2, FewerOpen DEF Grants, bucketVars, clientVars
  <2>3. ASSUME NEW s \in Sources, CopyFinal(r, s) PROVE Signing' /\ Covered'
    <3>1. /\ UNCHANGED <<bucketVars, clientVars>>
          /\ req' = [req EXCEPT ![r] = [@ EXCEPT !.pc = "row", !.at = s]]
      BY <2>3 DEF CopyFinal
    <3>2. req'[r].pc = "row" /\ \A q \in Requests \ {r} : req'[q] = req[q]
      BY <1>1, <3>1 DEF HandlerTypes
    <3> QED BY <3>1, <3>2, FewerOpen DEF Grants, bucketVars, clientVars
  <2>4. ASSUME NEW u \in Ids, RelayStart(r, u) PROVE Signing' /\ Covered'
    <3>1. /\ UNCHANGED <<bucketVars, clientVars>>
          /\ req' = [req EXCEPT ![r] = [@ EXCEPT !.pc = "relay", !.id = u]]
      BY <2>4 DEF RelayStart
    <3>2. req'[r].pc = "relay" /\ \A q \in Requests \ {r} : req'[q] = req[q]
      BY <1>1, <3>1 DEF HandlerTypes
    <3> QED BY <3>1, <3>2, FewerOpen DEF Grants, bucketVars, clientVars
  <2> QED BY <1>4, <2>1, <2>2, <2>3, <2>4 DEF Serve
<1> QED BY <1>2, <1>3, <1>4 DEF Serve

(* What is neither a handler nor the clock opens no id; the final            *)
(* transaction finds none open, as the lock has kept the handlers out and    *)
(* the deadline has passed.  West of Greenwich the pruning step would fail   *)
(* here: it drops receipts whose URL still works.                            *)
LEMMA OthersGrants ==
  ASSUME ZoneOffset \in Nat, Grants,
         \/ Restart \/ PruneUploadGrants \/ PrepareBucketDeletion \/ DeleteBucket \/ Clean
         \/ \E u \in Ids : StartPut(u) \/ EndPut(u)
         \/ UNCHANGED vars
  PROVE  Signing' /\ Covered'
<1>1. /\ Grace \in Nat \ {0} /\ cleanup \in Nat
      /\ \A u \in Ids : left[u] \in Int /\ url[u] \in Nat
  BY Bounds, TimeAssumption DEF Grants, TypeOK
<1>2. CASE Restart
  <2>1. UNCHANGED <<bucketVars, clientVars>> /\ req' = [r \in Requests |-> IdleReq]
    BY <1>2 DEF Restart
  <2>2. \A r \in Requests : req'[r].pc # "sign"
    BY <2>1 DEF IdleReq
  <2> QED BY <2>1, <2>2, FewerOpen DEF Grants, bucketVars, clientVars
<1>3. CASE PruneUploadGrants
  <2>1. /\ UNCHANGED <<status, confirm, cleanup, tomb, clientVars, req>>
        /\ receipts' = receipts \ {u \in receipts : left[u] + ZoneOffset < -Grace}
    BY <1>3 DEF PruneUploadGrants
  <2>2. \A u \in Ids : Open(u) => ~(left[u] + ZoneOffset < -Grace)
    BY <1>1, OpenInTime DEF Grants
  <2> QED BY <2>1, <2>2, FewerOpen DEF Grants, clientVars
<1>4. CASE PrepareBucketDeletion
  BY <1>4, FewerOpen DEF PrepareBucketDeletion, Grants, clientVars
<1>5. CASE DeleteBucket
  <2>1. /\ UNCHANGED <<receipts, clientVars, req>> /\ status = "active" /\ status' = "deleting"
        /\ cleanup' = Max({0} \cup {left[u] + Grace : u \in receipts})
    BY <1>5 DEF DeleteBucket
  <2>2. \A u \in receipts : cleanup' >= left[u] + Grace
    BY <2>1, Deadline DEF Grants, TypeOK
  <2>3. \A u \in Ids : Open(u)' => Open(u)
    BY <2>1 DEF Open, At, clientVars
  <2>4. Covered'
    BY <2>1, <2>2, <2>3 DEF Grants, Covered, clientVars
  <2>5. Signing'
    BY <2>1 DEF Grants, Signing, At, clientVars
  <2> QED BY <2>4, <2>5
<1>6. CASE Clean
  <2>1. CASE FinishBucketDeletion /\ cleanup = 0 /\ status' = "absent"
    <3>1. worker.pc = "finish" /\ UNCHANGED <<clientVars, req>>
      BY <2>1 DEF FinishBucketDeletion
    <3>2. status = "deleting" /\ \A r \in Requests : ~At(r, "sign")
      BY <3>1 DEF Grants, OnlyDeleting, Exclusion, WriterHolds, Readers, Inside, At
    <3>3. ASSUME NEW u \in Ids PROVE ~Open(u)
      <4>1. Open(u) => left[u] >= 0 /\ cleanup >= left[u] + Grace
        BY <3>2, OpenInTime DEF Grants, Covered
      <4> QED BY <1>1, <2>1, <4>1
    <3>4. \A u \in Ids : Open(u)' <=> Open(u)
      BY <3>1 DEF Open, At, clientVars
    <3>5. Covered'
      BY <3>3, <3>4 DEF Covered
    <3>6. Signing'
      BY <3>1 DEF Grants, Signing, At, clientVars
    <3> QED BY <3>5, <3>6
  <2>2. CASE ~(FinishBucketDeletion /\ cleanup = 0 /\ status' = "absent")
    <3>1. UNCHANGED <<status, cleanup, receipts, clientVars, req>>
      BY <1>6, <2>2 DEF Clean, TakeJob, Lock, Swept, TakeTombstone, SweptLate, WorkerOnly,
         FinishBucketDeletion, UpdateTombstone, SweepLate, Purge, bucketVars
    <3> QED BY <3>1, FewerOpen DEF Grants, clientVars
  <2> QED BY <2>1, <2>2
<1>7. CASE \E u \in Ids : StartPut(u) \/ EndPut(u)
  BY <1>7, FewerOpen DEF StartPut, EndPut, Grants, bucketVars
<1>8. CASE UNCHANGED vars
  BY <1>8, FewerOpen DEF Grants, vars, bucketVars, clientVars
<1> QED BY <1>2, <1>3, <1>4, <1>5, <1>6, <1>7, <1>8

(* Types, references and lock exclusion are kept in any time zone. *)
Base == IInv /\ TypeOK /\ Refs

(* Initially all of it holds. *)
LEMMA InitBase == Init => Base
  BY InitIInv, InitTypes DEF Base

(* Every step keeps it. *)
LEMMA StepBase == Base /\ [Next]_vars => Base'
  BY StepIInv, TypeStep DEF Base

(* Initially nothing is signed. *)
LEMMA InitGrants == Init => Signing /\ Covered
<1> SUFFICES ASSUME Init PROVE Signing /\ Covered
  OBVIOUS
<1>1. (\A u \in Ids : url[u] = 0) /\ \A r \in Requests : ~At(r, "sign")
  BY DEF Init, At, IdleReq
<1> QED BY <1>1 DEF Signing, Covered, Open

(* Where local time is not behind UTC, every step keeps the URLs covered. *)
LEMMA StepGrants ==
  ZoneOffset \in Nat => (Base /\ Signing /\ Covered /\ [Next]_vars => (Signing /\ Covered)')
<1> SUFFICES ASSUME ZoneOffset \in Nat, Base, Signing, Covered, [Next]_vars
             PROVE  (Signing /\ Covered)'
  OBVIOUS
<1>1. Grants
  BY DEF Grants, Base, IInv
<1>2. ASSUME NEW r \in Requests, Enter(r) \/ Serve(r) PROVE Signing' /\ Covered'
  BY <1>1, <1>2, ServeGrants
<1>3. CASE Tick
  BY <1>1, <1>3, TickGrants
<1>4. CASE ~Tick /\ ~ \E r \in Requests : Enter(r) \/ Serve(r)
  BY <1>1, <1>4, OthersGrants DEF Next
<1> QED BY <1>2, <1>3, <1>4

(* The bucket, its receipts, transfers, handlers and worker keep their       *)
(* types, and the cleanup never has to wait for longer than the longest URL  *)
(* and the grace period (BucketOperation, RunBucketCleanup).                 *)
THEOREM DeletionTypeCorrect == Spec => []TypeOK
<1>1. Base => TypeOK
  BY DEF Base
<1> QED BY <1>1, InitBase, StepBase, PTL DEF Spec

(* East of Greenwich, no upload URL works once the rows are gone: the ones   *)
(* signed after the deletion was accepted, by handlers that had reserved     *)
(* before, are covered by the deadline too (BeginBucketDeletion,             *)
(* PruneUploadGrants, BeginUpload).                                          *)
THEOREM GrantsCovered ==
  ASSUME ZoneOffset \in Nat
  PROVE  Spec => []GrantsOutlived
<1>1. Base /\ Signing /\ Covered => GrantsOutlived
  <2> SUFFICES ASSUME Base, Signing, Covered, status = "absent", NEW u \in issued PROVE url[u] = 0
    BY DEF GrantsOutlived
  <2>1. u \in Ids /\ url[u] \in 0..Longest
    BY DEF Base, TypeOK
  <2>2. url[u] \in Nat /\ ~Open(u)
    BY <2>1, Bounds DEF Covered
  <2> QED BY <2>2 DEF Open
<1>2. Base /\ Signing /\ Covered /\ [Next]_vars => (Signing /\ Covered)'
  BY StepGrants
<1> QED BY <1>1, <1>2, InitBase, StepBase, InitGrants, PTL DEF Spec
=============================================================================
