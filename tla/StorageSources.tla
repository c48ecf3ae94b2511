--------------------------- MODULE StorageSources ---------------------------
(***************************************************************************)
(* StorageManager: the storage_sources table, the runtime map that uploads  *)
(* read, and the mutex between them; with the two checks that tie sources   *)
(* and buckets together, NewBucket/UpdateBucket asking PrimaryUnlimited and *)
(* Add/Update asking validatePrimaryCapacity.  Administrators' requests     *)
(* interleave at every query.                                               *)
(***************************************************************************)
EXTENDS Integers, FiniteSets

CONSTANTS
  MaxSources,   \* bound: sources ever added, numbered in CreatedAt order
  Priorities,
  Buckets,
  Admins,       \* concurrent administrator requests
  Ops,          \* which of {"add", "update", "bucket"} administrators call
  Alone,        \* those of Ops that are called while no other request runs
  None

ASSUME BoundAssumption == MaxSources \in Nat /\ Priorities \subseteq Int

VARIABLES
  table,    \* storage_sources rows
  runtime,  \* StorageManager.sources
  mu,       \* who holds StorageManager.mu for writing
  buckets,  \* buckets rows: no row, quota_unlimited = 0, quota_unlimited = 1
  drawn,    \* source ids drawn
  overlap,  \* history: two requests have run at the same time
  req       \* the handlers' local variables

vars == <<table, runtime, mu, buckets, drawn, overlap, req>>

Sources == 1..MaxSources
Row == [priority : Priorities, unlimited : BOOLEAN]

ASSUME NoneAssumption == None \notin Admins \cup Row

Idle == [pc |-> "idle", op |-> None, s |-> 0, row |-> None, b |-> None, u |-> FALSE]

TypeOK ==
  /\ table \in [Sources -> Row \cup {None}]
  /\ runtime \in [Sources -> Row \cup {None}]
  /\ mu \in Admins \cup {None} /\ \A a \in Admins : mu = a <=> req[a].pc = "swap"
  /\ buckets \in [Buckets -> {"absent", "limited", "unlimited"}]
  /\ drawn \in 0..MaxSources /\ overlap \in BOOLEAN
  /\ req \in [Admins -> [pc : {"idle", "ask", "check", "write", "publish", "swap",
                               "bucket"},
                         op : Ops \cup {None}, s : 0..MaxSources, row : Row \cup {None},
                         b : Buckets \cup {None}, u : BOOLEAN]]

Init ==
  /\ table = [s \in Sources |-> None]
  /\ runtime = table
  /\ mu = None
  /\ buckets = [b \in Buckets |-> "absent"]
  /\ drawn = 0 /\ overlap = FALSE
  /\ req = [a \in Admins |-> Idle]

At(a, pc) == req[a].pc = pc
(* A request for op is taken up. *)
Called(a, op) ==
  /\ At(a, "idle") /\ op \in Ops
  /\ \A o \in Admins : ~At(o, "idle") => op \notin Alone /\ req[o].op \notin Alone
  /\ overlap' = (overlap \/ \E o \in Admins : ~At(o, "idle"))
Goto(a, pc) == req' = [req EXCEPT ![a].pc = pc]
Return(a) == req' = [req EXCEPT ![a] = Idle]

(* The order of candidates() and of validatePrimaryCapacity. *)
Present(t) == {s \in Sources : t[s] # None}
Before(t, s, o) == \/ t[s].priority < t[o].priority
                   \/ t[s].priority = t[o].priority /\ s < o
IsPrimary(t, s) == s \in Present(t) /\ \A o \in Present(t) \ {s} : Before(t, s, o)
PrimaryUnlimited(t) == \E s \in Sources : IsPrimary(t, s) /\ t[s].unlimited

HasUnlimitedBuckets == \E b \in Buckets : buckets[b] = "unlimited"

-----------------------------------------------------------------------------
(* Add and Update; the probe of the new configuration comes before. *)

AddStart(a, row) ==
  /\ Called(a, "add")
  /\ drawn < MaxSources
  /\ drawn' = drawn + 1
  /\ req' = [req EXCEPT ![a] = [Idle EXCEPT !.pc = "ask", !.op = "add",
                                           !.s = drawn + 1, !.row = row]]
  /\ UNCHANGED <<table, runtime, mu, buckets>>

UpdateStart(a, s, row) ==
  /\ Called(a, "update")
  /\ table[s] # None
  /\ req' = [req EXCEPT ![a] = [Idle EXCEPT !.pc = "ask", !.op = "update", !.s = s, !.row = row]]
  /\ UNCHANGED <<table, runtime, mu, buckets, drawn>>

AskUnlimited(a) ==
  /\ At(a, "ask")
  /\ Goto(a, IF HasUnlimitedBuckets THEN "check" ELSE "write")
  /\ UNCHANGED <<table, runtime, mu, buckets, drawn, overlap>>

(* Mutant: the sources are checked without the candidate. *)
CheckPrimaryNow(a) ==
  /\ At(a, "check")
  /\ IF PrimaryUnlimited(table) THEN Goto(a, "write") ELSE Return(a)
  /\ UNCHANGED <<table, runtime, mu, buckets, drawn, overlap>>

CheckPrimary(a) ==
  /\ At(a, "check")
  /\ IF PrimaryUnlimited([table EXCEPT ![req[a].s] = req[a].row])
     THEN Goto(a, "write") ELSE Return(a)
  /\ UNCHANGED <<table, runtime, mu, buckets, drawn, overlap>>

(* Add: the row first, then the map under the mutex. *)
Insert(a) ==
  LET s == req[a].s IN
  /\ At(a, "write") /\ table[s] = None
  /\ table' = [table EXCEPT ![s] = req[a].row]
  /\ Goto(a, "publish")
  /\ UNCHANGED <<runtime, mu, buckets, drawn, overlap>>

Publish(a) ==
  /\ At(a, "publish") /\ mu = None
  /\ runtime' = [runtime EXCEPT ![req[a].s] = req[a].row]
  /\ Return(a)
  /\ UNCHANGED <<table, mu, buckets, drawn, overlap>>

(* Mutants: the transaction runs before the mutex is taken; the mutex is kept. *)
ReplaceUnlocked(a) ==
  /\ At(a, "write") /\ table[req[a].s] # None
  /\ table' = [table EXCEPT ![req[a].s] = req[a].row]
  /\ Goto(a, "publish")
  /\ UNCHANGED <<runtime, mu, buckets, drawn, overlap>>

(* Update: the mutex is held over the transaction and the map. *)
Replace(a) ==
  LET s == req[a].s IN
  /\ At(a, "write") /\ table[s] # None /\ mu = None
  /\ mu' = a
  /\ table' = [table EXCEPT ![s] = req[a].row]
  /\ Goto(a, "swap")
  /\ UNCHANGED <<runtime, buckets, drawn, overlap>>

SwapKeepsMutex(a) ==
  /\ At(a, "swap")
  /\ runtime' = [runtime EXCEPT ![req[a].s] = req[a].row]
  /\ Return(a)
  /\ UNCHANGED <<table, mu, buckets, drawn, overlap>>

Swap(a) ==
  /\ At(a, "swap")
  /\ mu' = None
  /\ runtime' = [runtime EXCEPT ![req[a].s] = req[a].row]
  /\ Return(a)
  /\ UNCHANGED <<table, buckets, drawn, overlap>>

(* A query or transaction fails, or the capacity is below what is in use. *)
Refuse(a) ==
  /\ req[a].pc \in {"ask", "check", "write", "bucket"}
  /\ Return(a)
  /\ UNCHANGED <<table, runtime, mu, buckets, drawn, overlap>>

-----------------------------------------------------------------------------
(* NewBucket, UpdateBucket: the map is asked first, the transaction follows. *)

BucketStart(a, b, u) ==
  /\ Called(a, "bucket")
  /\ mu = None
  /\ u => PrimaryUnlimited(runtime)
  /\ req' = [req EXCEPT ![a] = [Idle EXCEPT !.pc = "bucket", !.op = "bucket", !.b = b, !.u = u]]
  /\ UNCHANGED <<table, runtime, mu, buckets, drawn>>

BucketWrite(a) ==
  /\ At(a, "bucket")
  /\ buckets' = [buckets EXCEPT ![req[a].b] =
                   IF req[a].u THEN "unlimited" ELSE "limited"]
  /\ Return(a)
  /\ UNCHANGED <<table, runtime, mu, drawn, overlap>>

(* FinishBucketDeletion by the worker. *)
BucketGone(b) ==
  /\ buckets[b] # "absent"
  /\ buckets' = [buckets EXCEPT ![b] = "absent"]
  /\ UNCHANGED <<table, runtime, mu, drawn, overlap, req>>

(* Load at startup rebuilds the map from the table. *)
Restart ==
  /\ \E a \in Admins : ~At(a, "idle")
  /\ runtime' = table
  /\ mu' = None
  /\ req' = [a \in Admins |-> Idle]
  /\ UNCHANGED <<table, buckets, drawn, overlap>>

Next ==
  \/ Restart
  \/ \E b \in Buckets : BucketGone(b)
  \/ \E a \in Admins :
       \/ AskUnlimited(a) \/ CheckPrimary(a) \/ Insert(a) \/ Publish(a)
       \/ Replace(a) \/ Swap(a) \/ Refuse(a) \/ BucketWrite(a)
       \/ \E row \in Row : AddStart(a, row) \/ \E s \in Sources : UpdateStart(a, s, row)
       \/ \E b \in Buckets, u \in BOOLEAN : BucketStart(a, b, u)

Spec == Init /\ [][Next]_vars

-----------------------------------------------------------------------------
(* Properties. *)

(* The primary source is unlimited while any unlimited bucket exists. *)
PrimaryStaysUnlimited == HasUnlimitedBuckets => PrimaryUnlimited(table)

(* Requests that never overlapped keep it so, by whatever order of additions,
   updates, bucket requests, deletions and restarts the sources got where they
   are: the primary changes hands by priority, with rows tied in CreatedAt. *)
SerialKeepsPrimary == ~overlap => PrimaryStaysUnlimited

(* The map that uploads use is the table, whenever nobody holds the mutex or
   is about to add: concurrent updates of one source leave the map with the
   row that was committed last. *)
RuntimeMatchesTable ==
  mu = None /\ (\A a \in Admins : ~At(a, "publish")) => runtime = table
=============================================================================
