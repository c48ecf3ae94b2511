------------------------ MODULE StorageSourcesProofs ------------------------
(* Theorems about StorageSources, for every set of administrators, buckets   *)
(* and priorities: the map follows the table, and the primary source stays   *)
(* unlimited for buckets that need it.                                       *)
EXTENDS StorageSources, TLAPS

USE BoundAssumption, NoneAssumption

(* The locals of a request, and what its place tells of the row it is about: *)
(* rows are never removed, and an addition has a number of its own.          *)
Locals ==
  /\ \A a \in Admins :
       /\ req[a].pc \in {"ask", "check", "write", "publish", "swap"}
            => req[a].op \in {"add", "update"} /\ req[a].s \in 1..drawn /\ req[a].row \in Row
       /\ req[a].pc = "publish" => req[a].op = "add"
       /\ req[a].pc \in {"ask", "check", "write"} /\ req[a].op = "add" => table[req[a].s] = None
       /\ req[a].pc \in {"ask", "check", "write"} /\ req[a].op = "update" => table[req[a].s] # None
       /\ req[a].pc \in {"swap", "publish"} => table[req[a].s] # None
       /\ req[a].pc = "bucket" => req[a].b \in Buckets
  /\ \A a, o \in Admins :
       req[a].pc \in {"ask", "check", "write"} /\ req[a].op = "add"
         /\ req[o].pc \in {"ask", "check", "write"} /\ req[o].op = "add" /\ req[a].s = req[o].s
           => a = o
  /\ \A s \in Sources : s > drawn => table[s] = None

(* An addition runs while nothing else does. *)
AddsAlone ==
  \A a, o \in Admins : a # o /\ ~At(a, "idle") /\ req[a].op = "add" => At(o, "idle")

(* A row that the map does not have yet is that of the request whose turn it *)
(* is to put it there.                                                       *)
Synced ==
  /\ \A a \in Admins : req[a].pc \in {"swap", "publish"} => table[req[a].s] = req[a].row
  /\ \A s \in Sources : runtime[s] # table[s]
       => \E a \in Admins : req[a].pc \in {"swap", "publish"} /\ req[a].s = s

InStep == "add" \in Alone \/ ~overlap => AddsAlone /\ Synced

(* Of requests that never overlapped, one is under way at most, and what it  *)
(* has checked still holds.                                                  *)
Serial ==
  ~overlap =>
    /\ \A a, o \in Admins : a = o \/ At(a, "idle") \/ At(o, "idle")
    /\ HasUnlimitedBuckets => PrimaryUnlimited(table)
    /\ \A a \in Admins :
         /\ At(a, "write") /\ HasUnlimitedBuckets
              => PrimaryUnlimited([table EXCEPT ![req[a].s] = req[a].row])
         /\ At(a, "bucket") /\ req[a].u => PrimaryUnlimited(table)

IInv == TypeOK /\ Locals /\ InStep /\ Serial

(* The shape of a handler's step: the locals of one request change.          *)
ReqType == [pc : {"idle", "ask", "check", "write", "publish", "swap", "bucket"},
            op : Ops \cup {None}, s : 0..MaxSources, row : Row \cup {None},
            b : Buckets \cup {None}, u : BOOLEAN]
Moved(a, r) == req' = [req EXCEPT ![a] = r]

LEMMA TypeParts ==
  TypeOK <=> /\ table \in [Sources -> Row \cup {None}]
             /\ runtime \in [Sources -> Row \cup {None}]
             /\ mu \in Admins \cup {None} /\ \A a \in Admins : mu = a <=> req[a].pc = "swap"
             /\ buckets \in [Buckets -> {"absent", "limited", "unlimited"}]
             /\ drawn \in 0..MaxSources /\ overlap \in BOOLEAN
             /\ req \in [Admins -> ReqType]
  BY DEF TypeOK, ReqType

LEMMA IdleType == Idle \in ReqType /\ Idle.pc = "idle"
  BY DEF Idle, ReqType

LEMMA PcType ==
  ASSUME NEW r \in ReqType,
         NEW pc \in {"idle", "ask", "check", "write", "publish", "swap", "bucket"}
  PROVE  /\ [r EXCEPT !.pc = pc] \in ReqType
         /\ [r EXCEPT !.pc = pc].pc = pc /\ [r EXCEPT !.pc = pc].op = r.op
         /\ [r EXCEPT !.pc = pc].s = r.s /\ [r EXCEPT !.pc = pc].row = r.row
         /\ [r EXCEPT !.pc = pc].b = r.b /\ [r EXCEPT !.pc = pc].u = r.u
  BY DEF ReqType

LEMMA GotoMoves ==
  ASSUME TypeOK, NEW a \in Admins, NEW pc, Goto(a, pc)
  PROVE  Moved(a, [req[a] EXCEPT !.pc = pc])
  BY TypeParts DEF Goto, Moved

LEMMA Initially == Init => IInv
<1> SUFFICES ASSUME Init PROVE IInv
  OBVIOUS
<1>1. TypeOK
  <2>1. \A a \in Admins : req[a] = Idle
    BY DEF Init
  <2>2. req \in [Admins -> ReqType]
    BY IdleType DEF Init
  <2>3. mu = None /\ \A a \in Admins : mu = a <=> req[a].pc = "swap"
    BY <2>1, IdleType DEF Init
  <2>4. table \in [Sources -> Row \cup {None}] /\ runtime \in [Sources -> Row \cup {None}]
    BY DEF Init
  <2>5. buckets \in [Buckets -> {"absent", "limited", "unlimited"}] /\ drawn \in 0..MaxSources
    BY DEF Init
  <2>6. overlap \in BOOLEAN
    BY DEF Init
  <2> QED BY <2>2, <2>3, <2>4, <2>5, <2>6, TypeParts
<1>2. Locals /\ InStep /\ Serial
  BY IdleType DEF Init, Locals, InStep, AddsAlone, Synced, Serial, At, HasUnlimitedBuckets, Sources
<1> QED BY <1>1, <1>2 DEF IInv

(* A request that only moves on keeps the types.                             *)
LEMMA MoveTypes ==
  ASSUME TypeOK, NEW a \in Admins, NEW r \in ReqType, Moved(a, r),
         r.pc = "swap" <=> req[a].pc = "swap", mu' = mu,
         table' \in [Sources -> Row \cup {None}], runtime' \in [Sources -> Row \cup {None}],
         buckets' \in [Buckets -> {"absent", "limited", "unlimited"}],
         drawn' \in 0..MaxSources, overlap' \in BOOLEAN
  PROVE  TypeOK'
<1>1. req' \in [Admins -> ReqType] /\ req'[a] = r /\ \A o \in Admins : o # a => req'[o] = req[o]
  BY TypeParts DEF Moved
<1>2. mu' \in Admins \cup {None} /\ \A o \in Admins : mu' = o <=> req'[o].pc = "swap"
  BY <1>1, TypeParts
<1> QED BY <1>1, <1>2 DEF TypeOK, ReqType

LEMMA TypeStep == TypeOK /\ Locals /\ [Next]_vars => TypeOK'
<1> SUFFICES ASSUME TypeOK, Locals, [Next]_vars PROVE TypeOK'
  OBVIOUS
<1>t. /\ table \in [Sources -> Row \cup {None}] /\ runtime \in [Sources -> Row \cup {None}]
      /\ buckets \in [Buckets -> {"absent", "limited", "unlimited"}]
      /\ mu \in Admins \cup {None} /\ \A a \in Admins : mu = a <=> req[a].pc = "swap"
      /\ drawn \in 0..MaxSources /\ overlap \in BOOLEAN
      /\ req \in [Admins -> ReqType]
  BY TypeParts
<1>0. CASE Restart
  <2>1. /\ table' = table /\ runtime' = table /\ buckets' = buckets /\ drawn' = drawn
        /\ overlap' = overlap /\ mu' = None /\ req' = [a \in Admins |-> Idle]
    BY <1>0 DEF Restart
  <2>2. req' \in [Admins -> ReqType] /\ \A a \in Admins : req'[a].pc = "idle"
    BY <2>1, IdleType
  <2> QED BY <1>t, <2>1, <2>2 DEF TypeOK, ReqType
<1>1. ASSUME NEW b \in Buckets, BucketGone(b) PROVE TypeOK'
  BY <1>1 DEF BucketGone, TypeOK
<1>2. CASE UNCHANGED vars
  BY <1>2 DEF vars, TypeOK
<1>3. ASSUME NEW a \in Admins, AskUnlimited(a) \/ CheckPrimary(a) \/ Insert(a) PROVE TypeOK'
  <2>1. PICK pc \in {"idle", "check", "write", "publish"} : Goto(a, pc) \/ Return(a)
    BY <1>3 DEF AskUnlimited, CheckPrimary, Insert
  <2>2. \E r \in ReqType : Moved(a, r) /\ r.pc # "swap"
    <3>1. CASE Return(a)
      BY <3>1, IdleType DEF Return, Moved
    <3>2. CASE Goto(a, pc)
      <4>1. req[a] \in ReqType
        BY <1>t
      <4>2. pc \in {"idle", "ask", "check", "write", "publish", "swap", "bucket"} /\ pc # "swap"
        BY <2>1
      <4>3. [req[a] EXCEPT !.pc = pc] \in ReqType /\ [req[a] EXCEPT !.pc = pc].pc = pc
        BY <4>1, <4>2, PcType
      <4> QED BY <3>2, <4>2, <4>3, GotoMoves
    <3> QED BY <2>1, <3>1, <3>2
  <2>3. /\ req[a].pc # "swap" /\ UNCHANGED <<mu, runtime, buckets, drawn, overlap>>
        /\ table' \in [Sources -> Row \cup {None}]
    BY <1>3, <1>t DEF AskUnlimited, CheckPrimary, Insert, At, Locals
  <2> QED BY <1>t, <2>2, <2>3, MoveTypes
<1>4. ASSUME NEW a \in Admins, Publish(a) \/ Refuse(a) \/ BucketWrite(a) PROVE TypeOK'
  <2>1. Moved(a, Idle) /\ req[a].pc # "swap" /\ UNCHANGED <<mu, table, drawn, overlap>>
    BY <1>4 DEF Publish, Refuse, BucketWrite, Return, Moved, At
  <2>2. req[a].row \in Row \cup {None} /\ (req[a].pc = "publish" => req[a].row \in Row)
    BY <1>t DEF ReqType, Locals
  <2>3. /\ runtime' \in [Sources -> Row \cup {None}]
        /\ buckets' \in [Buckets -> {"absent", "limited", "unlimited"}]
    BY <1>4, <1>t, <2>2 DEF Publish, Refuse, BucketWrite
  <2> QED BY <1>t, <2>1, <2>3, IdleType, MoveTypes
<1>5. ASSUME NEW a \in Admins, Replace(a) PROVE TypeOK'
  <2>1. Moved(a, [req[a] EXCEPT !.pc = "swap"])
    BY <1>5, GotoMoves DEF Replace
  <2>2. /\ req' \in [Admins -> ReqType] /\ req'[a].pc = "swap"
        /\ \A o \in Admins : o # a => req'[o] = req[o]
    BY <1>t, <2>1, PcType DEF Moved
  <2>3. mu = None /\ mu' = a /\ UNCHANGED <<runtime, buckets, drawn, overlap>>
    BY <1>5 DEF Replace
  <2>4. \A o \in Admins : mu' = o <=> req'[o].pc = "swap"
    BY <1>t, <2>2, <2>3
  <2>5. table' \in [Sources -> Row \cup {None}]
    BY <1>5, <1>t DEF Replace, At, Locals
  <2> QED BY <1>t, <2>2, <2>3, <2>4, <2>5 DEF TypeOK, ReqType
<1>6. ASSUME NEW a \in Admins, Swap(a) PROVE TypeOK'
  <2>1. Moved(a, Idle) /\ mu' = None /\ req[a].pc = "swap" /\ UNCHANGED <<table, buckets, drawn, overlap>>
    BY <1>6 DEF Swap, Return, Moved, At
  <2>2. /\ req' \in [Admins -> ReqType] /\ req'[a].pc = "idle"
        /\ \A o \in Admins : o # a => req'[o] = req[o]
    BY <1>t, <2>1, IdleType DEF Moved
  <2>3. \A o \in Admins : mu' = o <=> req'[o].pc = "swap"
    BY <1>t, <2>1, <2>2
  <2>4. runtime' \in [Sources -> Row \cup {None}]
    BY <1>6, <1>t DEF Swap, At, Locals
  <2> QED BY <1>t, <2>1, <2>2, <2>3, <2>4 DEF TypeOK, ReqType
<1>7. ASSUME NEW a \in Admins, NEW op \in Ops, Called(a, op), NEW r \in ReqType, Moved(a, r),
             r.pc # "swap", UNCHANGED <<table, runtime, mu, buckets>>, drawn' \in 0..MaxSources
      PROVE  TypeOK'
  BY <1>7, <1>t, MoveTypes DEF Called, At
<1>8. ASSUME NEW a \in Admins, NEW row \in Row, AddStart(a, row) PROVE TypeOK'
  <2> DEFINE r == [Idle EXCEPT !.pc = "ask", !.op = "add", !.s = drawn + 1, !.row = row]
  <2>1. "add" \in Ops /\ drawn + 1 \in 0..MaxSources /\ drawn' = drawn + 1
    BY <1>8, <1>t DEF AddStart, Called
  <2>2. r \in ReqType /\ r.pc = "ask"
    BY <2>1, IdleType DEF ReqType
  <2> QED BY <1>7, <1>8, <2>1, <2>2 DEF AddStart, Moved
<1>9. ASSUME NEW a \in Admins, NEW row \in Row, NEW s \in Sources, UpdateStart(a, s, row) PROVE TypeOK'
  <2> DEFINE r == [Idle EXCEPT !.pc = "ask", !.op = "update", !.s = s, !.row = row]
  <2>1. "update" \in Ops /\ s \in 0..MaxSources
    BY <1>9 DEF UpdateStart, Called, Sources
  <2>2. r \in ReqType /\ r.pc = "ask"
    BY <2>1, IdleType DEF ReqType
  <2> QED BY <1>7, <1>9, <1>t, <2>1, <2>2 DEF UpdateStart, Moved
<1>10. ASSUME NEW a \in Admins, NEW b \in Buckets, NEW u \in BOOLEAN, BucketStart(a, b, u) PROVE TypeOK'
  <2> DEFINE r == [Idle EXCEPT !.pc = "bucket", !.op = "bucket", !.b = b, !.u = u]
  <2>1. "bucket" \in Ops
    BY <1>10 DEF BucketStart, Called
  <2>2. r \in ReqType /\ r.pc = "bucket"
    BY <2>1, IdleType DEF ReqType
  <2> QED BY <1>7, <1>10, <1>t, <2>1, <2>2 DEF BucketStart, Moved
<1> QED BY <1>0, <1>1, <1>2, <1>3, <1>4, <1>5, <1>6, <1>8, <1>9, <1>10 DEF Next

-----------------------------------------------------------------------------
(* What a step of one request leaves of the others, and of its own locals.   *)
Others(a) == \A o \in Admins : o # a => req'[o] = req[o]

LEMMA GotoLocals ==
  ASSUME TypeOK, NEW a \in Admins,
         NEW pc \in {"idle", "ask", "check", "write", "publish", "swap", "bucket"}, Goto(a, pc)
  PROVE  /\ Others(a) /\ req'[a].pc = pc /\ req'[a].op = req[a].op /\ req'[a].s = req[a].s
         /\ req'[a].row = req[a].row /\ req'[a].b = req[a].b /\ req'[a].u = req[a].u
<1>1. req \in [Admins -> ReqType]
  BY TypeParts
<1>2. req' = [req EXCEPT ![a] = [req[a] EXCEPT !.pc = pc]]
  BY GotoMoves DEF Moved
<1>3. req'[a] = [req[a] EXCEPT !.pc = pc] /\ Others(a)
  BY <1>1, <1>2 DEF Others
<1>4. req[a] \in ReqType
  BY <1>1
<1> QED BY <1>3, <1>4, PcType

LEMMA ReturnLocals ==
  ASSUME TypeOK, NEW a \in Admins, Return(a)
  PROVE  Others(a) /\ req'[a].pc = "idle"
  BY TypeParts, IdleType DEF Return, Others

LEMMA StartLocals ==
  ASSUME TypeOK, NEW a \in Admins
  PROVE  /\ \A row \in Row : AddStart(a, row) =>
              /\ Others(a) /\ req'[a].pc = "ask" /\ req'[a].op = "add"
              /\ req'[a].s = drawn + 1 /\ req'[a].row = row
         /\ \A s \in Sources, row \in Row : UpdateStart(a, s, row) =>
              /\ Others(a) /\ req'[a].pc = "ask" /\ req'[a].op = "update"
              /\ req'[a].s = s /\ req'[a].row = row
         /\ \A b \in Buckets, u \in BOOLEAN : BucketStart(a, b, u) =>
              /\ Others(a) /\ req'[a].pc = "bucket" /\ req'[a].op = "bucket"
              /\ req'[a].b = b /\ req'[a].u = u
<1>1. req \in [Admins -> ReqType]
  BY TypeParts
<1>2. ASSUME NEW r, req' = [req EXCEPT ![a] = r] PROVE Others(a) /\ req'[a] = r
  BY <1>1, <1>2 DEF Others
<1>3. ASSUME NEW row \in Row, AddStart(a, row)
      PROVE  /\ Others(a) /\ req'[a].pc = "ask" /\ req'[a].op = "add"
             /\ req'[a].s = drawn + 1 /\ req'[a].row = row
  <2>1. Others(a) /\ req'[a] = [Idle EXCEPT !.pc = "ask", !.op = "add", !.s = drawn + 1, !.row = row]
    BY <1>2, <1>3 DEF AddStart
  <2> QED BY <2>1, IdleType DEF ReqType
<1>4. ASSUME NEW s \in Sources, NEW row \in Row, UpdateStart(a, s, row)
      PROVE  /\ Others(a) /\ req'[a].pc = "ask" /\ req'[a].op = "update"
             /\ req'[a].s = s /\ req'[a].row = row
  <2>1. Others(a) /\ req'[a] = [Idle EXCEPT !.pc = "ask", !.op = "update", !.s = s, !.row = row]
    BY <1>2, <1>4 DEF UpdateStart
  <2> QED BY <2>1, IdleType DEF ReqType
<1>5. ASSUME NEW b \in Buckets, NEW u \in BOOLEAN, BucketStart(a, b, u)
      PROVE  /\ Others(a) /\ req'[a].pc = "bucket" /\ req'[a].op = "bucket"
             /\ req'[a].b = b /\ req'[a].u = u
  <2>1. Others(a) /\ req'[a] = [Idle EXCEPT !.pc = "bucket", !.op = "bucket", !.b = b, !.u = u]
    BY <1>2, <1>5 DEF BucketStart
  <2> QED BY <2>1, IdleType DEF ReqType
<1> QED BY <1>3, <1>4, <1>5

(* The rows: an addition's is new, an update's is there and stays.           *)
LEMMA LocalsStep == TypeOK /\ Locals /\ [Next]_vars => Locals'
<1> SUFFICES ASSUME TypeOK, Locals, [Next]_vars PROVE Locals'
  OBVIOUS
<1>t. /\ table \in [Sources -> Row \cup {None}] /\ drawn \in 0..MaxSources
      /\ req \in [Admins -> ReqType] /\ Sources = 1..MaxSources
  BY TypeParts DEF Sources
<1>0. CASE Restart
  <2>1. UNCHANGED <<table, drawn>> /\ \A a \in Admins : req'[a].pc = "idle"
    BY <1>0, IdleType DEF Restart
  <2> QED BY <2>1 DEF Locals, Sources
<1>1. ASSUME UNCHANGED <<table, drawn, req>> PROVE Locals'
  BY <1>1 DEF Locals, Sources
<1>2. ASSUME NEW a \in Admins, UNCHANGED <<table, drawn>>, Return(a) PROVE Locals'
  <2>1. Others(a) /\ req'[a].pc = "idle"
    BY <1>2, ReturnLocals
  <2> QED BY <1>2, <2>1 DEF Locals, Others, Sources
<1>3. ASSUME NEW a \in Admins, UNCHANGED <<table, drawn>>, req[a].pc \in {"ask", "check"},
             NEW pc \in {"check", "write"}, Goto(a, pc)
      PROVE  Locals'
  <2>1. /\ Others(a) /\ req'[a].pc = pc /\ req'[a].op = req[a].op /\ req'[a].s = req[a].s
        /\ req'[a].row = req[a].row
    BY <1>3, GotoLocals
  <2>2. \A o \in Admins : /\ req'[o].op = req[o].op /\ req'[o].s = req[o].s /\ req'[o].row = req[o].row
                          /\ req'[o].pc \in {"ask", "check", "write"} <=> req[o].pc \in {"ask", "check", "write"}
                          /\ req'[o].pc \in {"publish", "swap", "bucket"} => req'[o] = req[o]
    BY <1>3, <2>1 DEF Others
  <2> QED BY <1>3, <2>1, <2>2 DEF Locals, Sources
<1>4. ASSUME NEW a \in Admins, Insert(a) \/ Replace(a) PROVE Locals'
  <2> DEFINE s == req[a].s
             row == req[a].row
  <2>1. /\ s \in 1..drawn /\ s \in Sources /\ row \in Row /\ row # None /\ req[a].op \in {"add", "update"}
        /\ req[a].pc = "write" /\ (Insert(a) => req[a].op = "add" /\ table[s] = None)
        /\ (Replace(a) => req[a].op = "update" /\ table[s] # None)
    BY <1>4, <1>t DEF Insert, Replace, At, Locals
  <2>2. /\ drawn' = drawn /\ table' = [table EXCEPT ![s] = row]
        /\ \E pc \in {"publish", "swap"} : Goto(a, pc) /\ (pc = "publish" <=> Insert(a))
    BY <1>4, <2>1 DEF Insert, Replace
  <2>3. table'[s] = row /\ \A q \in Sources : q # s => table'[q] = table[q]
    BY <1>t, <2>1, <2>2
  <2>4. /\ Others(a) /\ req'[a].pc \in {"publish", "swap"} /\ (req'[a].pc = "publish" => Insert(a))
        /\ req'[a].op = req[a].op /\ req'[a].s = s /\ req'[a].row = row
    BY <2>2, GotoLocals
  <2> HIDE DEF s, row
  <2>5. ASSUME NEW o \in Admins, o # a, req[o].pc \in {"ask", "check", "write"}, req[o].op = "add"
        PROVE  req[o].s # s
    BY <1>4, <2>1, <2>5 DEF Locals, s
  <2>6. ASSUME NEW o \in Admins
        PROVE  /\ req'[o].pc \in {"ask", "check", "write", "publish", "swap"}
                    => req'[o].op \in {"add", "update"} /\ req'[o].s \in 1..drawn' /\ req'[o].row \in Row
               /\ req'[o].pc = "publish" => req'[o].op = "add"
               /\ req'[o].pc \in {"ask", "check", "write"} /\ req'[o].op = "add" => table'[req'[o].s] = None
               /\ req'[o].pc \in {"ask", "check", "write"} /\ req'[o].op = "update" => table'[req'[o].s] # None
               /\ req'[o].pc \in {"swap", "publish"} => table'[req'[o].s] # None
               /\ req'[o].pc = "bucket" => req'[o].b \in Buckets
    <3>1. CASE o = a
      BY <2>1, <2>2, <2>3, <2>4, <3>1
    <3>2. CASE o # a
      <4>1. req'[o] = req[o] /\ drawn' = drawn
        BY <2>2, <2>4, <3>2 DEF Others
      <4>2. req[o].pc \in {"ask", "check", "write", "publish", "swap"} => req[o].s \in Sources
        BY <1>t DEF Locals
      <4> QED BY <2>1, <2>3, <2>5, <3>2, <4>1, <4>2 DEF Locals
    <3> QED BY <3>1, <3>2
  <2>7. ASSUME NEW p \in Admins, NEW o \in Admins,
               req'[p].pc \in {"ask", "check", "write"}, req'[p].op = "add",
               req'[o].pc \in {"ask", "check", "write"}, req'[o].op = "add", req'[p].s = req'[o].s
        PROVE  p = o
    <3>1. p # a /\ o # a
      BY <2>4, <2>7
    <3> QED BY <2>4, <2>7, <3>1 DEF Locals, Others
  <2>8. \A q \in Sources : q > drawn' => table'[q] = None
    BY <1>t, <2>1, <2>2, <2>3 DEF Locals
  <2> QED BY <2>6, <2>7, <2>8 DEF Locals, Sources
<1>5. ASSUME NEW a \in Admins, NEW row \in Row, AddStart(a, row) PROVE Locals'
  <2>1. /\ Others(a) /\ req'[a].pc = "ask" /\ req'[a].op = "add" /\ req'[a].s = drawn + 1
        /\ req'[a].row = row
    BY <1>5, StartLocals
  <2>2. table' = table /\ drawn' = drawn + 1 /\ drawn + 1 \in Sources
    BY <1>5, <1>t DEF AddStart
  <2>3. table[drawn + 1] = None
    BY <1>t, <2>2 DEF Locals
  <2>4. \A o \in Admins : req[o].pc \in {"ask", "check", "write", "publish", "swap"}
                            => req[o].s \in 1..drawn' /\ req[o].s # drawn + 1
    BY <1>t, <2>2 DEF Locals
  <2>5. \A q \in Sources : q > drawn' => table'[q] = None
    BY <1>t, <2>2 DEF Locals
  <2>6. ASSUME NEW o \in Admins, o # a PROVE req'[o] = req[o]
    BY <2>1, <2>6 DEF Others
  <2> QED BY <1>t, <2>1, <2>2, <2>3, <2>4, <2>5, <2>6 DEF Locals, Sources
<1>6. ASSUME NEW a \in Admins, NEW s \in Sources, NEW row \in Row, UpdateStart(a, s, row) PROVE Locals'
  <2>1. /\ Others(a) /\ req'[a].pc = "ask" /\ req'[a].op = "update" /\ req'[a].s = s /\ req'[a].row = row
    BY <1>6, StartLocals
  <2>2. UNCHANGED <<table, drawn>> /\ table[s] # None /\ s \in 1..drawn
    BY <1>6, <1>t DEF UpdateStart, Locals
  <2> QED BY <2>1, <2>2 DEF Locals, Sources, Others
<1>7. ASSUME NEW a \in Admins, NEW b \in Buckets, NEW u \in BOOLEAN, BucketStart(a, b, u) PROVE Locals'
  <2>1. Others(a) /\ req'[a].pc = "bucket" /\ req'[a].b = b
    BY <1>7, StartLocals
  <2>2. UNCHANGED <<table, drawn>>
    BY <1>7 DEF BucketStart
  <2> QED BY <2>1, <2>2 DEF Locals, Sources, Others
<1>8. ASSUME NEW b \in Buckets, BucketGone(b) PROVE Locals'
  BY <1>1, <1>8 DEF BucketGone
<1>9. CASE UNCHANGED vars
  BY <1>1, <1>9 DEF vars
<1>10. ASSUME NEW a \in Admins, AskUnlimited(a) \/ CheckPrimary(a) PROVE Locals'
  <2>1. /\ UNCHANGED <<table, drawn>> /\ req[a].pc \in {"ask", "check"}
        /\ Return(a) \/ \E pc \in {"check", "write"} : Goto(a, pc)
    BY <1>10 DEF AskUnlimited, CheckPrimary, At
  <2> QED BY <1>2, <1>3, <2>1
<1>11. ASSUME NEW a \in Admins, Publish(a) \/ Swap(a) \/ Refuse(a) \/ BucketWrite(a) PROVE Locals'
  BY <1>2, <1>11 DEF Publish, Swap, Refuse, BucketWrite
<1> QED BY <1>0, <1>4, <1>5, <1>6, <1>7, <1>8, <1>9, <1>10, <1>11 DEF Next

-----------------------------------------------------------------------------
(* A new request finds no addition under way, and an addition finds nothing. *)
LEMMA CalledAlone ==
  ASSUME NEW a \in Admins, NEW op, Called(a, op), "add" \in Alone \/ ~overlap'
  PROVE  /\ At(a, "idle") /\ ("add" \in Alone \/ ~overlap)
         /\ \A o \in Admins : ~At(o, "idle") => op # "add" /\ req[o].op # "add"
  BY DEF Called

(* Steps that start nothing keep additions alone.                            *)
LEMMA AloneKept ==
  ASSUME AddsAlone,
         \A o \in Admins : req'[o].pc # "idle" => req[o].pc # "idle" /\ req'[o].op = req[o].op
  PROVE  AddsAlone'
  BY DEF AddsAlone, At

LEMMA InStepStep == TypeOK /\ Locals /\ InStep /\ [Next]_vars => InStep'
<1> SUFFICES ASSUME TypeOK, Locals, InStep, [Next]_vars, "add" \in Alone \/ ~overlap'
             PROVE  AddsAlone' /\ Synced'
  BY DEF InStep
<1>t. /\ table \in [Sources -> Row \cup {None}] /\ runtime \in [Sources -> Row \cup {None}]
      /\ mu \in Admins \cup {None} /\ \A a \in Admins : mu = a <=> req[a].pc = "swap"
      /\ req \in [Admins -> ReqType] /\ overlap \in BOOLEAN
      /\ Sources = 1..MaxSources /\ drawn \in 0..MaxSources
  BY TypeParts DEF Sources
<1>c. ASSUME overlap' = overlap PROVE AddsAlone /\ Synced
  BY <1>c DEF InStep
<1>0. CASE Restart
  <2>1. runtime' = table /\ table' = table /\ \A a \in Admins : req'[a].pc = "idle"
    BY <1>0, IdleType DEF Restart
  <2> QED BY <2>1 DEF AddsAlone, Synced, At
<1>1. ASSUME UNCHANGED <<table, runtime, req, overlap>> PROVE AddsAlone' /\ Synced'
  BY <1>1, <1>c DEF AddsAlone, Synced, At
<1>2. ASSUME NEW a \in Admins, UNCHANGED <<table, runtime, overlap>>,
             req[a].pc \in {"ask", "check", "write", "bucket"},
             Return(a) \/ \E pc \in {"check", "write"} : Goto(a, pc)
      PROVE  AddsAlone' /\ Synced'
  <2>1. /\ Others(a) /\ req'[a].pc \in {"idle", "check", "write"}
        /\ req'[a].pc # "idle" => req'[a].op = req[a].op
    BY <1>2, ReturnLocals, GotoLocals
  <2>2. AddsAlone /\ Synced
    BY <1>2, <1>c
  <2>3. AddsAlone'
    BY <1>2, <2>1, <2>2, AloneKept DEF Others
  <2>4. Synced'
    BY <1>2, <2>1, <2>2 DEF Synced, Others
  <2> QED BY <2>3, <2>4
<1>3. ASSUME NEW a \in Admins, NEW op, Called(a, op), UNCHANGED <<table, runtime>>, Others(a),
             req'[a].op = op, req'[a].pc \in {"ask", "bucket"}
      PROVE  AddsAlone' /\ Synced'
  <2>1. /\ At(a, "idle") /\ AddsAlone /\ Synced
        /\ \A o \in Admins : ~At(o, "idle") => op # "add" /\ req[o].op # "add"
    BY <1>3, CalledAlone DEF InStep
  <2>2. AddsAlone'
    BY <1>3, <2>1 DEF AddsAlone, Others, At
  <2>3. Synced'
    BY <1>3, <2>1 DEF Synced, Others, At
  <2> QED BY <2>2, <2>3
<1>4. ASSUME NEW a \in Admins, Insert(a) \/ Replace(a) PROVE AddsAlone' /\ Synced'
  <2> DEFINE s == req[a].s
             row == req[a].row
  <2>1. /\ req[a].pc = "write" /\ s \in Sources /\ row \in Row /\ UNCHANGED <<runtime, overlap>>
        /\ table' = [table EXCEPT ![s] = row]
        /\ \E pc \in {"publish", "swap"} : Goto(a, pc)
        /\ (Insert(a) => table[s] = None) /\ (Replace(a) => mu = None)
    BY <1>4, <1>t DEF Insert, Replace, At, Locals
  <2>2. table'[s] = row /\ \A q \in Sources : q # s => table'[q] = table[q]
    BY <1>t, <2>1
  <2>3. /\ Others(a) /\ req'[a].pc \in {"publish", "swap"} /\ req'[a].op = req[a].op
        /\ req'[a].s = s /\ req'[a].row = row
    BY <2>1, GotoLocals
  <2>4. AddsAlone /\ Synced
    BY <2>1, <1>c
  <2>5. AddsAlone'
    BY <2>1, <2>3, <2>4, AloneKept DEF Others
  <2> HIDE DEF s, row
  <2>6. ASSUME NEW o \in Admins, o # a, req[o].pc \in {"swap", "publish"}
        PROVE  req[o].s \in Sources /\ req[o].s # s
    <3>1. req[o].s \in Sources /\ table[req[o].s] # None
      BY <1>t, <2>6 DEF Locals
    <3>2. CASE Insert(a)
      BY <2>1, <3>1, <3>2
    <3>3. CASE Replace(a)
      <4>1. req[o].pc = "publish" /\ req[o].op = "add"
        BY <1>t, <2>1, <2>6, <3>3 DEF Locals
      <4> QED BY <2>1, <2>4, <2>6, <4>1 DEF AddsAlone, At
    <3> QED BY <1>4, <3>2, <3>3
  <2>7. ASSUME NEW o \in Admins, req'[o].pc \in {"swap", "publish"}
        PROVE  table'[req'[o].s] = req'[o].row
    <3>1. CASE o = a
      BY <2>2, <2>3, <3>1
    <3>2. CASE o # a
      BY <2>2, <2>3, <2>4, <2>6, <2>7, <3>2 DEF Others, Synced
    <3> QED BY <3>1, <3>2
  <2>8. ASSUME NEW q \in Sources, runtime'[q] # table'[q]
        PROVE  \E o \in Admins : req'[o].pc \in {"swap", "publish"} /\ req'[o].s = q
    <3>1. CASE q = s
      BY <2>3, <3>1
    <3>2. CASE q # s
      <4>1. PICK o \in Admins : req[o].pc \in {"swap", "publish"} /\ req[o].s = q
        BY <2>1, <2>2, <2>4, <2>8, <3>2 DEF Synced
      <4>2. o # a
        BY <2>1, <4>1
      <4> QED BY <2>3, <4>1, <4>2 DEF Others
    <3> QED BY <3>1, <3>2
  <2> QED BY <2>5, <2>7, <2>8 DEF Synced
<1>5. ASSUME NEW a \in Admins, Publish(a) \/ Swap(a) PROVE AddsAlone' /\ Synced'
  <2> DEFINE s == req[a].s
  <2>1. /\ req[a].pc \in {"publish", "swap"} /\ (req[a].pc = "publish" => mu = None)
        /\ UNCHANGED <<table, overlap>> /\ Return(a)
        /\ runtime' = [runtime EXCEPT ![s] = req[a].row] /\ s \in Sources
    BY <1>5, <1>t DEF Publish, Swap, At, Locals
  <2>2. Others(a) /\ req'[a].pc = "idle"
    BY <2>1, ReturnLocals
  <2>3. AddsAlone /\ Synced
    BY <2>1, <1>c
  <2>4. AddsAlone'
    BY <2>2, <2>3, AloneKept DEF Others
  <2>5. ASSUME NEW o \in Admins, o # a PROVE req[o].pc \notin {"swap", "publish"}
    BY <1>t, <2>1, <2>3, <2>5 DEF AddsAlone, At, Locals
  <2>6. \A o \in Admins : req'[o].pc \notin {"swap", "publish"}
    BY <2>2, <2>5 DEF Others
  <2>7. table[s] = req[a].row
    BY <2>1, <2>3 DEF Synced
  <2>8. ASSUME NEW q \in Sources PROVE runtime'[q] = table'[q]
    BY <1>t, <2>1, <2>3, <2>5, <2>7 DEF Synced
  <2> QED BY <2>4, <2>6, <2>8 DEF Synced
<1>6. ASSUME NEW a \in Admins, NEW row \in Row, AddStart(a, row) PROVE AddsAlone' /\ Synced'
  BY <1>3, <1>6, StartLocals DEF AddStart
<1>7. ASSUME NEW a \in Admins, NEW s \in Sources, NEW row \in Row, UpdateStart(a, s, row)
      PROVE  AddsAlone' /\ Synced'
  BY <1>3, <1>7, StartLocals DEF UpdateStart
<1>8. ASSUME NEW a \in Admins, NEW b \in Buckets, NEW u \in BOOLEAN, BucketStart(a, b, u)
      PROVE  AddsAlone' /\ Synced'
  BY <1>3, <1>8, StartLocals DEF BucketStart
<1>9. ASSUME NEW b \in Buckets, BucketGone(b) PROVE AddsAlone' /\ Synced'
  BY <1>1, <1>9 DEF BucketGone
<1>10. CASE UNCHANGED vars
  BY <1>1, <1>10 DEF vars
<1>11. ASSUME NEW a \in Admins, AskUnlimited(a) \/ CheckPrimary(a) \/ Refuse(a) \/ BucketWrite(a)
       PROVE  AddsAlone' /\ Synced'
  <2>1. /\ UNCHANGED <<table, runtime, overlap>> /\ req[a].pc \in {"ask", "check", "write", "bucket"}
        /\ Return(a) \/ \E pc \in {"check", "write"} : Goto(a, pc)
    BY <1>11 DEF AskUnlimited, CheckPrimary, Refuse, BucketWrite, At
  <2> QED BY <1>2, <2>1
<1> QED BY <1>0, <1>4, <1>5, <1>6, <1>7, <1>8, <1>9, <1>10, <1>11 DEF Next

-----------------------------------------------------------------------------
(* What has been checked still holds when it is acted on, as long as the     *)
(* requests have not overlapped.                                             *)
OneAtATime == \A a, o \in Admins : a = o \/ At(a, "idle") \/ At(o, "idle")
PrimaryKept == HasUnlimitedBuckets => PrimaryUnlimited(table)
CheckedHolds(a) ==
  /\ At(a, "write") /\ HasUnlimitedBuckets
       => PrimaryUnlimited([table EXCEPT ![req[a].s] = req[a].row])
  /\ At(a, "bucket") /\ req[a].u => PrimaryUnlimited(table)

LEMMA SerialStep == TypeOK /\ Locals /\ InStep /\ Serial /\ [Next]_vars => Serial'
<1> SUFFICES ASSUME TypeOK, Locals, InStep, Serial, [Next]_vars, ~overlap'
             PROVE  OneAtATime' /\ PrimaryKept' /\ \A a \in Admins : CheckedHolds(a)'
  BY DEF Serial, OneAtATime, PrimaryKept, CheckedHolds
<1>t. /\ table \in [Sources -> Row \cup {None}] /\ runtime \in [Sources -> Row \cup {None}]
      /\ buckets \in [Buckets -> {"absent", "limited", "unlimited"}]
      /\ req \in [Admins -> ReqType] /\ overlap \in BOOLEAN
  BY TypeParts
<1>o. ~overlap
  BY <1>t DEF Next, vars, Restart, BucketGone, AskUnlimited, CheckPrimary, Insert, Publish, Replace,
              Swap, Refuse, BucketWrite, AddStart, UpdateStart, BucketStart, Called
<1>s. OneAtATime /\ PrimaryKept /\ \A a \in Admins : CheckedHolds(a)
  BY <1>o DEF Serial, OneAtATime, PrimaryKept, CheckedHolds
<1>0. ASSUME \A a \in Admins : req'[a].pc = "idle", UNCHANGED <<table, buckets>>
      PROVE  OneAtATime' /\ PrimaryKept' /\ \A a \in Admins : CheckedHolds(a)'
  BY <1>0, <1>s DEF OneAtATime, PrimaryKept, CheckedHolds, At, HasUnlimitedBuckets
<1>a. ASSUME NEW a \in Admins, Others(a), \A o \in Admins : o = a \/ At(o, "idle")
      PROVE  OneAtATime' /\ \A o \in Admins : o # a => CheckedHolds(o)'
  BY <1>a DEF OneAtATime, CheckedHolds, Others, At
<1>b. ASSUME NEW a \in Admins, ~At(a, "idle") PROVE \A o \in Admins : o = a \/ At(o, "idle")
  BY <1>b, <1>s DEF OneAtATime
<1>c. ASSUME NEW a \in Admins, NEW op, Called(a, op) PROVE \A o \in Admins : At(o, "idle")
  BY <1>c DEF Called
<1>1. CASE Restart
  BY <1>0, <1>1, IdleType DEF Restart
<1>2. ASSUME NEW b \in Buckets, BucketGone(b)
      PROVE  OneAtATime' /\ PrimaryKept' /\ \A a \in Admins : CheckedHolds(a)'
  <2>1. UNCHANGED <<table, req>> /\ (HasUnlimitedBuckets' => HasUnlimitedBuckets)
    BY <1>2, <1>t DEF BucketGone, HasUnlimitedBuckets
  <2> QED BY <2>1, <1>s DEF OneAtATime, PrimaryKept, CheckedHolds, At
<1>3. CASE UNCHANGED vars
  BY <1>3, <1>s DEF vars, OneAtATime, PrimaryKept, CheckedHolds, At, HasUnlimitedBuckets
<1>4. ASSUME NEW a \in Admins, AskUnlimited(a) \/ CheckPrimary(a)
      PROVE  OneAtATime' /\ PrimaryKept' /\ \A o \in Admins : CheckedHolds(o)'
  <2>1. /\ UNCHANGED <<table, buckets>> /\ ~At(a, "idle")
        /\ Return(a) \/ Goto(a, "check") \/
             (Goto(a, "write") /\ (HasUnlimitedBuckets =>
                PrimaryUnlimited([table EXCEPT ![req[a].s] = req[a].row])))
    BY <1>4 DEF AskUnlimited, CheckPrimary, At
  <2>2. HasUnlimitedBuckets' <=> HasUnlimitedBuckets
    BY <2>1 DEF HasUnlimitedBuckets
  <2>3. /\ Others(a) /\ req'[a].pc \in {"idle", "check", "write"}
        /\ req'[a].pc = "write" =>
             /\ req'[a].s = req[a].s /\ req'[a].row = req[a].row
             /\ HasUnlimitedBuckets => PrimaryUnlimited([table EXCEPT ![req[a].s] = req[a].row])
    BY <2>1, ReturnLocals, GotoLocals
  <2>4. PrimaryKept'
    BY <1>s, <2>1, <2>2 DEF PrimaryKept
  <2>5. CheckedHolds(a)'
    BY <2>1, <2>2, <2>3 DEF CheckedHolds, At
  <2> QED BY <1>a, <1>b, <2>1, <2>3, <2>4, <2>5
<1>5. ASSUME NEW a \in Admins, Insert(a) \/ Replace(a)
      PROVE  OneAtATime' /\ PrimaryKept' /\ \A o \in Admins : CheckedHolds(o)'
  <2>1. /\ At(a, "write") /\ UNCHANGED buckets /\ table' = [table EXCEPT ![req[a].s] = req[a].row]
        /\ \E pc \in {"publish", "swap"} : Goto(a, pc)
    BY <1>5 DEF Insert, Replace
  <2>2. Others(a) /\ req'[a].pc \in {"publish", "swap"}
    BY <2>1, GotoLocals
  <2>3. PrimaryKept'
    BY <1>s, <2>1 DEF PrimaryKept, CheckedHolds, HasUnlimitedBuckets
  <2>4. CheckedHolds(a)'
    BY <2>2 DEF CheckedHolds, At
  <2>5. ~At(a, "idle")
    BY <2>1 DEF At
  <2> QED BY <1>a, <1>b, <2>2, <2>3, <2>4, <2>5
<1>6. ASSUME NEW a \in Admins, Publish(a) \/ Swap(a) \/ Refuse(a) \/ BucketWrite(a)
      PROVE  OneAtATime' /\ PrimaryKept' /\ \A o \in Admins : CheckedHolds(o)'
  <2>1. UNCHANGED table /\ Return(a) /\ ~At(a, "idle")
    BY <1>6 DEF Publish, Swap, Refuse, BucketWrite, At
  <2>2. \A o \in Admins : req'[o].pc = "idle"
    BY <1>b, <2>1, ReturnLocals DEF Others, At
  <2>3. CASE UNCHANGED buckets
    BY <1>0, <2>1, <2>2, <2>3
  <2>4. CASE BucketWrite(a)
    <3>1. HasUnlimitedBuckets' => HasUnlimitedBuckets \/ req[a].u
      BY <1>t, <2>4 DEF BucketWrite, HasUnlimitedBuckets
    <3>2. PrimaryKept'
      BY <1>s, <2>1, <2>4, <3>1 DEF PrimaryKept, CheckedHolds, BucketWrite
    <3> QED BY <2>2, <3>2 DEF OneAtATime, CheckedHolds, At
  <2> QED BY <1>6, <2>3, <2>4 DEF Publish, Swap, Refuse
<1>7. ASSUME NEW a \in Admins, NEW row \in Row,
             AddStart(a, row) \/ \E s \in Sources : UpdateStart(a, s, row)
      PROVE  OneAtATime' /\ PrimaryKept' /\ \A o \in Admins : CheckedHolds(o)'
  <2>1. Others(a) /\ req'[a].pc = "ask" /\ UNCHANGED <<table, buckets>> /\ \A o \in Admins : At(o, "idle")
    BY <1>7, <1>c, StartLocals DEF AddStart, UpdateStart
  <2> QED BY <1>a, <1>s, <2>1 DEF PrimaryKept, CheckedHolds, At, HasUnlimitedBuckets
<1>8. ASSUME NEW a \in Admins, NEW b \in Buckets, NEW u \in BOOLEAN, BucketStart(a, b, u)
      PROVE  OneAtATime' /\ PrimaryKept' /\ \A o \in Admins : CheckedHolds(o)'
  <2>1. /\ Others(a) /\ req'[a].pc = "bucket" /\ req'[a].u = u
        /\ UNCHANGED <<table, buckets>> /\ \A o \in Admins : At(o, "idle")
    BY <1>8, <1>c, StartLocals DEF BucketStart
  <2>2. runtime = table
    <3>1. \A s \in Sources : runtime[s] = table[s]
      BY <1>o, <2>1 DEF InStep, Synced, At
    <3> QED BY <1>t, <3>1
  <2>3. u => PrimaryUnlimited(table)
    BY <1>8, <2>2 DEF BucketStart
  <2> QED BY <1>a, <1>s, <2>1, <2>3 DEF PrimaryKept, CheckedHolds, At, HasUnlimitedBuckets
<1> QED BY <1>1, <1>2, <1>3, <1>4, <1>5, <1>6, <1>7, <1>8 DEF Next

LEMMA StepIInv == IInv /\ [Next]_vars => IInv'
  BY TypeStep, LocalsStep, InStepStep, SerialStep DEF IInv

-----------------------------------------------------------------------------
(* The tables, the map, the mutex and the requests keep their types, and the *)
(* mutex is held by the update that is between its transaction and the map.  *)
THEOREM SourcesTypeCorrect == Spec => []TypeOK
<1>1. IInv => TypeOK
  BY DEF IInv
<1> QED BY <1>1, Initially, StepIInv, PTL DEF Spec

(* Where additions run alone, the map of StorageManager is the table         *)
(* whenever the mutex is free, however the updates overlap (Update).         *)
THEOREM MapFollowsTable ==
  ASSUME "add" \in Alone
  PROVE  Spec => []RuntimeMatchesTable
<1>1. IInv => RuntimeMatchesTable
  <2> SUFFICES ASSUME IInv, mu = None, \A a \in Admins : ~At(a, "publish")
               PROVE  runtime = table
    BY DEF RuntimeMatchesTable
  <2>1. \A a \in Admins : req[a].pc \notin {"swap", "publish"}
    BY DEF IInv, TypeOK, At
  <2>2. \A s \in Sources : runtime[s] = table[s]
    BY <2>1 DEF IInv, InStep, Synced
  <2> QED BY <2>2 DEF IInv, TypeOK
<1> QED BY <1>1, Initially, StepIInv, PTL DEF Spec

(* The primary source is unlimited while an unlimited bucket exists, as long *)
(* as requests have not overlapped (validatePrimaryCapacity, UpdateBucket).  *)
THEOREM SerialCorrect == Spec => []SerialKeepsPrimary
<1>1. IInv => SerialKeepsPrimary
  BY DEF IInv, Serial, SerialKeepsPrimary, PrimaryStaysUnlimited
<1> QED BY <1>1, Initially, StepIInv, PTL DEF Spec
=============================================================================
