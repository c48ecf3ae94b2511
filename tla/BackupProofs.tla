---------------------------- MODULE BackupProofs ----------------------------
(* Theorems about Backup, for every retention, source and clock bound: what  *)
(* the console is told of is on the source, and the slots rotate.            *)
EXTENDS Backup, TLAPS

USE RetentionAssumption

(* Intervals less than Retention apart have slots of their own. *)
LEMMA SlotsApart ==
  ASSUME NEW i \in Nat, NEW j \in Nat, i < j, j < i + Retention
  PROVE  Slot(i) # Slot(j)
<1> SUFFICES ASSUME i % Retention = j % Retention PROVE FALSE
  BY DEF Slot
<1> DEFINE p == i \div Retention
           q == j \div Retention
           m == i % Retention
<1>1. /\ p \in Nat /\ m \in 0..(Retention - 1) /\ i = Retention * p + m
      /\ q \in Nat /\ j = Retention * q + m
  OBVIOUS
<1> HIDE DEF p, q, m
<1>2. CASE q <= p
  <2>1. Retention * q <= Retention * p /\ Retention * q \in Nat /\ Retention * p \in Nat
    BY <1>1, <1>2
  <2> QED BY <1>1, <2>1
<1>3. CASE q >= p + 1
  <2>1. /\ Retention * q >= Retention * (p + 1) /\ Retention * (p + 1) = Retention * p + Retention
        /\ Retention * q \in Nat /\ Retention * p \in Nat
    BY <1>1, <1>3
  <2> QED BY <1>1, <2>1
<1> QED BY <1>1, <1>2, <1>3

LEMMA SlotRange ==
  ASSUME NEW i \in Nat
  PROVE  Slot(i) \in 0..(Retention - 1)
  BY DEF Slot

(* Every slot is some interval's of the last Retention. *)
LEMMA SlotTaken ==
  ASSUME NEW i \in Nat, NEW n \in 0..(Retention - 1), i >= Retention - 1
  PROVE  \E j \in (i - Retention + 1)..i : Slot(j) = n
<1> DEFINE q == i \div Retention
           m == i % Retention
<1>1. q \in Nat /\ m \in 0..(Retention - 1) /\ i = Retention * q + m /\ Retention * q \in Nat
  OBVIOUS
<1>2. ASSUME NEW p \in Nat, Retention * p \in Nat
      PROVE  (Retention * p + n) % Retention = n
  OBVIOUS
<1> HIDE DEF q, m
<1>3. CASE n <= m
  <2> DEFINE j == Retention * q + n
  <2>1. j \in (i - Retention + 1)..i
    BY <1>1, <1>3
  <2>2. Slot(j) = n
    BY <1>1, <1>2 DEF Slot
  <2> QED BY <2>1, <2>2
<1>4. CASE n > m
  <2> DEFINE j == Retention * (q - 1) + n
  <2>1. Retention * (q - 1) = Retention * q - Retention
    BY <1>1
  <2>2. q - 1 \in Nat
    BY <1>1, <1>4
  <2>3. j \in (i - Retention + 1)..i
    BY <1>1, <1>4, <2>1
  <2>4. Slot(j) = n
    BY <1>1, <1>2, <2>1, <2>2 DEF Slot
  <2> QED BY <2>3, <2>4
<1> QED BY <1>1, <1>3, <1>4

-----------------------------------------------------------------------------
(* The loop's place in time: no backup is of a later interval than the clock *)
(* or than the one the loop is writing.                                      *)
InOrder ==
  /\ run.pc # "asleep" => run.now <= clock /\ run.source \in Sources
  /\ \A d \in done : d[2] <= clock /\ (run.pc # "asleep" => d[2] <= run.now)

(* What the loop has put so far is still there. *)
Written ==
  /\ run.pc \in {"marker", "report"} => slots[run.source][Slot(run.now)] = run.now
  /\ run.pc = "report" => marker[run.source]

(* A backup that succeeded is only replaced by a later one or torn. *)
Kept ==
  \A s \in Sources, j \in Intervals :
    <<s, j>> \in done => slots[s][Slot(j)] = Torn \/ slots[s][Slot(j)] \in j..MaxClock

(* The last success the status names: the loop is past its interval, and for *)
(* Retention intervals no other one shares its slot.                         *)
Told ==
  status.success # None =>
    /\ status.source \in Sources /\ marker[status.source]
    /\ status.success <= clock
    /\ IF run.pc = "asleep" THEN run.due > status.success \/ clock > status.success
       ELSE run.now > status.success
    /\ clock < status.success + Retention
         => slots[status.source][Slot(status.success)] = status.success

IInv == TypeOK /\ InOrder /\ Written /\ Kept /\ Told

LEMMA Initially == Init => IInv
  BY SlotRange, ClockAssumption, SourceAssumption, FileAssumption
  DEF Init, IInv, TypeOK, InOrder, Written, Kept, Told, Unknown, Asleep, Intervals, Files

(* Whatever a cut-off Put leaves has the type of the files it replaces.      *)
LEMMA TypeStep == TypeOK /\ InOrder /\ [Next]_vars => TypeOK'
<1> SUFFICES ASSUME TypeOK, InOrder, [Next]_vars PROVE TypeOK'
  OBVIOUS
<1> USE ClockAssumption, SourceAssumption, FileAssumption DEF TypeOK, Intervals, Files
<1>c. ASSUME run.pc # "asleep", PutCut(run.source)
      PROVE  /\ slots' \in [Sources -> [0..(Retention - 1) -> Files]]
             /\ marker' \in [Sources -> BOOLEAN]
  <2> DEFINE r == run.source
             k == Slot(run.now)
  <2>1. r \in Sources /\ run.now \in Intervals /\ k \in 0..(Retention - 1)
    BY <1>c, SlotRange DEF InOrder
  <2>2. slots[r][k] \in Files /\ run.now \in Files /\ Torn \in Files
    BY <2>1
  <2>3. Leftovers(r, slots[r][k], run.now) \subseteq Files
    BY <2>2 DEF Leftovers
  <2>4. ASSUME NEW f \in Files PROVE [slots EXCEPT ![r][k] = f] \in [Sources -> [0..(Retention - 1) -> Files]]
    <3> HIDE DEF r, k, Files
    <3> QED BY <2>1
  <2>5. CASE run.pc = "slot"
    <3>1. UNCHANGED marker /\ \E f \in Leftovers(r, slots[r][k], run.now) : slots' = [slots EXCEPT ![r][k] = f]
      BY <1>c, <2>5 DEF PutCut
    <3> HIDE DEF r, k, Files
    <3> QED BY <2>3, <2>4, <3>1
  <2>6. CASE run.pc = "marker"
    <3>1. UNCHANGED slots /\ \E there \in {marker[r], TRUE} : marker' = [marker EXCEPT ![r] = there]
      BY <1>c, <2>6 DEF PutCut
    <3>2. marker[r] \in BOOLEAN
      BY <2>1
    <3>3. ASSUME NEW there \in BOOLEAN PROVE [marker EXCEPT ![r] = there] \in [Sources -> BOOLEAN]
      BY <2>1
    <3>4. PICK there \in {marker[r], TRUE} : marker' = [marker EXCEPT ![r] = there]
      BY <3>1
    <3>5. there \in BOOLEAN
      BY <3>2, <3>4
    <3>6. marker' \in [Sources -> BOOLEAN]
      BY <3>3, <3>4, <3>5
    <3> QED BY <3>1, <3>6
  <2>7. CASE run.pc = "report"
    BY <1>c, <2>7 DEF PutCut
  <2> QED BY <1>c, <2>5, <2>6, <2>7
<1>1. CASE Tick
  BY <1>1 DEF Tick
<1>2. ASSUME NEW s \in Sources, ChangePrimary(s) PROVE TypeOK'
  BY <1>2 DEF ChangePrimary
<1>3. CASE Start
  BY <1>3 DEF Start
<1>4. CASE PutSlot
  BY <1>4, SlotRange DEF PutSlot
<1>5. CASE PutMarker
  BY <1>5 DEF PutMarker
<1>6. CASE Succeed
  BY <1>6 DEF Succeed, Asleep, InOrder
<1>7. CASE Fail
  BY <1>7, <1>c DEF Fail, Asleep
<1>8. CASE Restart
  BY <1>8, <1>c DEF Restart, Asleep, Unknown
<1>9. CASE UNCHANGED vars
  BY <1>9 DEF vars
<1> QED BY <1>1, <1>2, <1>3, <1>4, <1>5, <1>6, <1>7, <1>8, <1>9 DEF Next

(* The interval the loop works on never goes back. *)
LEMMA OrderStep == TypeOK /\ InOrder /\ [Next]_vars => InOrder'
<1> SUFFICES ASSUME TypeOK, InOrder, [Next]_vars PROVE InOrder'
  OBVIOUS
<1> USE ClockAssumption DEF TypeOK, InOrder, Intervals
<1>1. CASE Tick
  BY <1>1 DEF Tick
<1>2. ASSUME NEW s \in Sources, ChangePrimary(s) PROVE InOrder'
  BY <1>2 DEF ChangePrimary
<1>3. CASE Start
  BY <1>3 DEF Start
<1>4. CASE PutSlot
  BY <1>4 DEF PutSlot
<1>5. CASE PutMarker
  BY <1>5 DEF PutMarker
<1>6. CASE Succeed
  BY <1>6 DEF Succeed, Asleep
<1>7. CASE Fail
  BY <1>7 DEF Fail, Asleep
<1>8. CASE Restart
  BY <1>8 DEF Restart, Asleep
<1>9. CASE UNCHANGED vars
  BY <1>9 DEF vars
<1> QED BY <1>1, <1>2, <1>3, <1>4, <1>5, <1>6, <1>7, <1>8, <1>9 DEF Next

(* A step leaves every slot as it is, but for the one the loop is putting,   *)
(* which it may leave torn, old or new.                                      *)
LEMMA OneSlotAtATime ==
  ASSUME TypeOK, InOrder, [Next]_vars, NEW s \in Sources, NEW n \in 0..(Retention - 1),
         slots'[s][n] # slots[s][n]
  PROVE  /\ run.pc = "slot" /\ s = run.source /\ n = Slot(run.now)
         /\ slots'[s][n] \in {run.now, Torn}
<1> USE ClockAssumption, SourceAssumption, FileAssumption DEF TypeOK, InOrder, Intervals
<1>c. ASSUME PutCut(run.source), run.pc # "asleep"
      PROVE  /\ run.pc = "slot" /\ s = run.source /\ n = Slot(run.now)
             /\ slots'[s][n] \in {run.now, Torn}
  <2> DEFINE r == run.source
             k == Slot(run.now)
  <2>1. r \in Sources /\ run.now \in Intervals /\ k \in 0..(Retention - 1)
    BY <1>c, SlotRange
  <2>2. /\ run.pc = "slot"
        /\ \E f \in Leftovers(r, slots[r][k], run.now) : slots' = [slots EXCEPT ![r][k] = f]
    BY <1>c DEF PutCut
  <2>3. PICK f \in {slots[r][k], run.now, Torn} : slots' = [slots EXCEPT ![r][k] = f]
    BY <2>2 DEF Leftovers
  <2>4. slots \in [Sources -> [0..(Retention - 1) -> Files]]
    OBVIOUS
  <2> HIDE DEF r, k
  <2>5. slots'[s][n] = IF s = r /\ n = k THEN f ELSE slots[s][n]
    BY <2>1, <2>3, <2>4
  <2>6. s = r /\ n = k /\ f # slots[r][k]
    BY <2>5
  <2> QED BY <2>2, <2>3, <2>5, <2>6 DEF r, k
<1>1. CASE Tick \/ Start \/ PutMarker \/ Succeed \/ UNCHANGED vars
  BY <1>1 DEF Tick, Start, PutMarker, Succeed, vars
<1>2. ASSUME NEW t \in Sources, ChangePrimary(t) PROVE FALSE
  BY <1>2 DEF ChangePrimary
<1>3. CASE PutSlot
  BY <1>3, SlotRange DEF PutSlot
<1>4. CASE Fail
  BY <1>4, <1>c DEF Fail
<1>5. CASE Restart
  BY <1>5, <1>c DEF Restart
<1> QED BY <1>1, <1>2, <1>3, <1>4, <1>5 DEF Next

LEMMA WrittenStep == TypeOK /\ InOrder /\ Written /\ [Next]_vars => Written'
<1> SUFFICES ASSUME TypeOK, InOrder, Written, [Next]_vars PROVE Written'
  OBVIOUS
<1> USE DEF TypeOK, InOrder, Written
<1>1. CASE Tick
  BY <1>1 DEF Tick
<1>2. ASSUME NEW s \in Sources, ChangePrimary(s) PROVE Written'
  BY <1>2 DEF ChangePrimary
<1>3. CASE Start
  BY <1>3 DEF Start
<1>4. CASE PutSlot
  <2>1. Slot(run.now) \in 0..(Retention - 1) /\ run.source \in Sources
    BY <1>4, SlotRange DEF PutSlot, Intervals
  <2> QED BY <1>4, <2>1 DEF PutSlot
<1>5. CASE PutMarker
  BY <1>5 DEF PutMarker
<1>6. CASE Succeed
  BY <1>6 DEF Succeed, Asleep
<1>7. CASE Fail
  BY <1>7 DEF Fail, Asleep
<1>8. CASE Restart
  BY <1>8 DEF Restart, Asleep
<1>9. CASE UNCHANGED vars
  BY <1>9 DEF vars
<1> QED BY <1>1, <1>2, <1>3, <1>4, <1>5, <1>6, <1>7, <1>8, <1>9 DEF Next

(* The loop writes a slot over only with a later interval than any backup    *)
(* that succeeded in it.                                                     *)
LEMMA KeptStep == TypeOK /\ InOrder /\ Written /\ Kept /\ [Next]_vars => Kept'
<1> SUFFICES ASSUME TypeOK, InOrder, Written, Kept, [Next]_vars,
                    NEW s \in Sources, NEW j \in Intervals, <<s, j>> \in done'
             PROVE  slots'[s][Slot(j)] = Torn \/ slots'[s][Slot(j)] \in j..MaxClock
  BY DEF Kept
<1> DEFINE Good(f) == f = Torn \/ f \in j..MaxClock
<1>1. Slot(j) \in 0..(Retention - 1)
  BY SlotRange DEF Intervals
<1>2. CASE <<s, j>> \in done
  <2>1. Good(slots[s][Slot(j)])
    BY <1>2 DEF Kept
  <2>2. CASE slots'[s][Slot(j)] # slots[s][Slot(j)]
    <3>1. run.pc = "slot" /\ slots'[s][Slot(j)] \in {run.now, Torn}
      BY <1>1, <2>2, OneSlotAtATime
    <3>2. j <= run.now /\ run.now \in 0..MaxClock
      BY <1>2, <3>1 DEF InOrder, TypeOK, Intervals
    <3> QED BY <3>1, <3>2, ClockAssumption DEF Intervals
  <2> QED BY <2>1, <2>2
<1>3. CASE <<s, j>> \notin done
  <2>1. Succeed
    BY <1>3 DEF Next, Tick, ChangePrimary, Start, PutSlot, PutMarker, Fail, Restart, vars
  <2>2. s = run.source /\ j = run.now /\ UNCHANGED slots /\ run.pc = "report"
    BY <1>3, <2>1 DEF Succeed
  <2>3. slots[s][Slot(j)] = j
    BY <2>2 DEF Written
  <2> QED BY <2>2, <2>3, ClockAssumption DEF Intervals
<1> QED BY <1>2, <1>3

LEMMA ToldStep == TypeOK /\ InOrder /\ Written /\ Told /\ [Next]_vars => Told'
<1> SUFFICES ASSUME TypeOK, InOrder, Written, Told, [Next]_vars, status'.success # None
             PROVE  Told'
  BY DEF Told
<1> USE ClockAssumption, SourceAssumption, FileAssumption DEF TypeOK, InOrder, Written, Intervals
<1>a. ASSUME status' = status, clock' \in Nat, clock' >= clock,
             \A s \in Sources : marker[s] => marker'[s],
             IF run'.pc = "asleep" THEN run'.due > status.success \/ clock' > status.success
             ELSE run'.now > status.success
      PROVE  Told'
  <2> DEFINE s == status.source
             c == status.success
             n == Slot(c)
  <2>1. status.success # None /\ s \in Sources /\ c \in Nat
    BY <1>a DEF Told
  <2>2. n \in 0..(Retention - 1)
    BY <2>1, SlotRange
  <2>3. marker'[s] /\ c <= clock'
    BY <1>a, <2>1 DEF Told
  <2>4. ASSUME clock' < c + Retention PROVE slots'[s][n] = c
    <3>1. slots[s][n] = c
      BY <1>a, <2>1, <2>4 DEF Told
    <3>2. CASE slots'[s][n] # slots[s][n]
      <4>1. run.pc = "slot" /\ n = Slot(run.now)
        BY <2>1, <2>2, <3>2, OneSlotAtATime
      <4>2. c < run.now /\ run.now < c + Retention /\ run.now \in Nat
        BY <1>a, <2>1, <2>4, <4>1 DEF Told
      <4> QED BY <2>1, <4>1, <4>2, SlotsApart
    <3> QED BY <3>1, <3>2
  <2> QED BY <1>a, <2>3, <2>4 DEF Told
<1>c. ASSUME PutCut(run.source), run.pc # "asleep"
      PROVE  \A s \in Sources : marker[s] => marker'[s]
  BY <1>c DEF PutCut
<1>1. CASE Tick
  BY <1>1, <1>a DEF Tick, Told
<1>2. ASSUME NEW s \in Sources, ChangePrimary(s) PROVE Told'
  BY <1>2, <1>a DEF ChangePrimary, Told
<1>3. CASE Start
  BY <1>3, <1>a DEF Start, Told
<1>4. CASE PutSlot
  BY <1>4, <1>a DEF PutSlot, Told
<1>5. CASE PutMarker
  BY <1>5, <1>a DEF PutMarker, Told
<1>6. CASE Succeed
  BY <1>6 DEF Succeed, Asleep, Told
<1>7. CASE Fail
  <2>1. status' = status /\ clock' = clock /\ run' = Asleep(run.now, 0) /\ run.pc # "asleep"
        /\ \A s \in Sources : marker[s] => marker'[s]
    BY <1>7, <1>c DEF Fail
  <2>2. clock > status.success
    BY <2>1 DEF Told
  <2> QED BY <1>a, <2>1, <2>2 DEF Asleep
<1>8. CASE Restart
  BY <1>8 DEF Restart, Unknown
<1>9. CASE UNCHANGED vars
  BY <1>9, <1>a DEF vars, Told
<1> QED BY <1>1, <1>2, <1>3, <1>4, <1>5, <1>6, <1>7, <1>8, <1>9 DEF Next

LEMMA StepIInv == IInv /\ [Next]_vars => IInv'
  BY TypeStep, OrderStep, WrittenStep, KeptStep, ToldStep DEF IInv

-----------------------------------------------------------------------------
(* Every backup, retry and restart keeps the loop, the slots and the status  *)
(* in their types (PlatformFilesystem).                                      *)
THEOREM BackupTypeCorrect == Spec => []TypeOK
<1>1. IInv => TypeOK
  BY DEF IInv
<1> QED BY <1>1, Initially, StepIInv, PTL DEF Spec

(* A success the console is told of (Status) is a snapshot on the source it  *)
(* names, until Retention intervals have gone by.                            *)
THEOREM StatusIsHonest == Spec => []StatusTellsOfASnapshot
<1>1. IInv => StatusTellsOfASnapshot
  <2> SUFFICES ASSUME IInv, Status.success # None, clock < Status.success + Retention
               PROVE  /\ marker[Status.source]
                      /\ \E n \in 0..(Retention - 1) : slots[Status.source][n] \in Status.success..MaxClock
    BY DEF StatusTellsOfASnapshot
  <2>1. /\ status.source \in {None, primary} /\ Status = [status EXCEPT !.source = primary]
        /\ status.success # None
    BY DEF Status, IInv, TypeOK
  <2>2. status.source = primary /\ Status.success = status.success /\ Status.source = primary
        /\ status.success \in 0..MaxClock
    BY <2>1, SourceAssumption DEF IInv, Told, TypeOK, Intervals
  <2>3. slots[primary][Slot(status.success)] = status.success /\ marker[primary]
    BY <2>1, <2>2 DEF IInv, Told
  <2>4. Slot(status.success) \in 0..(Retention - 1)
    BY <2>2, SlotRange
  <2> QED BY <2>2, <2>3, <2>4, ClockAssumption
<1> QED BY <1>1, Initially, StepIInv, PTL DEF Spec

(* After Retention intervals in a row that were backed up, every slot of the *)
(* source holds one of them, a later one or what a Put tore since.           *)
THEOREM RotationCorrect == Spec => []SnapshotsRotate
<1>1. IInv => SnapshotsRotate
  <2> SUFFICES ASSUME IInv, NEW s \in Sources, NEW i \in Intervals,
                      \A j \in (i - Retention + 1)..i : <<s, j>> \in done,
                      NEW n \in 0..(Retention - 1)
               PROVE  slots[s][n] = Torn \/ slots[s][n] \in (i - Retention + 1)..MaxClock
    BY DEF SnapshotsRotate
  <2>1. i \in Nat /\ i - Retention + 1 \in Int /\ i - Retention + 1 <= i
    BY ClockAssumption DEF Intervals
  <2>2. \A j \in (i - Retention + 1)..i : j \in Intervals
    BY DEF IInv, TypeOK
  <2>3. i >= Retention - 1
    BY <2>1, <2>2, ClockAssumption DEF Intervals
  <2>4. PICK j \in (i - Retention + 1)..i : Slot(j) = n
    BY <2>1, <2>3, SlotTaken
  <2>5. slots[s][n] = Torn \/ slots[s][n] \in j..MaxClock
    BY <2>2, <2>4 DEF IInv, Kept
  <2> QED BY <2>1, <2>4, <2>5, ClockAssumption
<1> QED BY <1>1, Initially, StepIInv, PTL DEF Spec
=============================================================================
