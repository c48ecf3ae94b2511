------------------------------- MODULE Backup -------------------------------
(***************************************************************************)
(* PlatformFilesystem: the loop that writes an encrypted snapshot of the    *)
(* database to a slot of the primary source, then the marker, and what its  *)
(* Status tells the console.  Time is counted in whole backup intervals,    *)
(* and a snapshot is known by the interval it was made in (created_at).  An *)
(* interrupted Put leaves the old file, the new one or, where the source    *)
(* does not replace files atomically, a torn one.                           *)
(***************************************************************************)
EXTENDS Integers

CONSTANTS
  Sources,
  Tearing,    \* sources where an interrupted Put may leave a torn file (WebDAV)
  Retention,
  MaxClock,   \* bound: intervals counted
  None, Torn

ASSUME RetentionAssumption == Retention \in Nat /\ Retention >= 2  \* config.go
ASSUME ClockAssumption == MaxClock \in Nat
ASSUME SourceAssumption == Tearing \subseteq Sources /\ None \notin Sources
ASSUME FileAssumption == None \notin Int /\ Torn \notin Int /\ None # Torn

VARIABLES
  clock,    \* the current interval
  primary,  \* what StorageManager.Primary answers
  slots,    \* backups/slot-NN of each source: the interval, None or Torn
  marker,   \* filesystem.json has been put on the source, whole or torn
  status,   \* PlatformFilesystem.status
  run,      \* the loop, and the local variables of backup
  done      \* history: the sources and intervals of the backups that succeeded

vars == <<clock, primary, slots, marker, status, run, done>>

Intervals == 0..MaxClock
Files == Intervals \cup {None, Torn}
Unknown == [initialized |-> FALSE, source |-> None, success |-> None]
Asleep(now, due) == [pc |-> "asleep", now |-> now, source |-> None, due |-> due]

TypeOK ==
  /\ clock \in Intervals /\ primary \in Sources
  /\ slots \in [Sources -> [0..(Retention - 1) -> Files]]
  /\ marker \in [Sources -> BOOLEAN]
  /\ status \in [initialized : BOOLEAN, source : Sources \cup {None},
                 success : Intervals \cup {None}]
  /\ status.initialized <=> status.source # None /\ status.success # None
  /\ run \in [pc : {"asleep", "slot", "marker", "report"}, now : Intervals,
              source : Sources \cup {None}, due : 0..(MaxClock + 1)]
  /\ done \subseteq Sources \X Intervals

Init ==
  /\ clock = 0 /\ primary \in Sources
  /\ slots = [s \in Sources |-> [n \in 0..(Retention - 1) |-> None]]
  /\ marker = [s \in Sources |-> FALSE]
  /\ status = Unknown
  /\ run = Asleep(0, 0)
  /\ done = {}

Tick ==
  /\ clock < MaxClock
  /\ clock' = clock + 1
  /\ UNCHANGED <<primary, slots, marker, status, run, done>>

(* An administrator adds a source or changes priorities. *)
ChangePrimary(s) ==
  /\ primary' = s
  /\ UNCHANGED <<clock, slots, marker, status, run, done>>

-----------------------------------------------------------------------------
(* backup *)

(* Mutant: the last slot is never used. *)
SlotShort(now) == now % (Retention - 1)

Slot(now) == now % Retention

(* The timer fires; the primary source is asked once. *)
Start ==
  /\ run.pc = "asleep" /\ run.due <= clock
  /\ run' = [run EXCEPT !.pc = "slot", !.now = clock, !.source = primary]
  /\ UNCHANGED <<clock, primary, slots, marker, status, done>>

PutSlot ==
  /\ run.pc = "slot"
  /\ slots' = [slots EXCEPT ![run.source][Slot(run.now)] = run.now]
  /\ run' = [run EXCEPT !.pc = "marker"]
  /\ UNCHANGED <<clock, primary, marker, status, done>>

PutMarker ==
  /\ run.pc = "marker"
  /\ marker' = [marker EXCEPT ![run.source] = TRUE]
  /\ run' = [run EXCEPT !.pc = "report"]
  /\ UNCHANGED <<clock, primary, slots, status, done>>

(* Mutant: the success is dated when it is reported. *)
SucceedNow ==
  /\ run.pc = "report"
  /\ status' = [initialized |-> TRUE, source |-> run.source, success |-> clock]
  /\ run' = Asleep(run.now, run.now + 1)
  /\ done' = done \cup {<<run.source, run.now>>}
  /\ UNCHANGED <<clock, primary, slots, marker>>

(* The next backup is a whole interval away. *)
Succeed ==
  /\ run.pc = "report"
  /\ status' = [initialized |-> TRUE, source |-> run.source, success |-> run.now]
  /\ run' = Asleep(run.now, run.now + 1)
  /\ done' = done \cup {<<run.source, run.now>>}
  /\ UNCHANGED <<clock, primary, slots, marker>>

(* What a Put that was cut off leaves where f was. *)
Leftovers(s, f, now) == {f, now} \cup (IF s \in Tearing THEN {Torn} ELSE {})

PutCut(s) ==
  \/ /\ run.pc = "slot"
     /\ \E f \in Leftovers(s, slots[s][Slot(run.now)], run.now) :
          slots' = [slots EXCEPT ![s][Slot(run.now)] = f]
     /\ UNCHANGED marker
  \/ /\ run.pc = "marker"
     /\ \E there \in {marker[s], TRUE} : marker' = [marker EXCEPT ![s] = there]
     /\ UNCHANGED slots
  \/ run.pc = "report" /\ UNCHANGED <<slots, marker>>

(* Mutant: a failure wipes the last success. *)
FailForgets ==
  /\ run.pc \in {"slot", "marker"}
  /\ PutCut(run.source)
  /\ run' = Asleep(run.now, 0)
  /\ status' = [status EXCEPT !.success = None]
  /\ UNCHANGED <<clock, primary, done>>

(* No snapshot, no room, or a Put that fails: the loop tries again in a minute. *)
Fail ==
  /\ run.pc \in {"slot", "marker"}
  /\ PutCut(run.source)
  /\ run' = Asleep(run.now, 0)
  /\ UNCHANGED <<clock, primary, status, done>>

(* The process stops anywhere and is started again: status is in memory. *)
Restart ==
  /\ IF run.pc = "asleep" THEN UNCHANGED <<slots, marker>> ELSE PutCut(run.source)
  /\ run' = Asleep(0, 0)
  /\ status' = Unknown
  /\ UNCHANGED <<clock, primary, done>>

Next == \/ Tick \/ Start \/ PutSlot \/ PutMarker \/ Succeed \/ Fail \/ Restart
        \/ \E s \in Sources : ChangePrimary(s)

Spec == Init /\ [][Next]_vars

-----------------------------------------------------------------------------
(* Mutant: the source of the last success is not compared with the primary. *)
StatusOfAnySource == [status EXCEPT !.source = primary]

(* What the console is told. *)
Status ==
  IF status.source \notin {None, primary}
  THEN [initialized |-> FALSE, source |-> primary, success |-> None]
  ELSE [status EXCEPT !.source = primary]

(* When the console is told of a success, the source it names holds the      *)
(* marker and a whole snapshot that is no older, whatever later attempts     *)
(* tore, until Retention intervals have gone by.                             *)
StatusTellsOfASnapshot ==
  Status.success # None /\ clock < Status.success + Retention
    => /\ marker[Status.source]
       /\ \E n \in 0..(Retention - 1) : slots[Status.source][n] \in Status.success..MaxClock

(* Restarts, retries and changes of the primary source do not upset the      *)
(* rotation: where Retention intervals in a row were backed up, no slot is   *)
(* empty or still holds an older snapshot.                                   *)
SnapshotsRotate ==
  \A s \in Sources, i \in Intervals :
    (\A j \in (i - Retention + 1)..i : <<s, j>> \in done)
      => \A n \in 0..(Retention - 1) :
           slots[s][n] = Torn \/ slots[s][n] \in (i - Retention + 1)..MaxClock
=============================================================================
