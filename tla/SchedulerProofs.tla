--------------------------- MODULE SchedulerProofs ---------------------------
(***************************************************************************)
(* Theorems of Scheduler for every bound on time and interruptions.        *)
(*                                                                         *)
(* The debt of the service is the time since the last collection less the  *)
(* interruptions since.  It may be one only while a run is due that has    *)
(* not come to collecting yet (Debt); and saved posts that nobody is       *)
(* archiving stand for an interruption, so the run that publishes them     *)
(* instead of collecting has one to spend (SavedDebt).                     *)
(***************************************************************************)
EXTENDS Scheduler, TLAPS

USE SchedulerAssumption DEF Runners, NotYet

\* A run is due and has not collected, resumed or ended.
Pending ==
    \/ phase = "sleep" /\ due <= clock
    \/ run["worker"] \in {"started", "locked"}

Archived == \E p \in Runners : run[p] = "archiving"

Debt == clock - collected - excused <= (IF Pending THEN 1 ELSE 0)

SavedDebt ==
    unpublished /\ ~Archived =>
        clock - collected - excused <= (IF Pending THEN 0 ELSE -1)

\* How the phase of serve, the two processes and the status fit together.
Control ==
    /\ run["worker"] # "none" <=> phase = "watch"
    /\ run["manual"] # "exited"
    /\ phase = "down" => run["manual"] = "none"
    /\ phase = "watch" => file.running
    /\ phase = "sleep" => due <= clock + 1
    /\ "group" \in strays => phase = "grace"
    /\ ~(Holds("worker") /\ Holds("manual"))
    /\ Archived => unpublished

\* What is known of the instants.
Instants ==
    /\ begun <= clock
    /\ success <= clock /\ file.success <= clock
    /\ phase # "down" => success = file.success
    /\ phase \in {"down", "schedule", "sleep"} => code = "none"
    /\ code = "published" => public >= begun
    /\ run["worker"] \in {"started", "locked", "archiving"} => code = "none"

IInv ==
    /\ SchedulerTypeOK
    /\ Control
    /\ Instants
    /\ Debt
    /\ SavedDebt

LEMMA InitHolds == SchedulerInit => IInv
<1> SUFFICES ASSUME SchedulerInit PROVE IInv
  OBVIOUS
<1> USE DEF SchedulerInit
<1>1. startup \in BOOLEAN /\ stop \in BOOLEAN /\ unpublished \in BOOLEAN
  OBVIOUS
<1>2. SchedulerTypeOK
  BY <1>1 DEF SchedulerTypeOK
<1>3. Control
  BY DEF Control, Holds, Archived
<1>4. Instants
  BY DEF Instants
<1>5. Debt /\ SavedDebt
  BY DEF Debt, SavedDebt, Pending
<1>6. QED
  BY <1>2, <1>3, <1>4, <1>5 DEF IInv

\* The disjuncts of the next-state relation.
LEMMA Steps ==
    ASSUME SchedulerNext
    PROVE  \/ ServeStarts \/ Schedule \/ Wake \/ Poll \/ Terminate \/ KillGroup
           \/ Record \/ ServeEnds \/ ManualBegins \/ Tick \/ Shutdown
           \/ ContainerEnds \/ EncoderEnds
           \/ \E p \in Runners : \/ Locks(p) \/ FindsLockTaken(p) \/ Collects(p)
                                 \/ Resumes(p) \/ ArchivesOnly(p) \/ Publishes(p)
                                 \/ Fails(p) \/ Dies(p)
  BY DEF SchedulerNext, ServeStep, RunStep

\* Every step keeps the types.
LEMMA TypeKept ==
    ASSUME SchedulerTypeOK, SchedulerNext PROVE SchedulerTypeOK'
<1> USE DEF SchedulerTypeOK
<1>1. CASE ServeStarts
  BY <1>1 DEF ServeStarts, runVars
<1>2. CASE Schedule
  BY <1>2 DEF Schedule, NextInstant, runVars
<1>3. CASE Wake
  <2>1. startup' \in BOOLEAN /\ stop' \in BOOLEAN /\ unpublished' \in BOOLEAN
    BY <1>3 DEF Wake
  <2>2. /\ run' \in [Runners -> {"none", "started", "locked", "archiving", "exited"}]
        /\ file' \in [running : BOOLEAN, success : Int]
    BY <1>3 DEF Wake
  <2>3. UNCHANGED <<settings, clock, due, success, code, strays, public, collected,
                    excused>> /\ begun' = clock /\ phase' = "watch"
    BY <1>3 DEF Wake
  <2>4. QED
    BY <2>1, <2>2, <2>3
<1>4. CASE Poll
  BY <1>4 DEF Poll
<1>5. CASE Terminate
  BY <1>5 DEF Terminate, Excuse
<1>6. CASE KillGroup
  BY <1>6 DEF KillGroup
<1>7. CASE Record
  BY <1>7 DEF Record, runVars
<1>8. CASE ServeEnds
  <2>1. startup' \in BOOLEAN /\ stop' \in BOOLEAN /\ unpublished' \in BOOLEAN
    BY <1>8 DEF ServeEnds, EverythingEnds
  <2>2. excused' \in Nat
    BY <1>8 DEF ServeEnds, EverythingEnds
  <2>3. QED
    BY <1>8, <2>1, <2>2 DEF ServeEnds, EverythingEnds
<1>9. CASE ManualBegins
  BY <1>9 DEF ManualBegins, ServeUnchanged
<1>10. CASE Tick
  BY <1>10 DEF Tick, Excuse, serveVars, runVars
<1>11. CASE Shutdown
  BY <1>11 DEF Shutdown, runVars
<1>12. CASE ContainerEnds
  <2>1. startup' \in BOOLEAN /\ stop' \in BOOLEAN /\ unpublished' \in BOOLEAN
    BY <1>12 DEF ContainerEnds, EverythingEnds
  <2>2. excused' \in Nat
    BY <1>12 DEF ContainerEnds, EverythingEnds
  <2>3. QED
    BY <1>12, <2>1, <2>2 DEF ContainerEnds, EverythingEnds
<1>13. CASE EncoderEnds
  BY <1>13 DEF EncoderEnds, serveVars
<1>14. ASSUME NEW p \in Runners, Locks(p) PROVE SchedulerTypeOK'
  BY <1>14 DEF Locks, ServeUnchanged
<1>15. ASSUME NEW p \in Runners, FindsLockTaken(p) PROVE SchedulerTypeOK'
  BY <1>15 DEF FindsLockTaken, Exits, Excuse, ServeUnchanged
<1>16. ASSUME NEW p \in Runners, Collects(p) PROVE SchedulerTypeOK'
  BY <1>16 DEF Collects, ServeUnchanged
<1>17. ASSUME NEW p \in Runners, Resumes(p) PROVE SchedulerTypeOK'
  BY <1>17 DEF Resumes, ServeUnchanged
<1>18. ASSUME NEW p \in Runners, ArchivesOnly(p) PROVE SchedulerTypeOK'
  BY <1>18 DEF ArchivesOnly, Excuse, ServeUnchanged
<1>19. ASSUME NEW p \in Runners, Publishes(p) PROVE SchedulerTypeOK'
  <2>1. startup' \in BOOLEAN /\ stop' \in BOOLEAN /\ unpublished' \in BOOLEAN
    BY <1>19 DEF Publishes, SavedAfterPublication, ServeUnchanged
  <2>2. QED
    BY <1>19, <2>1 DEF Publishes, Exits, ServeUnchanged
<1>20. ASSUME NEW p \in Runners, Fails(p) PROVE SchedulerTypeOK'
  BY <1>20 DEF Fails, Exits, Excuse, ServeUnchanged
<1>21. ASSUME NEW p \in Runners, Dies(p) PROVE SchedulerTypeOK'
  BY <1>21 DEF Dies, Exits, Excuse, ServeUnchanged
<1>22. QED
  BY Steps, <1>1, <1>2, <1>3, <1>4, <1>5, <1>6, <1>7, <1>8, <1>9, <1>10, <1>11,
     <1>12, <1>13, <1>14, <1>15, <1>16, <1>17, <1>18, <1>19, <1>20, <1>21

\* A worker exists only while serve watches it, and ends with its group.
LEMMA ControlKept ==
    ASSUME SchedulerTypeOK, Control, SchedulerNext PROVE Control'
<1> USE DEF SchedulerTypeOK, Control, Holds, Archived
<1>1. CASE ServeStarts
  BY <1>1 DEF ServeStarts, runVars
<1>2. CASE Schedule
  BY <1>2 DEF Schedule, NextInstant, runVars
<1>3. CASE Wake
  BY <1>3 DEF Wake
<1>4. CASE Poll
  BY <1>4 DEF Poll
<1>5. CASE Terminate
  BY <1>5 DEF Terminate, Excuse
<1>6. CASE KillGroup
  BY <1>6 DEF KillGroup, KilledWithIt
<1>7. CASE Record
  BY <1>7 DEF Record, Successful, runVars
<1>8. CASE ServeEnds
  BY <1>8 DEF ServeEnds, EverythingEnds
<1>9. CASE ManualBegins
  BY <1>9 DEF ManualBegins, ServeUnchanged
<1>10. CASE Tick
  BY <1>10 DEF Tick, OnTime, Excuse, serveVars, runVars
<1>11. CASE Shutdown
  BY <1>11 DEF Shutdown, runVars
<1>12. CASE ContainerEnds
  BY <1>12 DEF ContainerEnds, EverythingEnds
<1>13. CASE EncoderEnds
  BY <1>13 DEF EncoderEnds, serveVars
<1>14. ASSUME NEW p \in Runners, Locks(p) PROVE Control'
  BY <1>14 DEF Locks, NobodyHolds, ServeUnchanged
<1>15. ASSUME NEW p \in Runners, FindsLockTaken(p) PROVE Control'
  BY <1>15 DEF FindsLockTaken, NobodyHolds, Exits, Excuse, ServeUnchanged
<1>16. ASSUME NEW p \in Runners, Collects(p) PROVE Control'
  BY <1>16 DEF Collects, ServeUnchanged
<1>17. ASSUME NEW p \in Runners, Resumes(p) PROVE Control'
  BY <1>17 DEF Resumes, ServeUnchanged
<1>18. ASSUME NEW p \in Runners, ArchivesOnly(p) PROVE Control'
  BY <1>18 DEF ArchivesOnly, Excuse, ServeUnchanged
<1>19. ASSUME NEW p \in Runners, Publishes(p) PROVE Control'
  BY <1>19 DEF Publishes, Exits, SavedAfterPublication, ServeUnchanged
<1>20. ASSUME NEW p \in Runners, Fails(p) PROVE Control'
  BY <1>20 DEF Fails, Exits, Excuse, ServeUnchanged
<1>21. ASSUME NEW p \in Runners, Dies(p) PROVE Control'
  BY <1>21 DEF Dies, Exits, Excuse, ServeUnchanged
<1>22. QED
  BY Steps, <1>1, <1>2, <1>3, <1>4, <1>5, <1>6, <1>7, <1>8, <1>9, <1>10,
     <1>11, <1>12, <1>13, <1>14, <1>15, <1>16, <1>17, <1>18, <1>19, <1>20, <1>21

\* What is reported has happened.
LEMMA InstantsKept ==
    ASSUME SchedulerTypeOK, Control, Instants, SchedulerNext PROVE Instants'
<1> USE DEF SchedulerTypeOK, Control, Instants
<1>1. CASE ServeStarts
  BY <1>1 DEF ServeStarts, runVars
<1>2. CASE Schedule
  BY <1>2 DEF Schedule, NextInstant, runVars
<1>3. CASE Wake
  BY <1>3 DEF Wake
<1>4. CASE Poll
  BY <1>4 DEF Poll
<1>5. CASE Terminate
  BY <1>5 DEF Terminate, Excuse
<1>6. CASE KillGroup
  BY <1>6 DEF KillGroup, KilledWithIt
<1>7. CASE Record
  BY <1>7 DEF Record, Successful, runVars
<1>8. CASE ServeEnds
  BY <1>8 DEF ServeEnds, EverythingEnds
<1>9. CASE ManualBegins
  BY <1>9 DEF ManualBegins, ServeUnchanged
<1>10. CASE Tick
  BY <1>10 DEF Tick, OnTime, Excuse, serveVars, runVars
<1>11. CASE Shutdown
  BY <1>11 DEF Shutdown, runVars
<1>12. CASE ContainerEnds
  BY <1>12 DEF ContainerEnds, EverythingEnds
<1>13. CASE EncoderEnds
  BY <1>13 DEF EncoderEnds, serveVars
<1>14. ASSUME NEW p \in Runners, Locks(p) PROVE Instants'
  BY <1>14 DEF Locks, NobodyHolds, ServeUnchanged
<1>15. ASSUME NEW p \in Runners, FindsLockTaken(p) PROVE Instants'
  BY <1>15 DEF FindsLockTaken, NobodyHolds, Exits, Excuse, ServeUnchanged
<1>16. ASSUME NEW p \in Runners, Collects(p) PROVE Instants'
  BY <1>16 DEF Collects, ServeUnchanged
<1>17. ASSUME NEW p \in Runners, Resumes(p) PROVE Instants'
  BY <1>17 DEF Resumes, ServeUnchanged
<1>18. ASSUME NEW p \in Runners, ArchivesOnly(p) PROVE Instants'
  BY <1>18 DEF ArchivesOnly, Excuse, ServeUnchanged
<1>19. ASSUME NEW p \in Runners, Publishes(p) PROVE Instants'
  BY <1>19 DEF Publishes, Exits, SavedAfterPublication, ServeUnchanged
<1>20. ASSUME NEW p \in Runners, Fails(p) PROVE Instants'
  BY <1>20 DEF Fails, Holds, Exits, Excuse, ServeUnchanged
<1>21. ASSUME NEW p \in Runners, Dies(p) PROVE Instants'
  BY <1>21 DEF Dies, Exits, Excuse, ServeUnchanged
<1>22. QED
  BY Steps, <1>1, <1>2, <1>3, <1>4, <1>5, <1>6, <1>7, <1>8, <1>9, <1>10,
     <1>11, <1>12, <1>13, <1>14, <1>15, <1>16, <1>17, <1>18, <1>19, <1>20, <1>21

\* Each step that leaves a due run without a collection is an interruption, or
\* publishes saved posts.
LEMMA DebtKept ==
    ASSUME IInv, SchedulerNext PROVE (Debt /\ SavedDebt)'
<1> USE DEF IInv, SchedulerTypeOK, Control, Debt, SavedDebt, Pending, Archived, Holds
<1>1. CASE ServeStarts
  BY <1>1 DEF ServeStarts, runVars
<1>2. CASE Schedule
  BY <1>2 DEF Schedule, NextInstant, runVars
<1>3. CASE Wake
  BY <1>3 DEF Wake
<1>4. CASE Poll
  BY <1>4 DEF Poll
<1>5. CASE Terminate
  BY <1>5 DEF Terminate, Excuse
<1>6. CASE KillGroup
  BY <1>6 DEF KillGroup, KilledWithIt
<1>7. CASE Record
  BY <1>7 DEF Record, Successful, runVars
<1>8. CASE ServeEnds
  BY <1>8 DEF ServeEnds, EverythingEnds
<1>9. CASE ManualBegins
  BY <1>9 DEF ManualBegins, ServeUnchanged
<1>10. CASE Tick
  BY <1>10 DEF Tick, OnTime, Excuse, serveVars, runVars
<1>11. CASE Shutdown
  BY <1>11 DEF Shutdown, runVars
<1>12. CASE ContainerEnds
  BY <1>12 DEF ContainerEnds, EverythingEnds
<1>13. CASE EncoderEnds
  BY <1>13 DEF EncoderEnds, serveVars
<1>14. ASSUME NEW p \in Runners, Locks(p) PROVE (Debt /\ SavedDebt)'
  BY <1>14 DEF Locks, NobodyHolds, ServeUnchanged
<1>15. ASSUME NEW p \in Runners, FindsLockTaken(p) PROVE (Debt /\ SavedDebt)'
  BY <1>15 DEF FindsLockTaken, NobodyHolds, Exits, Excuse, ServeUnchanged
<1>16. ASSUME NEW p \in Runners, Collects(p) PROVE (Debt /\ SavedDebt)'
  BY <1>16 DEF Collects, ServeUnchanged
<1>17. ASSUME NEW p \in Runners, Resumes(p) PROVE (Debt /\ SavedDebt)'
  BY <1>17 DEF Resumes, ServeUnchanged
<1>18. ASSUME NEW p \in Runners, ArchivesOnly(p) PROVE (Debt /\ SavedDebt)'
  BY <1>18 DEF ArchivesOnly, Excuse, ServeUnchanged
<1>19. ASSUME NEW p \in Runners, Publishes(p) PROVE (Debt /\ SavedDebt)'
  BY <1>19 DEF Publishes, Exits, SavedAfterPublication, ServeUnchanged
<1>20. ASSUME NEW p \in Runners, Fails(p) PROVE (Debt /\ SavedDebt)'
  BY <1>20 DEF Fails, Exits, Excuse, ServeUnchanged
<1>21. ASSUME NEW p \in Runners, Dies(p) PROVE (Debt /\ SavedDebt)'
  BY <1>21 DEF Dies, Exits, Excuse, ServeUnchanged
<1>22. QED
  BY Steps, <1>1, <1>2, <1>3, <1>4, <1>5, <1>6, <1>7, <1>8, <1>9, <1>10,
     <1>11, <1>12, <1>13, <1>14, <1>15, <1>16, <1>17, <1>18, <1>19, <1>20, <1>21

LEMMA StepKeeps == IInv /\ [SchedulerNext]_schedulerVars => IInv'
<1> SUFFICES ASSUME IInv, [SchedulerNext]_schedulerVars PROVE IInv'
  OBVIOUS
<1>1. CASE SchedulerNext
  BY <1>1, TypeKept, ControlKept, InstantsKept, DebtKept DEF IInv
<1>2. CASE UNCHANGED schedulerVars
  BY <1>2 DEF IInv, SchedulerTypeOK, Control, Instants, Debt, SavedDebt, Pending,
     Archived, Holds, schedulerVars, serveVars, runVars
<1>3. QED
  BY <1>1, <1>2

\* The inductive invariant of the service.
THEOREM Invariance == SchedulerSpec => []IInv
<1>1. QED
  BY InitHolds, StepKeeps, PTL DEF SchedulerSpec

\* Phases, processes, instants and the status keep their types.
THEOREM TypeCorrect == SchedulerSpec => []SchedulerTypeOK
<1>1. IInv => SchedulerTypeOK
  BY DEF IInv
<1>2. QED
  BY <1>1, Invariance, PTL

\* Between two collections lies at most one instant, and one for each
\* interruption, in any order of kills, deadlines, stops, restarts and manual runs.
THEOREM InterruptionsCostOneInstant == SchedulerSpec => []EachInterruptionCostsOneInstant
<1>1. IInv => EachInterruptionCostsOneInstant
  BY DEF IInv, Debt, SchedulerTypeOK, EachInterruptionCostsOneInstant
<1>2. QED
  BY <1>1, Invariance, PTL

\* No process of a worker's group outlives run_worker, except when the worker
\* died alone.
THEOREM GroupsEnd == SchedulerSpec => []GroupEndsWithWorker
<1>1. IInv => GroupEndsWithWorker
  BY DEF IInv, Control, GroupEndsWithWorker
<1>2. QED
  BY <1>1, Invariance, PTL

\* status.json never calls a living worker finished, never reports a success
\* without a publication, and never forgets one.
THEOREM StatusTrue == SchedulerSpec => StatusIsHonest
<1> DEFINE Truthful == ~file.running /\ phase # "down" => run["worker"] = "none"
           Reported == file'.success # file.success =>
                           public >= begun /\ file'.success > file.success
<1>1. IInv => Truthful
  BY DEF IInv, SchedulerTypeOK, Control
<1>2. IInv /\ [SchedulerNext]_schedulerVars => [Reported]_schedulerVars
  <2> SUFFICES ASSUME IInv, SchedulerNext PROVE Reported
    OBVIOUS
  <2> USE DEF IInv, SchedulerTypeOK, Instants
  <2>1. CASE Schedule
    BY <2>1 DEF Schedule
  <2>2. CASE Wake
    BY <2>2 DEF Wake
  <2>3. CASE Record
    BY <2>3 DEF Record, Successful
  <2>4. CASE file' = file
    BY <2>4
  <2>5. ServeStarts \/ Poll \/ Terminate \/ KillGroup \/ ServeEnds \/ ManualBegins
            \/ Tick \/ Shutdown \/ ContainerEnds \/ EncoderEnds => file' = file
    BY DEF ServeStarts, Poll, Terminate, KillGroup, ServeEnds, ManualBegins, Tick,
       Shutdown, ContainerEnds, EncoderEnds, ServeUnchanged, serveVars
  <2>6. ASSUME NEW p \in Runners PROVE RunStep(p) => file' = file
    BY DEF RunStep, Locks, FindsLockTaken, Collects, Resumes, ArchivesOnly, Publishes,
       Fails, Dies, ServeUnchanged
  <2>7. QED
    BY <2>1, <2>2, <2>3, <2>4, <2>5, <2>6 DEF SchedulerNext, ServeStep
<1>3. QED
  BY <1>1, <1>2, Invariance, PTL DEF SchedulerSpec, StatusIsHonest
=============================================================================
