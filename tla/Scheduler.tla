------------------------------ MODULE Scheduler ------------------------------
(***************************************************************************)
(* The service of the container (service/scheduler.py): it waits for the   *)
(* instants of the cron schedule, starts refresh-local in a process group  *)
(* of its own, watches it until it exits, is stopped or reaches its        *)
(* deadline, and keeps status.json.  An operator may start refresh-local   *)
(* by hand beside it, under the same lock.                                 *)
(*                                                                         *)
(* Time is the number of cron instants that have passed.  Of a run this    *)
(* module keeps the lock, the posts it saves before it archives their      *)
(* media, and their publication; LocalRefresh has the steps between.       *)
(***************************************************************************)
EXTENDS Integers

CONSTANTS
    LastInstant,    \* bound on time
    MaxExcused      \* bound on the interruptions in a row

ASSUME SchedulerAssumption == LastInstant \in Nat /\ MaxExcused \in Nat

VARIABLES
    settings,   \* refresh_on_startup, and whether there is a worker timeout
    clock,      \* cron instants that have passed
    phase,      \* where serve is; "down": the container does not run
    startup,    \* local of serve: the next run does not wait for its instant
    due,        \* the instant serve sleeps for
    stop,       \* the event that SIGTERM and SIGINT set
    success,    \* last_success of serve, in memory
    code,       \* how the scheduled worker exited, or was made to
    file,       \* status.json
    run,        \* the scheduled worker and the manual run
    strays,     \* ffmpeg processes whose worker is gone
    unpublished,    \* /state/work/snapshot is there, and not public yet
    begun,      \* history: when the scheduled worker was started
    public,     \* history: when something was last published
    collected,  \* history: when posts were last collected and saved
    excused     \* history: interruptions since then

serveVars == <<phase, startup, due, stop, success, code, file>>
runVars == <<run, strays, unpublished, public, collected>>
schedulerVars == <<settings, clock, serveVars, runVars, begun, excused>>

Runners == {"worker", "manual"}
NotYet == -1

Holds(p) == run[p] \in {"locked", "archiving"}
NobodyHolds == \A p \in Runners : ~Holds(p)

\* "group" is an ffmpeg in the process group of the worker being terminated,
\* "lost" one whose worker died without its group.
SchedulerTypeOK ==
    /\ settings \in [startup : BOOLEAN, deadline : BOOLEAN]
    /\ clock \in Nat
    /\ phase \in {"down", "schedule", "sleep", "watch", "grace", "record"}
    /\ startup \in BOOLEAN /\ stop \in BOOLEAN /\ unpublished \in BOOLEAN
    /\ due \in Nat
    /\ success \in Int /\ begun \in Int /\ public \in Int /\ collected \in Int
    /\ code \in {"none", "published", "failed", "skipped", "died", "stopped", "timeout"}
    /\ file \in [running : BOOLEAN, success : Int]
    /\ run \in [Runners -> {"none", "started", "locked", "archiving", "exited"}]
    /\ strays \in SUBSET {"group", "lost"}
    /\ excused \in Nat

-----------------------------------------------------------------------------
SchedulerInit ==
    /\ settings \in [startup : BOOLEAN, deadline : BOOLEAN]
    /\ clock = 0
    /\ phase = "down"
    /\ startup = FALSE
    /\ due = 0
    /\ stop = FALSE
    /\ success = NotYet
    /\ code = "none"
    /\ file = [running |-> FALSE, success |-> NotYet]
    /\ run = [p \in Runners |-> "none"]
    /\ strays = {}
    /\ unpublished = FALSE
    /\ begun = NotYet
    /\ public = NotYet
    /\ collected = 0
    /\ excused = 0

Excuse == excused' = excused + 1

(***************************************************************************)
(* serve                                                                   *)
(***************************************************************************)

\* What it does before the loop; an unreadable status.json is as good as none,
\* which is how the first start finds it.
ServeStarts ==
    /\ phase = "down"
    /\ phase' = "schedule"
    /\ startup' = settings.startup
    /\ success' = file.success
    /\ UNCHANGED <<settings, clock, due, stop, code, file, runVars, begun, excused>>

\* The end of PID 1 ends every process of the container.  A manual run that is
\* killed with the service is an interruption of its own.
EverythingEnds ==
    /\ phase' = "down"
    /\ run' = [p \in Runners |-> "none"]
    /\ strays' = {}
    /\ startup' = FALSE /\ stop' = FALSE
    /\ due' = 0 /\ success' = NotYet /\ code' = "none"
    /\ excused' = excused + (IF Holds("manual") THEN 2 ELSE 1)

\* get_next_fire_time(None, now): instants that have passed are not made up for.
NextInstant == clock + 1

\* The head of the loop.
Schedule ==
    /\ phase = "schedule"
    /\ ~stop
    /\ due' = IF startup THEN clock ELSE NextInstant
    /\ file' = [running |-> FALSE, success |-> success]
    /\ phase' = "sleep"
    /\ UNCHANGED <<settings, clock, startup, stop, success, code, runVars, begun, excused>>

\* stop.wait returns without a stop: status.json says so, and Popen starts the
\* worker in a session of its own.
Wake ==
    /\ phase = "sleep"
    /\ due <= clock
    /\ ~stop
    /\ startup' = FALSE
    /\ file' = [file EXCEPT !.running = TRUE]
    /\ run' = [run EXCEPT !["worker"] = "started"]
    /\ begun' = clock
    /\ phase' = "watch"
    /\ UNCHANGED <<settings, clock, due, stop, success, code,
                   strays, unpublished, public, collected, excused>>

\* poll() finds that the worker has exited.
Poll ==
    /\ phase = "watch"
    /\ run["worker"] = "exited"
    /\ run' = [run EXCEPT !["worker"] = "none"]
    /\ phase' = "record"
    /\ UNCHANGED <<settings, clock, startup, due, stop, success, code, file,
                   strays, unpublished, public, collected, begun, excused>>

\* Mutant: a stop is not looked at while a worker runs.
MustTerminateAtDeadline == settings.deadline
MustTerminate == stop \/ settings.deadline

\* SIGTERM to the group.  The worker has no handler for it; its ffmpeg may take
\* its time.  The worker may have exited since it was last polled, and its exit
\* code is then not looked at.
Terminate ==
    /\ phase = "watch"
    /\ MustTerminate
    /\ run' = [run EXCEPT !["worker"] = "none"]
    /\ strays' \in {strays, strays \cup {p \in {"group"} : run["worker"] = "archiving"}}
    /\ phase' = "grace"
    /\ Excuse
    /\ UNCHANGED <<settings, clock, startup, due, stop, success, code, file,
                   unpublished, public, collected, begun>>

\* Mutant: only the worker itself is killed.
KilledWithItAlone == {}
KilledWithIt == {"group"}

\* SIGKILL to the group, at the latest after 30 seconds.
KillGroup ==
    /\ phase = "grace"
    /\ strays' = strays \ KilledWithIt
    /\ code' = IF stop THEN "stopped" ELSE "timeout"
    /\ phase' = "record"
    /\ UNCHANGED <<settings, clock, startup, due, stop, success, file,
                   run, unpublished, public, collected, begun, excused>>

\* Mutant: a run that found the lock taken counts as a success.
SuccessfulOrSkipped == {"published", "skipped"}
\* Exit codes 0 and 4.
Successful == {"published"}

Record ==
    /\ phase = "record"
    /\ success' = IF code \in Successful THEN clock ELSE success
    /\ file' = [running |-> FALSE, success |-> success']
    /\ code' = "none"
    /\ due' = 0
    /\ phase' = "schedule"
    /\ UNCHANGED <<settings, clock, startup, stop, runVars, begun, excused>>

\* The loop ends, at its head or in its wait, and with serve the container.
ServeEnds ==
    /\ phase \in {"schedule", "sleep"}
    /\ stop
    /\ EverythingEnds
    /\ UNCHANGED <<settings, clock, file, unpublished, public, collected, begun>>

-----------------------------------------------------------------------------
(***************************************************************************)
(* refresh-local: the scheduled worker and a manual run                    *)
(***************************************************************************)

\* The process ends.  The worker stays for poll() to find, and each way but a
\* publication excuses the service for this instant.
Exits(p, how) ==
    IF p = "worker"
    THEN /\ run' = [run EXCEPT ![p] = "exited"]
         /\ code' = how
    ELSE /\ run' = [run EXCEPT ![p] = "none"]
         /\ UNCHANGED code

ServeUnchanged == UNCHANGED <<settings, clock, phase, startup, due, stop, success, file, begun>>

\* docker compose exec subscriber ... refresh-local
ManualBegins ==
    /\ phase # "down"
    /\ run["manual"] = "none"
    /\ run' = [run EXCEPT !["manual"] = "started"]
    /\ UNCHANGED <<code, strays, unpublished, public, collected, excused>>
    /\ ServeUnchanged

\* flock without waiting.
Locks(p) ==
    /\ run[p] = "started"
    /\ NobodyHolds
    /\ run' = [run EXCEPT ![p] = "locked"]
    /\ UNCHANGED <<code, strays, unpublished, public, collected, excused>>
    /\ ServeUnchanged

\* Exit code 75.
FindsLockTaken(p) ==
    /\ run[p] = "started"
    /\ ~NobodyHolds
    /\ Exits(p, "skipped")
    /\ IF p = "worker" THEN Excuse ELSE UNCHANGED excused
    /\ UNCHANGED <<strays, unpublished, public, collected>>
    /\ ServeUnchanged

\* Posts are collected and saved before any media work.
Collects(p) ==
    /\ run[p] = "locked"
    /\ ~unpublished
    /\ run' = [run EXCEPT ![p] = "archiving"]
    /\ unpublished' = TRUE
    /\ collected' = clock
    /\ excused' = 0
    /\ UNCHANGED <<code, strays, public>>
    /\ ServeUnchanged

\* Saved posts are taken up instead; nothing is collected.
Resumes(p) ==
    /\ run[p] = "locked"
    /\ unpublished
    /\ run' = [run EXCEPT ![p] = "archiving"]
    /\ UNCHANGED <<code, strays, unpublished, public, collected, excused>>
    /\ ServeUnchanged

\* Every provider is exhausted, but media of published posts is pending: the
\* run archives that, collects nothing, and ends like any other (exit code 4).
ArchivesOnly(p) ==
    /\ excused < MaxExcused
    /\ run[p] = "locked"
    /\ ~unpublished
    /\ run' = [run EXCEPT ![p] = "archiving"]
    /\ unpublished' = TRUE
    /\ Excuse
    /\ UNCHANGED <<code, strays, public, collected>>
    /\ ServeUnchanged

\* Mutant: the saved posts are kept when they have been published.
SavedAfterPublicationKept == unpublished
\* work is removed when the candidate has been published.
SavedAfterPublication == FALSE

Publishes(p) ==
    /\ run[p] = "archiving"
    /\ unpublished' = SavedAfterPublication
    /\ public' = clock
    /\ Exits(p, "published")
    /\ UNCHANGED <<strays, collected, excused>>
    /\ ServeUnchanged

\* Exit codes 2, 3 and 5: the input, every provider, or the storage.
Fails(p) ==
    /\ excused < MaxExcused
    /\ Holds(p)
    /\ Exits(p, "failed")
    /\ Excuse
    /\ UNCHANGED <<strays, unpublished, public, collected>>
    /\ ServeUnchanged

\* Killed alone, for want of memory: its ffmpeg lives on, in a group nobody
\* remembers, and does not hold the lock.
Dies(p) ==
    /\ excused < MaxExcused
    /\ run[p] \in {"started", "locked", "archiving"}
    /\ Exits(p, "died")
    /\ strays' \in {strays, strays \cup {f \in {"lost"} : run[p] = "archiving"}}
    /\ Excuse
    /\ UNCHANGED <<unpublished, public, collected>>
    /\ ServeUnchanged

RunStep(p) ==
    \/ Locks(p)
    \/ FindsLockTaken(p)
    \/ Collects(p)
    \/ Resumes(p)
    \/ ArchivesOnly(p)
    \/ Publishes(p)
    \/ Fails(p)
    \/ Dies(p)

-----------------------------------------------------------------------------
(***************************************************************************)
(* The surroundings                                                        *)
(***************************************************************************)

\* The service sleeps and no instant is overdue: the next one is no interruption.
OnTime == phase = "sleep" /\ clock < due

Tick ==
    /\ clock < LastInstant
    /\ clock' = clock + 1
    /\ IF OnTime THEN UNCHANGED excused ELSE excused < MaxExcused /\ Excuse
    /\ UNCHANGED <<settings, serveVars, runVars, begun>>

\* docker stop.
Shutdown ==
    /\ phase # "down"
    /\ ~stop
    /\ excused < MaxExcused
    /\ stop' = TRUE
    /\ UNCHANGED <<settings, clock, phase, startup, due, success, code, file,
                   runVars, begun, excused>>

\* The container is killed, or a write of status.json raises and serve ends
\* with exit code 2.
ContainerEnds ==
    /\ phase # "down"
    /\ excused < MaxExcused
    /\ EverythingEnds
    /\ UNCHANGED <<settings, clock, file, unpublished, public, collected, begun>>

EncoderEnds ==
    /\ \E f \in strays : strays' = strays \ {f}
    /\ UNCHANGED <<settings, clock, serveVars, run, unpublished, public, collected, begun, excused>>

ServeStep ==
    \/ Schedule
    \/ Wake
    \/ Poll
    \/ Terminate
    \/ KillGroup
    \/ Record
    \/ ServeEnds

SchedulerNext ==
    \/ ServeStarts
    \/ ServeStep
    \/ ManualBegins
    \/ \E p \in Runners : RunStep(p)
    \/ Tick
    \/ Shutdown
    \/ ContainerEnds
    \/ EncoderEnds

SchedulerSpec == SchedulerInit /\ [][SchedulerNext]_schedulerVars

-----------------------------------------------------------------------------
(***************************************************************************)
(* Properties                                                              *)
(***************************************************************************)

\* Each interruption costs one instant and no more: between two collections lie
\* at most one instant and one for every run that failed, was killed, found the
\* lock taken or every provider exhausted, every instant that passed while the
\* service was busy or down, and every end of the service.  With it MaxGap of
\* Collection is a bound on the interruptions in a row that the overlap of three
\* days makes up for.
\* scheduler.py:96 "never replaying accumulated missed schedule events"; a
\* resumed run publishes and collects nothing, yet costs no instant of its own.
EachInterruptionCostsOneInstant == clock - collected <= 1 + excused

\* What status.json says: no scheduled worker is alive when it says "not
\* running", a success is written only when something was published since the
\* worker was started, and no success is forgotten by a restart.
\* media-and-docker.md:122 "Status records running, next_run_at, ..."
StatusIsHonest ==
    /\ [](~file.running /\ phase # "down" => run["worker"] = "none")
    /\ [][file'.success # file.success =>
             public >= begun /\ file'.success > file.success]_schedulerVars

\* When run_worker has returned, nothing of the worker's process group is left
\* that could write into /state/work beside the next run, whatever made it
\* return but the death of the worker alone.
\* media-and-docker.md:161 "Shutdown still terminates the worker and FFmpeg
\* process group".
GroupEndsWithWorker == phase # "grace" => "group" \notin strays

\* A stop ends the service and a deadline ends the run, also when the worker
\* hangs.  Without a deadline, the default, only a stop does.
RunsEnd ==
    /\ stop ~> phase = "down"
    /\ phase = "watch" /\ settings.deadline ~> phase \in {"sleep", "down"}
=============================================================================
