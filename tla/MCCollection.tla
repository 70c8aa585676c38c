---------------------------- MODULE MCCollection ----------------------------
(* TLC instance of Collection, two posts of one account and one of another,   *)
(* and of Scheduler.  The two share no variable, so a behaviour is one of     *)
(* either, as "part" says.                                                    *)
EXTENDS Collection, Scheduler

TheAccounts == {"ann", "bob"}
ThePosts == 1 .. 3
TheAccountOf == <<"ann", "ann", "bob">>
ThePublishedOn == <<0, 1, 1>>
\* A window in the past, and one that ends in the future.
TheOverrides == {<<0, 1>>, <<2, 9>>}

VARIABLE part

MCInit ==
    /\ part \in {"collection", "scheduler"}
    /\ Init
    /\ SchedulerInit
    /\ part = "collection" => settings = [startup |-> TRUE, deadline |-> TRUE]

CollectionStep ==
    /\ part = "collection"
    /\ Next
    /\ UNCHANGED <<part, schedulerVars>>

SchedulerStep ==
    /\ part = "scheduler"
    /\ SchedulerNext
    /\ UNCHANGED <<part, vars>>

\* serve runs in a process of its own that the system schedules; its steps wait
\* for nothing but what is in their guards.
MCSpec ==
    /\ MCInit
    /\ [][CollectionStep \/ SchedulerStep]_<<part, vars, schedulerVars>>
    /\ WF_schedulerVars(part = "scheduler" /\ ServeStep /\ UNCHANGED <<part, vars>>)
=============================================================================
