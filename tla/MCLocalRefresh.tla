--------------------------- MODULE MCLocalRefresh ---------------------------
(* TLC instance of LocalRefresh: the sets of steps at which a kill may strike
   and those at which a storage call may raise. *)
EXTENDS LocalRefresh

EveryStep == Steps
NoStep == {}

\* All steps at which a kill loses no saved work.  The others: a temporary media
\* file is out (two steps), the saved work snapshot has only its random name
\* (three steps), the published candidate is partly removed.
ToleratedSteps ==
    Steps \ {"staged", "linked", "moved", "swap", "restore", "rmcandidate"}

\* The same for errors.  The others: the temporary media file cannot be
\* unlinked, the checks outside of the try block raise, the removal of the
\* backup raises, the backup cannot be put back, the published candidate is
\* partly removed.
ToleratedErrors ==
    Steps \ {"linked", "moved", "discard", "restore", "rmcandidate"}

OnlyStaged == {"staged", "linked"}
OnlyArchive == {"archive"}
=============================================================================
