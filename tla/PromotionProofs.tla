-------------------------- MODULE PromotionProofs --------------------------
(***************************************************************************)
(* Theorems of Promotion for trees with any files.  What may raise is a    *)
(* hypothesis: a call that returns is right whatever may raise; the root   *)
(* is whole when the removal of the backup does not raise; and the prior   *)
(* root is kept when, besides, the checks after the first rename and the   *)
(* handlers themselves do not.                                             *)
(***************************************************************************)
EXTENDS Promotion, TLAPS

USE DEF NoTree, Tree, Candidate, At, Raise

-----------------------------------------------------------------------------
\* Only a tree that exists gains or loses files.
Typed == TypeOK /\ (pc = "build" => temp # NoTree)

LEMMA TypedStep == Typed /\ [Next]_vars => Typed'
<1> SUFFICES ASSUME Typed, [Next]_vars
             PROVE  Typed'
  OBVIOUS
<1> USE DEF Typed, TypeOK, Trees, Steps
<1>1. CASE Begin
  BY <1>1 DEF Begin
<1>2. CASE BeginRaises
  BY <1>2 DEF BeginRaises
<1>3. CASE Make
  BY <1>3 DEF Make
<1>4. CASE MakeRaises
  BY <1>4 DEF MakeRaises
<1>5. CASE BuildFile
  BY <1>5 DEF BuildFile
<1>6. CASE Built
  BY <1>6 DEF Built
<1>7. CASE BuildRaises
  BY <1>7 DEF BuildRaises
<1>8. CASE Promote
  BY <1>8 DEF Promote
<1>9. CASE PromoteRaises
  BY <1>9 DEF PromoteRaises
<1>10. CASE PromoteFresh
  BY <1>10 DEF PromoteFresh
<1>11. CASE FreshRaises
  BY <1>11 DEF FreshRaises
<1>12. CASE CheckFresh
  BY <1>12 DEF CheckFresh
<1>13. CASE CheckFreshRaises
  BY <1>13 DEF CheckFreshRaises
<1>14. CASE MoveAway
  BY <1>14 DEF MoveAway
<1>15. CASE AwayRaises
  BY <1>15 DEF AwayRaises
<1>16. CASE Moved
  BY <1>16 DEF Moved
<1>17. CASE MovedRaises
  BY <1>17 DEF MovedRaises
<1>18. CASE Swap
  BY <1>18 DEF Swap
<1>19. CASE SwapRaises
  BY <1>19 DEF SwapRaises
<1>20. CASE Check
  BY <1>20 DEF Check
<1>21. CASE CheckRaises
  BY <1>21 DEF CheckRaises
<1>22. CASE DiscardFile
  BY <1>22 DEF DiscardFile
<1>23. CASE Discard
  BY <1>23 DEF Discard
<1>24. CASE DiscardRaises
  BY <1>24 DEF DiscardRaises
<1>25. CASE Rollback
  BY <1>25 DEF Rollback
<1>26. CASE RollbackRaises
  BY <1>26 DEF RollbackRaises
<1>27. CASE Restore
  BY <1>27 DEF Restore
<1>28. CASE RestoreRaises
  BY <1>28 DEF RestoreRaises
<1>29. CASE CleanFile
  BY <1>29 DEF CleanFile
<1>30. CASE Clean
  BY <1>30 DEF Clean
<1>31. CASE CleanRaises
  BY <1>31 DEF CleanRaises
<1>32. CASE UNCHANGED vars
  BY <1>32 DEF vars
<1> QED
  BY <1>1, <1>2, <1>3, <1>4, <1>5, <1>6, <1>7, <1>8, <1>9, <1>10, <1>11,
     <1>12, <1>13, <1>14, <1>15, <1>16, <1>17, <1>18, <1>19, <1>20, <1>21,
     <1>22, <1>23, <1>24, <1>25, <1>26, <1>27, <1>28, <1>29, <1>30, <1>31,
     <1>32 DEF Next

\* Every variable keeps its type, whatever may raise.
THEOREM TypeCorrect == Spec => []TypeOK
<1>1. Init => Typed
  <2> SUFFICES ASSUME Init
               PROVE  Typed
    OBVIOUS
  <2>1. root \in Trees \cup {NoTree}
    <3>1. CASE root = NoTree
      BY <3>1
    <3>2. ASSUME NEW files \in SUBSET Files, root = Tree("prior", files)
          PROVE  root \in Trees
      BY <3>2 DEF Trees
    <3> QED
      BY <3>1, <3>2 DEF Init
  <2>2. pc = "begin" /\ raised \in BOOLEAN /\ pc \in Steps
    BY DEF Init, Steps
  <2> QED
    BY <2>1, <2>2 DEF Init, Typed, TypeOK
<1>2. Typed => TypeOK
  BY DEF Typed
<1> QED
  BY <1>1, <1>2, TypedStep, PTL DEF Spec

-----------------------------------------------------------------------------
\* How far the call is, whatever may raise.
Progress ==
    /\ pc \in {"begin", "make", "build", "promote", "fresh", "away", "checkFresh"}
          => backup = NoTree
    /\ pc \in {"begin", "make"} => temp = NoTree
    /\ pc \in {"promote", "fresh", "away", "moved", "swap"} => temp = Candidate
    /\ pc \in {"checkFresh", "check", "discard"} => root = Candidate /\ temp = NoTree
    /\ pc \in {"rollback", "restore"} => raised
    /\ pc \in {"clean", "done"} /\ ~raised =>
          root = Candidate /\ temp = NoTree /\ backup = NoTree

LEMMA ProgressInit == Init => Progress
  BY DEF Init, Progress

LEMMA ProgressStep == Progress /\ [Next]_vars => Progress'
<1> SUFFICES ASSUME Progress, [Next]_vars
             PROVE  Progress'
  OBVIOUS
<1> USE DEF Progress
<1>1. CASE Begin
  BY <1>1 DEF Begin
<1>2. CASE BeginRaises
  BY <1>2 DEF BeginRaises
<1>3. CASE Make
  BY <1>3 DEF Make
<1>4. CASE MakeRaises
  BY <1>4 DEF MakeRaises
<1>5. CASE BuildFile
  BY <1>5 DEF BuildFile
<1>6. CASE Built
  BY <1>6 DEF Built
<1>7. CASE BuildRaises
  BY <1>7 DEF BuildRaises
<1>8. CASE Promote
  BY <1>8 DEF Promote
<1>9. CASE PromoteRaises
  BY <1>9 DEF PromoteRaises
<1>10. CASE PromoteFresh
  BY <1>10 DEF PromoteFresh
<1>11. CASE FreshRaises
  BY <1>11 DEF FreshRaises
<1>12. CASE CheckFresh
  BY <1>12 DEF CheckFresh
<1>13. CASE CheckFreshRaises
  BY <1>13 DEF CheckFreshRaises
<1>14. CASE MoveAway
  BY <1>14 DEF MoveAway
<1>15. CASE AwayRaises
  BY <1>15 DEF AwayRaises
<1>16. CASE Moved
  BY <1>16 DEF Moved
<1>17. CASE MovedRaises
  BY <1>17 DEF MovedRaises
<1>18. CASE Swap
  BY <1>18 DEF Swap
<1>19. CASE SwapRaises
  BY <1>19 DEF SwapRaises
<1>20. CASE Check
  BY <1>20 DEF Check
<1>21. CASE CheckRaises
  BY <1>21 DEF CheckRaises
<1>22. CASE DiscardFile
  BY <1>22 DEF DiscardFile
<1>23. CASE Discard
  BY <1>23 DEF Discard
<1>24. CASE DiscardRaises
  BY <1>24 DEF DiscardRaises
<1>25. CASE Rollback
  BY <1>25 DEF Rollback
<1>26. CASE RollbackRaises
  BY <1>26 DEF RollbackRaises
<1>27. CASE Restore
  BY <1>27 DEF Restore
<1>28. CASE RestoreRaises
  BY <1>28 DEF RestoreRaises
<1>29. CASE CleanFile
  BY <1>29 DEF CleanFile
<1>30. CASE Clean
  BY <1>30 DEF Clean
<1>31. CASE CleanRaises
  BY <1>31 DEF CleanRaises
<1>32. CASE UNCHANGED vars
  BY <1>32 DEF vars
<1> QED
  BY <1>1, <1>2, <1>3, <1>4, <1>5, <1>6, <1>7, <1>8, <1>9, <1>10, <1>11,
     <1>12, <1>13, <1>14, <1>15, <1>16, <1>17, <1>18, <1>19, <1>20, <1>21,
     <1>22, <1>23, <1>24, <1>25, <1>26, <1>27, <1>28, <1>29, <1>30, <1>31,
     <1>32 DEF Next

\* When a call returns, the candidate is the root and nothing is left beside it,
\* whatever may raise on the way.
THEOREM ReturnIsPromoted == Spec => []ReturnMeansPromoted
<1>1. Init => Progress
  BY ProgressInit
<1>2. Progress /\ [Next]_vars => Progress'
  BY ProgressStep
<1>3. Progress => ReturnMeansPromoted
  BY DEF Progress, ReturnMeansPromoted
<1> QED
  BY <1>1, <1>2, <1>3, PTL DEF Spec

-----------------------------------------------------------------------------
\* Where the prior root is when the removal of its backup never raises.
Whole ==
    /\ RootIsWhole
    /\ pc \in {"begin", "make", "build", "promote", "fresh", "away"} => root = before
    /\ pc \in {"moved", "swap", "check", "rollback", "restore"} => backup = before

LEMMA WholeInit == Init => Whole
  BY DEF Init, Whole, RootIsWhole

LEMMA WholeStep ==
    ASSUME "discard" \notin Failing, Progress, Whole, [Next]_vars
    PROVE  Whole'
<1> USE DEF Progress, Whole, RootIsWhole
<1>1. CASE Begin
  BY <1>1 DEF Begin
<1>2. CASE BeginRaises
  BY <1>2 DEF BeginRaises
<1>3. CASE Make
  BY <1>3 DEF Make
<1>4. CASE MakeRaises
  BY <1>4 DEF MakeRaises
<1>5. CASE BuildFile
  BY <1>5 DEF BuildFile
<1>6. CASE Built
  BY <1>6 DEF Built
<1>7. CASE BuildRaises
  BY <1>7 DEF BuildRaises
<1>8. CASE Promote
  BY <1>8 DEF Promote
<1>9. CASE PromoteRaises
  BY <1>9 DEF PromoteRaises
<1>10. CASE PromoteFresh
  BY <1>10 DEF PromoteFresh
<1>11. CASE FreshRaises
  BY <1>11 DEF FreshRaises
<1>12. CASE CheckFresh
  BY <1>12 DEF CheckFresh
<1>13. CASE CheckFreshRaises
  BY <1>13 DEF CheckFreshRaises
<1>14. CASE MoveAway
  BY <1>14 DEF MoveAway
<1>15. CASE AwayRaises
  BY <1>15 DEF AwayRaises
<1>16. CASE Moved
  BY <1>16 DEF Moved
<1>17. CASE MovedRaises
  BY <1>17 DEF MovedRaises
<1>18. CASE Swap
  BY <1>18 DEF Swap
<1>19. CASE SwapRaises
  BY <1>19 DEF SwapRaises
<1>20. CASE Check
  BY <1>20 DEF Check
<1>21. CASE CheckRaises
  BY <1>21 DEF CheckRaises
<1>22. CASE DiscardFile
  BY <1>22 DEF DiscardFile
<1>23. CASE Discard
  BY <1>23 DEF Discard
<1>24. CASE DiscardRaises
  BY <1>24 DEF DiscardRaises
<1>25. CASE Rollback
  BY <1>25 DEF Rollback
<1>26. CASE RollbackRaises
  BY <1>26 DEF RollbackRaises
<1>27. CASE Restore
  BY <1>27 DEF Restore
<1>28. CASE RestoreRaises
  BY <1>28 DEF RestoreRaises
<1>29. CASE CleanFile
  BY <1>29 DEF CleanFile
<1>30. CASE Clean
  BY <1>30 DEF Clean
<1>31. CASE CleanRaises
  BY <1>31 DEF CleanRaises
<1>32. CASE UNCHANGED vars
  BY <1>32 DEF vars
<1> QED
  BY <1>1, <1>2, <1>3, <1>4, <1>5, <1>6, <1>7, <1>8, <1>9, <1>10, <1>11,
     <1>12, <1>13, <1>14, <1>15, <1>16, <1>17, <1>18, <1>19, <1>20, <1>21,
     <1>22, <1>23, <1>24, <1>25, <1>26, <1>27, <1>28, <1>29, <1>30, <1>31,
     <1>32 DEF Next

\* A reader of the root never meets a partial tree, unless the removal of the
\* backup raises: no other call of write, its handlers included, can do that.
THEOREM RootStaysWhole ==
    ASSUME "discard" \notin Failing
    PROVE  Spec => []RootIsWhole
<1>1. Init => Progress /\ Whole
  BY ProgressInit, WholeInit
<1>2. Progress /\ Whole /\ [Next]_vars => (Progress /\ Whole)'
  BY ProgressStep, WholeStep
<1>3. Progress /\ Whole => RootIsWhole
  BY DEF Whole
<1> QED
  BY <1>1, <1>2, <1>3, PTL DEF Spec

-----------------------------------------------------------------------------
\* A call that raised has the prior root back by the time it cleans up.
Kept ==
    /\ pc \notin {"rollback", "restore", "clean", "done"} => ~raised
    /\ pc = "fresh" => before = NoTree
    /\ pc = "checkFresh" => before = NoTree
    /\ pc = "clean" /\ raised => root = before
    /\ PriorKept

Unprotected == {"moved", "discard", "rollback", "restore", "clean"}

LEMMA KeptInit == Init => Kept
  BY DEF Init, Kept, PriorKept

LEMMA KeptStep ==
    ASSUME Failing \cap Unprotected = {}, Progress, Whole, Kept, [Next]_vars
    PROVE  Kept'
<1> USE DEF Unprotected, Progress, Whole, Kept, PriorKept
<1>1. CASE Begin
  BY <1>1 DEF Begin
<1>2. CASE BeginRaises
  BY <1>2 DEF BeginRaises
<1>3. CASE Make
  BY <1>3 DEF Make
<1>4. CASE MakeRaises
  BY <1>4 DEF MakeRaises
<1>5. CASE BuildFile
  BY <1>5 DEF BuildFile
<1>6. CASE Built
  BY <1>6 DEF Built
<1>7. CASE BuildRaises
  BY <1>7 DEF BuildRaises
<1>8. CASE Promote
  BY <1>8 DEF Promote
<1>9. CASE PromoteRaises
  BY <1>9 DEF PromoteRaises
<1>10. CASE PromoteFresh
  BY <1>10 DEF PromoteFresh
<1>11. CASE FreshRaises
  BY <1>11 DEF FreshRaises
<1>12. CASE CheckFresh
  BY <1>12 DEF CheckFresh
<1>13. CASE CheckFreshRaises
  BY <1>13 DEF CheckFreshRaises
<1>14. CASE MoveAway
  BY <1>14 DEF MoveAway
<1>15. CASE AwayRaises
  BY <1>15 DEF AwayRaises
<1>16. CASE Moved
  BY <1>16 DEF Moved
<1>17. CASE MovedRaises
  BY <1>17 DEF MovedRaises
<1>18. CASE Swap
  BY <1>18 DEF Swap
<1>19. CASE SwapRaises
  BY <1>19 DEF SwapRaises
<1>20. CASE Check
  BY <1>20 DEF Check
<1>21. CASE CheckRaises
  BY <1>21 DEF CheckRaises
<1>22. CASE DiscardFile
  BY <1>22 DEF DiscardFile
<1>23. CASE Discard
  BY <1>23 DEF Discard
<1>24. CASE DiscardRaises
  BY <1>24 DEF DiscardRaises
<1>25. CASE Rollback
  BY <1>25 DEF Rollback
<1>26. CASE RollbackRaises
  BY <1>26 DEF RollbackRaises
<1>27. CASE Restore
  BY <1>27 DEF Restore
<1>28. CASE RestoreRaises
  BY <1>28 DEF RestoreRaises
<1>29. CASE CleanFile
  BY <1>29 DEF CleanFile
<1>30. CASE Clean
  BY <1>30 DEF Clean
<1>31. CASE CleanRaises
  BY <1>31 DEF CleanRaises
<1>32. CASE UNCHANGED vars
  BY <1>32 DEF vars
<1> QED
  BY <1>1, <1>2, <1>3, <1>4, <1>5, <1>6, <1>7, <1>8, <1>9, <1>10, <1>11,
     <1>12, <1>13, <1>14, <1>15, <1>16, <1>17, <1>18, <1>19, <1>20, <1>21,
     <1>22, <1>23, <1>24, <1>25, <1>26, <1>27, <1>28, <1>29, <1>30, <1>31,
     <1>32 DEF Next

\* The promise of architecture.md:305 holds for an error in any step before the
\* backup is removed, except in the checks that follow the first rename, as long
\* as the handlers themselves succeed.
THEOREM ErrorsBeforeDiscardKeepPrior ==
    ASSUME Failing \cap Unprotected = {}
    PROVE  Spec => []PriorKept
<1>1. "discard" \notin Failing
  BY DEF Unprotected
<1>2. Init => Progress /\ Whole /\ Kept
  BY ProgressInit, WholeInit, KeptInit
<1>3. Progress /\ Whole /\ Kept /\ [Next]_vars => (Progress /\ Whole /\ Kept)'
  BY <1>1, ProgressStep, WholeStep, KeptStep
<1>4. Progress /\ Whole /\ Kept => PriorKept
  BY DEF Kept
<1> QED
  BY <1>2, <1>3, <1>4, PTL DEF Spec
=============================================================================
