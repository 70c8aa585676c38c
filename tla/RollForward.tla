---------------------------- MODULE RollForward -----------------------------
(***************************************************************************)
(* What local publication promises a reader of /data.                      *)
(*                                                                         *)
(* A snapshot is first staged as a whole.  While it is staged the public   *)
(* files change only towards it, in the promised order: a record may point *)
(* at local media once that media is public, posts.json lists posts whose  *)
(* records are all public, and state.json comes last.  The staged snapshot *)
(* is retired only when every public file shows it.  A staged snapshot     *)
(* never forgets a public post and never turns archived media back into a  *)
(* remote URL.  Kills and restarts are stutters.                           *)
(***************************************************************************)
EXTENDS FiniteSets

CONSTANTS Posts, NoSnapshot

Status == {"absent", "pending", "failed", "archived"}
Snapshot == [Posts -> Status]

VARIABLES media, record, index, queue, staged

vars == <<media, record, index, queue, staged>>

PostsOf(s) == {p \in Posts : s[p] # "absent"}
RecordOf(s) ==
    [p \in Posts |-> CASE s[p] = "absent"   -> "none"
                       [] s[p] = "archived" -> "local"
                       [] OTHER             -> "source"]
QueueOf(s) ==
    [p \in Posts |-> IF s[p] \in {"pending", "failed"} THEN s[p] ELSE "none"]

\* Every public file shows snapshot s; an operator may have re-queued a slot.
Shows(s) ==
    /\ record = RecordOf(s)
    /\ index = PostsOf(s)
    /\ \A p \in Posts : \/ queue[p] = QueueOf(s)[p]
                        \/ QueueOf(s)[p] = "failed" /\ queue[p] = "pending"

\* Snapshot s keeps every public post and every archived slot.
Extends(s) ==
    \A p \in Posts : /\ record[p] # "none" => s[p] # "absent"
                     /\ record[p] = "local" => s[p] = "archived"

Init ==
    /\ media = {}
    /\ record = [p \in Posts |-> "none"]
    /\ index = {}
    /\ queue = [p \in Posts |-> "none"]
    /\ staged = NoSnapshot

StageSnapshot ==
    /\ staged = NoSnapshot
    /\ \E s \in Snapshot : Extends(s) /\ staged' = s
    /\ UNCHANGED <<media, record, index, queue>>

AddMedia(p) ==
    /\ staged # NoSnapshot
    /\ staged[p] = "archived"
    /\ media' = media \cup {p}
    /\ UNCHANGED <<record, index, queue, staged>>

PutRecord(p) ==
    /\ staged # NoSnapshot
    /\ staged[p] = "archived" => p \in media
    /\ record' = [record EXCEPT ![p] = RecordOf(staged)[p]]
    /\ UNCHANGED <<media, index, queue, staged>>

PutIndex ==
    /\ staged # NoSnapshot
    /\ record = RecordOf(staged)
    /\ index' = PostsOf(staged)
    /\ UNCHANGED <<media, record, queue, staged>>

PutState ==
    /\ staged # NoSnapshot
    /\ record = RecordOf(staged)
    /\ index = PostsOf(staged)
    /\ queue' = QueueOf(staged)
    /\ UNCHANGED <<media, record, index, staged>>

Retire ==
    /\ staged # NoSnapshot
    /\ Shows(staged)
    /\ staged' = NoSnapshot
    /\ UNCHANGED <<media, record, index, queue>>

\* The operator's repair of state.json.
Requeue(p) ==
    /\ queue[p] = "failed"
    /\ queue' = [queue EXCEPT ![p] = "pending"]
    /\ UNCHANGED <<media, record, index, staged>>

Next ==
    \/ StageSnapshot
    \/ \E p \in Posts : AddMedia(p) \/ PutRecord(p) \/ Requeue(p)
    \/ PutIndex
    \/ PutState
    \/ Retire

Spec == Init /\ [][Next]_vars
=============================================================================
