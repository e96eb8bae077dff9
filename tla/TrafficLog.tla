----------------------------- MODULE TrafficLog -----------------------------
(***************************************************************************)
(* What the traffic store promises of its files: a trace that was handed   *)
(* to it is saved; it may be missing only when its day has run out of the  *)
(* retention, or when the disk or a crash hit the file of that day.        *)
(* Closing the store returns with nothing left to save.                    *)
(***************************************************************************)
EXTENDS Naturals

VARIABLES
    pending,    \* traces handed to the store, not in a file yet
    saved,      \* traces a reader of the files finds
    floor,      \* files of earlier days have been removed
    hurt,       \* days whose file was hit by a crash or by the disk
    closed      \* the store has been closed

vars == <<pending, saved, floor, hurt, closed>>

Init ==
    /\ pending = {}
    /\ saved = {}
    /\ floor = 0
    /\ hurt = {}
    /\ closed = FALSE

\* Days only run out and files only get hit.
Onwards == floor' >= floor /\ hurt \subseteq hurt'

Excused(t) == t.day < floor' \/ t.day \in hurt'

Accept ==
    /\ ~closed
    /\ pending \subseteq pending'
    /\ UNCHANGED <<saved, floor, hurt, closed>>

\* Pending traces are saved, or lost with an excuse; saved ones only expire.
Progress ==
    /\ Onwards
    /\ pending' \subseteq pending
    /\ saved' \subseteq saved \cup (pending \ pending')
    /\ \A t \in pending \ (pending' \cup saved') : Excused(t)
    /\ \A t \in saved \ saved' : t.day < floor'
    /\ UNCHANGED closed

Close ==
    /\ pending = {}
    /\ closed' = TRUE
    /\ UNCHANGED <<pending, saved, floor, hurt>>

\* The process ends and another one starts: what was pending is lost with the
\* files it was meant for.
End ==
    /\ Onwards
    /\ pending' = {}
    /\ \A t \in pending : Excused(t)
    /\ closed' = FALSE
    /\ saved' \subseteq saved
    /\ \A t \in saved \ saved' : t.day < floor'

Next == Accept \/ Progress \/ Close \/ End

Spec == Init /\ [][Next]_vars
=============================================================================
