------------------------------ MODULE WorkSet ------------------------------
(***************************************************************************)
(* What the queue worker promises, without queue, consumers or database: a *)
(* set of ids to work on.  An id that is submitted while it waits or is    *)
(* being worked on is not taken twice, every id that waits is started, and *)
(* every id that was started is finished with.                             *)
(***************************************************************************)
CONSTANT Id

VARIABLES
    waiting,    \* ids submitted and not started
    running     \* ids being worked on

workVars == <<waiting, running>>

WorkInit == waiting = {} /\ running = {}

Submit(ids) ==
    /\ waiting' = waiting \union (ids \ running)
    /\ UNCHANGED running

Begin(id) ==
    /\ id \in waiting
    /\ waiting' = waiting \ {id}
    /\ running' = running \union {id}

Finish(id) ==
    /\ id \in running
    /\ running' = running \ {id}
    /\ UNCHANGED waiting

\* The process ends.
Forget == waiting' = {} /\ running' = {}

WorkNext ==
    \/ \E ids \in SUBSET Id : Submit(ids)
    \/ \E id \in Id : Begin(id) \/ Finish(id)
    \/ Forget

WorkSpec == WorkInit /\ [][WorkNext]_workVars

WorkFairSpec ==
    /\ WorkSpec
    /\ \A id \in Id : WF_workVars(Begin(id)) /\ WF_workVars(Finish(id))
=============================================================================
