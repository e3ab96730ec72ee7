--------------------------- MODULE OpportunityOnce ---------------------------
(***************************************************************************)
(* What the pipeline promises about opportunities, whatever tables, locks  *)
(* and savepoints it uses: a task claims a signal before it asks the model *)
(* about it, nobody else can claim that signal meanwhile, and when the     *)
(* task's transaction ends all the opportunities it has claimed and not    *)
(* given up are there at once, or none.  A signal that has its opportunity *)
(* is never claimed again.  Pipeline implements this specification.        *)
(***************************************************************************)
EXTENDS Naturals

CONSTANTS Signals, Tasks, Nobody

VARIABLES
    owner,   \* the task that has claimed each signal
    made     \* the number of opportunities each signal has

Init ==
    /\ owner = [s \in Signals |-> Nobody]
    /\ made = [s \in Signals |-> 0]

Claim(t, s) ==
    /\ owner[s] = Nobody /\ made[s] = 0
    /\ owner' = [owner EXCEPT ![s] = t]
    /\ UNCHANGED made

GiveUp(t, s) ==
    /\ owner[s] = t
    /\ owner' = [owner EXCEPT ![s] = Nobody]
    /\ UNCHANGED made

Released(t) == [s \in Signals |-> IF owner[s] = t THEN Nobody ELSE owner[s]]

Publish(t) ==
    /\ made' = [s \in Signals |-> IF owner[s] = t THEN 1 ELSE made[s]]
    /\ owner' = Released(t)

Abandon(t) ==
    /\ owner' = Released(t)
    /\ UNCHANGED made

Next ==
    \E t \in Tasks :
        \/ \E s \in Signals : Claim(t, s) \/ GiveUp(t, s)
        \/ Publish(t)
        \/ Abandon(t)

Spec == Init /\ [][Next]_<<owner, made>>
=============================================================================
