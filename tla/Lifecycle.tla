----------------------------- MODULE Lifecycle -----------------------------
(***************************************************************************)
(* What the program promises of its threads: each is started at most once, *)
(* none ends before the program is being stopped, and none outlives main.  *)
(***************************************************************************)
CONSTANT Threads

VARIABLES phase,     \* "configuring", "running", "stopping", "ended" or "aborted"
          alive,     \* threads started and not ended
          finished   \* threads ended

vars == <<phase, alive, finished>>

Init == phase = "configuring" /\ alive = {} /\ finished = {}

Move(from, to) == phase = from /\ phase' = to

(* The configuration is read, or the program ends without it. *)
Configure == /\ \/ Move("configuring", "running")
                \/ Move("configuring", "ended")
                \/ Move("configuring", "aborted")
             /\ UNCHANGED <<alive, finished>>

Start(t) == /\ phase \in {"running", "stopping"}
            /\ t \notin alive \cup finished
            /\ alive' = alive \cup {t}
            /\ UNCHANGED <<phase, finished>>

Stop == Move("running", "stopping") /\ UNCHANGED <<alive, finished>>

Finish(t) == /\ phase = "stopping"
             /\ t \in alive
             /\ alive' = alive \ {t}
             /\ finished' = finished \cup {t}
             /\ UNCHANGED phase

End == /\ Move("stopping", "ended")
       /\ alive = {}
       /\ UNCHANGED <<alive, finished>>

Next == \/ Configure \/ Stop \/ End
        \/ \E t \in Threads : Start(t) \/ Finish(t)

Spec == Init /\ [][Next]_vars
=============================================================================
