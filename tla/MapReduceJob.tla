---------------------------- MODULE MapReduceJob ----------------------------
(***************************************************************************)
(* What a MapReduce job promises: every map task is done once, a reduce     *)
(* task only then and from the output of all of them, and the job ends with *)
(* every result final.                                                      *)
(***************************************************************************)
CONSTANTS
    Maps,           \* the map tasks, one per input file
    Reduces         \* the reduce tasks, one per partition

VARIABLES
    mapped,         \* the map tasks that are done
    reduced,        \* the reduce tasks that are done
    result,         \* which map tasks' output each result accounts for
    over            \* whether the job has ended

jobVars == <<mapped, reduced, result, over>>

JobInit ==
    /\ mapped = {}
    /\ reduced = {}
    /\ result = [r \in Reduces |-> {}]
    /\ over = FALSE

MapDone(m) ==
    /\ m \in Maps \ mapped
    /\ mapped' = mapped \cup {m}
    /\ UNCHANGED <<reduced, result, over>>

\* A result that is not yet final may be started again.
ResultWritten(r) ==
    /\ mapped = Maps
    /\ r \in Reduces \ reduced
    /\ result' \in {[result EXCEPT ![r] = {}], [result EXCEPT ![r] = Maps]}
    /\ UNCHANGED <<mapped, reduced, over>>

ReduceDone(r) ==
    /\ r \in Reduces \ reduced
    /\ result[r] = Maps
    /\ reduced' = reduced \cup {r}
    /\ UNCHANGED <<mapped, result, over>>

JobOver ==
    /\ reduced = Reduces
    /\ over' = TRUE
    /\ UNCHANGED <<mapped, reduced, result>>

JobNext ==
    \/ \E m \in Maps : MapDone(m)
    \/ \E r \in Reduces : ResultWritten(r) \/ ReduceDone(r)
    \/ JobOver

JobSpec == JobInit /\ [][JobNext]_jobVars

=============================================================================
