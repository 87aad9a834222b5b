----------------------------- MODULE EchoService -----------------------------
(***************************************************************************)
(* What an echo server promises: for each client a pipe back to itself.     *)
(* What the client says comes back whole, once, and in order.               *)
(***************************************************************************)
EXTENDS Integers, Sequences

CONSTANT Clients

VARIABLES
    pipe,       \* what each client has said and not yet heard
    gone        \* the clients that have left

serviceVars == <<pipe, gone>>

ServiceInit ==
    /\ pipe = [i \in Clients |-> <<>>]
    /\ gone = {}

Say(i) ==
    /\ i \notin gone
    /\ Len(pipe'[i]) > Len(pipe[i])
    /\ SubSeq(pipe'[i], 1, Len(pipe[i])) = pipe[i]
    /\ pipe' = [pipe EXCEPT ![i] = pipe'[i]]
    /\ UNCHANGED gone

Hear(i) ==
    /\ i \notin gone
    /\ \E n \in 1 .. Len(pipe[i]) :
           pipe' = [pipe EXCEPT ![i] = SubSeq(@, n + 1, Len(@))]
    /\ UNCHANGED gone

\* One that leaves has heard all it said, unless it is lost.
Leave(S) ==
    /\ gone' = gone \cup S
    /\ pipe' = [i \in Clients |-> IF i \in S THEN <<>> ELSE pipe[i]]

ServiceNext ==
    \/ \E i \in Clients : Say(i) \/ Hear(i)
    \/ \E S \in SUBSET Clients : Leave(S)

ServiceSpec == ServiceInit /\ [][ServiceNext]_serviceVars

=============================================================================
