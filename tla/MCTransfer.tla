------------------------------- MODULE MCTransfer -------------------------------
EXTENDS Transfer

\* bound: an object with two threads is followed until stop_transfer, which waits for
\* one of them, closes the subscriber of the other; what that one reads then is
\* undefined
Defined ==
    \A t \in Threads : pc[t] \in Live /\ ~Alone(t) => own[t] \in alive /\ sub[own[t]]

\* bound: of the subscribers nobody closes, the data_writer's and the leaked, one at
\* a time
OneForgotten == ~(wsub /\ leaked)
=============================================================================
