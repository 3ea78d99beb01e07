------------------------------ MODULE MCVideoPlan ------------------------------
EXTENDS VideoPlan
\* Three spans, the last hour of the week and a single hour among them; a span
\* whose end is before its start, which covers nothing.
MCPlans == {{<<0, 8>>, <<20, 20>>, <<150, 167>>}, {<<165, 2>>}}

\* The plan thread waits for the lock over the end of two hours at most.
BoundedWait == NextHour(tm) \in Queried \/ (Coming - NextHour(tm)) % 168 <= 2
===============================================================================
