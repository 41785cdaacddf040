--------------------------- MODULE Schedulability ---------------------------
(***************************************************************************)
(* Response-time analysis of schedulability.rs: from the periods, the      *)
(* execution times and the priorities alone, the worst response time of    *)
(* each periodic task, or Never if it exceeds the period.  Tasks without a *)
(* period are ignored.                                                     *)
(***************************************************************************)
EXTENDS TaskSets

\* A fault: a job that arrives within the window is not counted.
div_floor(a, b) == a \div b

div_ceil(a, b) == (a + b - 1) \div b

\* A fault: every other task interferes.
all_others(ts, t) == Periodic(ts) \ {t}

\* The tasks that delay t.
interferers(ts, t) ==
    {o \in Periodic(ts) : ts.base_priority[o] > ts.base_priority[t]}

\* The work that delays t in a window of r ticks at whose start all are released.
interference(ts, t, r) ==
    SumFunctionOnSet([o \in Periodic(ts) |-> div_ceil(r, ts.period[o]) * ts.wcet[o]],
                     interferers(ts, t))

\* That and a job of t.
demand(ts, t, r) == ts.wcet[t] + interference(ts, t, r)

\* Where the loop of response_time gets to from r: it goes on until the demand
\* stands still or passes the deadline.
iteration(ts, t) ==
    LET iterate[r \in Nat] ==
            LET next == demand(ts, t, r)
            IN  IF next > ts.period[t] THEN Never
                ELSE IF next = r THEN r
                ELSE iterate[next]
    IN  iterate

\* It starts from the execution time.
response_time(ts, t) == iteration(ts, t)[ts.wcet[t]]

\* The verdict: every response time is within its deadline.
schedulable(ts) == \A t \in Periodic(ts) : response_time(ts, t) # Never
=============================================================================
