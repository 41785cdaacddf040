---------------------------- MODULE MCScenarios ----------------------------
(***************************************************************************)
(* The periodic scenarios of workload.rs and of the stress harness at      *)
(* several of their smaller sizes, for TLC.                                *)
(***************************************************************************)
EXTENDS KernelScenarios

ScenarioTasks == 0..13

\* The scenarios that are built to meet their deadlines.  The boss of the
\* lockstorm needs the boost at 160, where hogs arrive while it is blocked; at
\* 80 it blocks oftener, and no hog happens to arrive.
SchedulableSetups ==
    { demo(1, 0, "blink", "sample"),
      contended_set(1, 4), contended_set(1, 7),
      build_lockstorm(1, 80, TRUE), build_lockstorm(1, 160, TRUE),
      scenario_herd(0, 2, 3), scenario_herd(0, 4, 3), scenario_herd(0, 8, 1),
      scenario_queuechurn(2, 5), scenario_queuechurn(3, 4), scenario_queuechurn(4, 5),
      scenario_deadlock(1, 5) }

\* The priorities of manytasks have nothing to do with its periods.
ScenarioSetups == SchedulableSetups \union { build_manytasks(8), build_manytasks(9) }
=============================================================================
