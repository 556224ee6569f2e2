-------------------------- MODULE PerformancePlots --------------------------
(***************************************************************************)
(* demoPerformance.py: the bars of its two plots, computed from the CSV    *)
(* file of flows the simulation wrote. A name is the number of its         *)
(* application, in the order of the simulation's servers.                  *)
(***************************************************************************)
EXTENDS HomeSimulation

PORT_TO_APP_NAME ==
  [port \in 9001 .. 9011 |-> IF port <= 9005 THEN port - 9000 ELSE port - 9001]

\* Only flows with a throughput above 0 enter the means.
active_df == {f \in DOMAIN flows : flows[f].throughput[1] > 0}

\* Mutant: the flows are grouped by the port they come from.
dstPort_source(f) == f.sport

\* The column the flows are grouped by.
dstPort(f) == f.dport

\* One bar per group; no plot is drawn without one.
Bars == {dstPort(f) : f \in active_df}
Grouped(port) == {f \in active_df : dstPort(f) = port}

loss_by_app(port) ==
  SumFunction([f \in Grouped(port) |-> flows[f].lossPct]) \div Cardinality(Grouped(port))

Unknown == 0 \* "Port ... Inconnu"

get_app_names(port) ==
  IF port \in DOMAIN PORT_TO_APP_NAME THEN PORT_TO_APP_NAME[port] ELSE Unknown

----------------------------------------------------------------------------
\* A bar with the name of an application is the mean over streams that sources of
\* this application send, and over nothing else; the acknowledgements of its
\* receivers stand apart, in bars without a name. No bar shows a total loss.
BarsNameApplications ==
  phase = "measured" =>
    \A port \in Bars : \A f \in Grouped(port) :
      LET app == get_app_names(port)
          ends == {f.src, f.dst}
      IN /\ loss_by_app(port) \in 0 .. 99
         /\ IF app = Unknown THEN ReturnFlow(f) \in Flows
            ELSE f \in Flows /\ ends \cap ServerNodes = {Server(app)}
=============================================================================
