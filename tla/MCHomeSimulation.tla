-------------------------- MODULE MCHomeSimulation --------------------------
(* The deployment of the program, for TLC.                                  *)
EXTENDS PerformancePlots

\* 5 cameras, 10 sensors, 3 voice assistants, 2 downloads, 4 VoIP sessions,
\* 4 domotics, streaming, doorbell, firmware update and monitoring.
MCHome == <<5, 10, 3, 2, 4, 4, 1, 1, 1, 1>>

Ask(monitor, csv, duration) ==
  [enableFlowMonitor |-> monitor, enableCsv |-> csv, duration |-> duration]

\* Only what is written when the run has ended depends on enableCsv: without it a
\* simulation that lasts has the same states before, and nothing to compare after.
MCOptions ==
  {Ask(m, TRUE, 600) : m \in BOOLEAN} \cup {Ask(m, c, 0) : m, c \in BOOLEAN}
=============================================================================
