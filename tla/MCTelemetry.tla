------------------------------ MODULE MCTelemetry -----------------------------
(* What devices report: the series drawn from counters, syslog messages,    *)
(* and the sweep that polls metrics.  The three share no state, so a        *)
(* behaviour is one of one of them ("part"), and the others stay as they    *)
(* are at the start.                                                        *)
EXTENDS MetricSeries, SyslogReceiver, MetricsSweep

(* A stream with a NUL, an empty line and an unfinished one. *)
SysStreams == {<<"f", "z", "n", "n", "f", "n", "o">>}
SysDatagrams == {<<"f">>}

CONSTANTS d1, d2
SweepOrders == {<<d1, d2>>, <<d2, d1>>}
SweepNoAddress == {{}, {d2}}

-----------------------------------------------------------------------------
VARIABLE part
telemetryVars == <<part, seriesVars, sysVars, sweepVars>>

SweepIdle == SweepInit /\ noAddress = {} /\ order = <<d1, d2>>

TelemetryInit ==
  /\ part \in {"series", "syslog", "sweep"}
  /\ SeriesInit /\ SysInit
  /\ IF part = "sweep" THEN SweepInit ELSE SweepIdle

TelemetryNext ==
  /\ UNCHANGED part
  /\ \/ part = "series" /\ SeriesNext /\ UNCHANGED <<sysVars, sweepVars>>
     \/ part = "syslog" /\ SysNext /\ UNCHANGED <<seriesVars, sweepVars>>
     \/ part = "sweep" /\ SweepNext /\ UNCHANGED <<seriesVars, sysVars>>

(* SysFairness and SweepFairness, of the part that runs. *)
TelemetryFairness ==
  /\ WF_sysVars(part = "syslog" /\ TakeDatagram)
  /\ \A h \in Handlers : WF_sysVars(part = "syslog" /\ Handle(h))
  /\ \A c \in TcpClients : WF_sysVars(part = "syslog" /\ ReadClient(c))
  /\ \A s \in Sweeps : WF_sweepVars(part = "sweep" /\ SweepSteps(s))

TelemetrySpec == TelemetryInit /\ [][TelemetryNext]_telemetryVars /\ TelemetryFairness
=============================================================================
