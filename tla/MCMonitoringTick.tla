-------------------------- MODULE MCMonitoringTick --------------------------
(* Instances of MonitoringTick: the flags the model's monitor may raise. *)
EXTENDS MonitoringTick

MixedSignals == {{}, {"drift", "review"}, {"drift", "approval", "folded"}}
=============================================================================
