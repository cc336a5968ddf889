------------------------------- MODULE Health -------------------------------
(***************************************************************************)
(* Metrics: the MetricsPusher of every module (go/msgbus/metric.go), the   *)
(* monitors the CPU runs for the topics of the bus (go/cpu/monitor.go), the *)
(* goroutine that starts them again (go/cpu/cpu.go, Run) and the handler   *)
(* that feeds Prometheus (go/cpu/metrics.go).                              *)
(*                                                                         *)
(* A module counts in its own memory and pushes all its metrics every five *)
(* seconds.  A monitor that meets an error reports it and ends.            *)
(***************************************************************************)
EXTENDS Integers

CONSTANTS
    Module,    \* modules that have metrics
    Metric,    \* metrics, named as on the bus: with the prefix of their module
    Owner,     \* the module of each
    Counter,   \* the metrics that are counters; the others are gauges
    Namings,   \* what nameRegex may make of the names: functions from Metric
    Legal,     \* names that Prometheus accepts
    Topic, Watched,  \* topics with a monitor, those with an error channel
    NoMessage,
    Cap,       \* Prometheus counters are followed up to this value
    MaxCount, MaxFaults, MaxRestarts  \* bounds

ASSUME HealthAssumption ==
    /\ Owner \in [Metric -> Module]
    /\ Counter \subseteq Metric
    /\ Watched \subseteq Topic
    /\ "HEALTH" \in Watched
    /\ MaxCount \in Nat /\ Cap \in Nat /\ Cap >= MaxCount /\ MaxFaults \in Nat /\ MaxRestarts \in Nat

VARIABLES
    naming,    \* the names Prometheus gets
    value,     \* metrics in the memory of the modules
    inflight,  \* the message of each module that waits in the socket of the monitor
    mon,       \* the monitor of each topic
    watching,  \* the goroutine that starts monitors again runs
    known,     \* metrics in the maps counters and gauges
    shown,     \* what Prometheus reads
    term,      \* the context of the CPU is done
    crashed,   \* the CPU has panicked
    faults, restarts  \* counters for the bounds

healthVars == <<naming, value, inflight, mon, watching, known, shown, term, crashed, faults, restarts>>

Owned(m) == {x \in Metric : Owner[x] = m}
Least(a, b) == IF a < b THEN a ELSE b

HealthTypeOK ==
    /\ naming \in Namings
    /\ value \in [Metric -> 0..MaxCount]
    /\ DOMAIN inflight = Module
    /\ \A m \in Module : inflight[m] = NoMessage \/ inflight[m] \in [Owned(m) -> 0..MaxCount]
    /\ mon \in [Topic -> {"running", "failing", "ended"}]
    /\ watching \in BOOLEAN
    /\ known \subseteq Metric
    /\ shown \in [known -> 0..Cap]
    /\ term \in BOOLEAN
    /\ crashed \in BOOLEAN
    /\ faults \in 0..MaxFaults /\ restarts \in 0..MaxRestarts

HealthInit ==
    /\ naming \in Namings
    /\ value = [x \in Metric |-> 0]
    /\ inflight = [m \in Module |-> NoMessage]
    /\ mon = [t \in Topic |-> "running"]
    /\ watching = TRUE
    /\ known = {}
    /\ shown = [x \in {} |-> 0]
    /\ term = FALSE
    /\ crashed = FALSE
    /\ faults = 0 /\ restarts = 0

-----------------------------------------------------------------------------
(* The modules.                                                            *)

\* IncrMetric and IncrMetricBy; the callers count what they have done, which is never less
\* than nothing.
IncrMetricBy(x, n) ==
    /\ x \in Counter
    /\ value[x] + n <= MaxCount
    /\ value' = [value EXCEPT ![x] = @ + n]
    /\ UNCHANGED <<naming, inflight, mon, watching, known, shown, term, crashed, faults, restarts>>

SetMetric(x, v) ==
    /\ x \notin Counter
    /\ v # value[x]
    /\ value' = [value EXCEPT ![x] = v]
    /\ UNCHANGED <<naming, inflight, mon, watching, known, shown, term, crashed, faults, restarts>>

\* The process of a module is started again and counts from zero.
ModuleRestart(m) ==
    /\ restarts < MaxRestarts
    /\ restarts' = restarts + 1
    /\ value' = [x \in Metric |-> IF Owner[x] = m THEN 0 ELSE value[x]]
    /\ UNCHANGED <<naming, inflight, mon, watching, known, shown, term, crashed, faults>>

\* A tick of the MetricsPusher: a copy of every metric is pushed.  Without a monitor it is
\* lost, and one message of a module waits at a time, five seconds being long.
Push(m) ==
    /\ ~crashed
    /\ Owned(m) # {}
    /\ inflight[m] = NoMessage
    /\ mon["HEALTH"] = "running"
    /\ inflight' = [inflight EXCEPT ![m] = [x \in Owned(m) |-> value[x]]]
    /\ UNCHANGED <<naming, value, mon, watching, known, shown, term, crashed, faults, restarts>>

-----------------------------------------------------------------------------
(* The CPU.                                                                *)

\* Mutant: the maps are not looked at.
FreshAlways(m) == Owned(m)

\* The metrics of a message that are registered with Prometheus.
Fresh(m) == Owned(m) \ known

Kept(m) == known \cup Fresh(m)

\* promauto panics if a name is registered already or is none that Prometheus accepts, and
\* Add if a counter would go down.
Panics(m) ==
    \/ \E x \in Fresh(m) : \E y \in known \cup (Fresh(m) \ {x}) : naming[x] = naming[y]
    \/ \E x \in Fresh(m) : naming[x] \notin Legal
    \/ \E x \in Owned(m) \cap Counter : inflight[m][x] < 0

\* Mutant: a counter is added to only when it is new.
UpdatedOnce(m, x) == IF x \in Counter \cap known THEN shown[x] ELSE Least(Cap, inflight[m][x])

\* Mutant: a gauge is added to.
UpdatedAdds(m, x) == Least(Cap, (IF x \in known THEN shown[x] ELSE 0) + inflight[m][x])

\* The value is added to a counter, although it is a total itself; a gauge is set.
Updated(m, x) ==
    Least(Cap, (IF x \in Counter \cap known THEN shown[x] ELSE 0) + inflight[m][x])

\* metricsHandler.
MetricsHandler(m) ==
    /\ ~crashed
    /\ mon["HEALTH"] = "running"
    /\ inflight[m] # NoMessage
    /\ inflight' = [inflight EXCEPT ![m] = NoMessage]
    /\ \/ /\ Panics(m)
          /\ crashed' = TRUE
          /\ UNCHANGED <<known, shown>>
       \/ /\ ~Panics(m)
          /\ known' = Kept(m)
          /\ shown' = [x \in known \cup Owned(m) |->
                         IF x \in Owned(m) THEN Updated(m, x) ELSE shown[x]]
          /\ UNCHANGED crashed
    /\ UNCHANGED <<naming, value, mon, watching, term, faults, restarts>>

\* The socket or a handler reports an error: a malformed message, say.  The monitor waits
\* until the error is received, if there is a channel for it, and ends.  What its socket
\* holds is lost.
MonitorFails(t) ==
    /\ ~crashed
    /\ mon[t] = "running"
    /\ faults < MaxFaults
    /\ faults' = faults + 1
    /\ mon' = [mon EXCEPT ![t] = IF t \in Watched THEN "failing" ELSE "ended"]
    /\ inflight' = IF t = "HEALTH" THEN [m \in Module |-> NoMessage] ELSE inflight
    /\ UNCHANGED <<naming, value, watching, known, shown, term, crashed, restarts>>

\* Mutant: the goroutine ends after the error.
StartAgainOnce(t) ==
    /\ ~crashed
    /\ watching
    /\ mon[t] = "failing"
    /\ mon' = [mon EXCEPT ![t] = "running"]
    /\ watching' = FALSE
    /\ UNCHANGED <<naming, value, inflight, known, shown, term, crashed, faults, restarts>>

\* The error is received and a new monitor started.
StartAgain(t) ==
    /\ ~crashed
    /\ watching
    /\ mon[t] = "failing"
    /\ mon' = [mon EXCEPT ![t] = "running"]
    /\ UNCHANGED <<naming, value, inflight, watching, known, shown, term, crashed, faults, restarts>>

Terminate ==
    /\ ~term
    /\ term' = TRUE
    /\ UNCHANGED <<naming, value, inflight, mon, watching, known, shown, crashed, faults, restarts>>

\* The goroutine takes <-ctx.Done(); a monitor that fails later waits for ever.
StopWatching ==
    /\ term /\ ~crashed
    /\ watching
    /\ watching' = FALSE
    /\ UNCHANGED <<naming, value, inflight, mon, known, shown, term, crashed, faults, restarts>>

\* A monitor looks at the context between two messages.
MonitorReturns(t) ==
    /\ term /\ ~crashed
    /\ mon[t] = "running"
    /\ mon' = [mon EXCEPT ![t] = "ended"]
    /\ UNCHANGED <<naming, value, inflight, watching, known, shown, term, crashed, faults, restarts>>

-----------------------------------------------------------------------------
HealthNext ==
    \/ \E x \in Metric : \/ \E n \in 1..MaxCount : IncrMetricBy(x, n)
                        \/ \E v \in 0..MaxCount : SetMetric(x, v)
    \/ \E m \in Module : ModuleRestart(m) \/ Push(m) \/ MetricsHandler(m)
    \/ \E t \in Topic : MonitorFails(t) \/ StartAgain(t) \/ MonitorReturns(t)
    \/ Terminate \/ StopWatching

\* Tickers tick and goroutines that can run do run.
HealthFairness ==
    /\ \A m \in Module : WF_healthVars(Push(m)) /\ WF_healthVars(MetricsHandler(m))
    /\ \A t \in Topic : WF_healthVars(StartAgain(t))

HealthSpec == HealthInit /\ [][HealthNext]_healthVars
HealthFairSpec == HealthSpec /\ HealthFairness

-----------------------------------------------------------------------------
(* Properties.                                                             *)

\* The CPU panics only for the names its modules were given: two that nameRegex maps to the
\* same one, `a-b' and `a.b' (metrics.go:20, 43, 55), or one that Prometheus does not
\* accept, for nameRegex leaves a space or a leading digit as it is.  Neither a module that
\* starts again and counts from zero nor a monitor that does makes it panic: nothing is
\* registered twice, and no counter is asked to go down (metrics.go:51).
CrashOnlyByName ==
    crashed => \/ \E x, y \in Metric : x # y /\ naming[x] = naming[y]
               \/ \E x \in Metric : naming[x] \notin Legal

\* The types, and that only a name makes the CPU panic (metrics.go:43).
HealthInv == HealthTypeOK /\ CrashOnlyByName

\* A monitor with an error channel is started again after every error until the CPU
\* shuts down (cpu.go:182-198): none of them waits for ever to report one.
MonitorsRevive ==
    \A t \in Watched : (mon[t] # "running") ~> (mon[t] = "running" \/ term \/ crashed)

\* What a counter counted arrives in the end, for every message holds the total: lost
\* messages, failing monitors and a start of the module notwithstanding, the counter of
\* Prometheus is no less than what the module has counted (metric.go:44-68, metrics.go:51).
CounterArrives ==
    \A x \in Counter : \A v \in 0..MaxCount :
        <>[](value[x] = v /\ ~term /\ ~crashed) => <>[](x \in known /\ shown[x] >= v)

\* A gauge that settles is shown with its value, lost messages notwithstanding
\* (metrics.go:63).
GaugeSettles ==
    \A x \in Metric \ Counter : \A v \in 0..MaxCount :
        <>[](value[x] = v /\ ~term /\ ~crashed) => <>[](x \in known /\ shown[x] = v)
=============================================================================
