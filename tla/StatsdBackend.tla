--------------------------- MODULE StatsdBackend ---------------------------
(***************************************************************************)
(* source/airflow-statsd/lib/appinsights.js: on a flush, statsd hands over *)
(* its counters, timers and gauges, and the backend sends each of them it  *)
(* selects by its key to Application Insights.  A key is the part up to    *)
(* its first dot, a name, and what follows "__" as base64 of JSON.         *)
(***************************************************************************)
EXTENDS Naturals, Sequences

CONSTANTS
  StatsdKeys,    \* the keys of a family, in the order of for..in: records [head, name, props]
  BadProps       \* what does not parse, of what may follow "__"

\* a family is an object: no two of its keys are the same; a key is its three parts
ASSUME StatsdAssumption ==
  /\ Len(StatsdKeys) \in Nat
  /\ \A j, k \in 1 .. Len(StatsdKeys) : StatsdKeys[j] = StatsdKeys[k] => j = k
  /\ \A k \in 1 .. Len(StatsdKeys) :
       StatsdKeys[k] = [head |-> StatsdKeys[k].head, name |-> StatsdKeys[k].name, props |-> StatsdKeys[k].props]

KeySet == {StatsdKeys[k] : k \in 1 .. Len(StatsdKeys)}

Families == <<"counters", "timer_data", "gauges">>

VARIABLES
  aiPrefix,            \* the head the configuration names, or "none"
  trackStatsDMetrics,
  family,              \* index of the loop onFlush is in
  next,                \* index of the key it comes to
  tracked,             \* trackMetric calls: <<family, key, name>>
  exceptions           \* keys of trackException calls

statsdVars == <<aiPrefix, trackStatsDMetrics, family, next, tracked, exceptions>>

StatsdInit ==
  /\ aiPrefix \in {k.head : k \in KeySet} \cup {"none"}
  /\ trackStatsDMetrics \in BOOLEAN
  /\ family = 1 /\ next = 1
  /\ tracked = <<>> /\ exceptions = <<>>

\* statsd's own metrics start with "statsd."
ShouldProcess(key) ==
  /\ trackStatsDMetrics \/ key.head # "statsd"
  /\ aiPrefix = "none" \/ key.head = aiPrefix

\* parseKey takes the prefix off; "__" in front is part of the name
HasProperties(key) == key.props # "none" /\ (aiPrefix = "none" \/ key.name # "")

\* onFlush puts the prefix back, which is "undefined" where there is none
MetricName(key) ==
  <<IF aiPrefix = "none" THEN "undefined" ELSE aiPrefix,
    IF aiPrefix = "none" THEN key.head ELSE "",
    key.name,
    IF HasProperties(key) THEN "none" ELSE key.props>>

Skip(key) ==
  /\ ~ShouldProcess(key)
  /\ UNCHANGED <<tracked, exceptions>>

\* mutant: the exception ends the iteration
TrackParsed(key) ==
  /\ ShouldProcess(key)
  /\ IF HasProperties(key) /\ key.props \in BadProps
     THEN exceptions' = Append(exceptions, <<Families[family], key>>) /\ UNCHANGED tracked
     ELSE tracked' = Append(tracked, <<Families[family], key, MetricName(key)>>) /\ UNCHANGED exceptions

\* the properties are parsed and not sent; what cannot be parsed is an exception of its own
Track(key) ==
  /\ ShouldProcess(key)
  /\ tracked' = Append(tracked, <<Families[family], key, MetricName(key)>>)
  /\ exceptions' = IF HasProperties(key) /\ key.props \in BadProps
                   THEN Append(exceptions, <<Families[family], key>>) ELSE exceptions

OnKey ==
  /\ next <= Len(StatsdKeys) /\ next' = next + 1
  /\ Skip(StatsdKeys[next]) \/ Track(StatsdKeys[next])
  /\ UNCHANGED <<aiPrefix, trackStatsDMetrics, family>>

NextFamily ==
  /\ next > Len(StatsdKeys) /\ family < Len(Families)
  /\ family' = family + 1 /\ next' = 1
  /\ UNCHANGED <<aiPrefix, trackStatsDMetrics, tracked, exceptions>>

StatsdStep == OnKey \/ NextFamily

StatsdSpec == StatsdInit /\ [][StatsdStep]_statsdVars

StatsdEnded == next > Len(StatsdKeys) /\ family = Len(Families)

-----------------------------------------------------------------------------
(* properties *)

Calls(f, key) == {n \in 1 .. Len(tracked) : tracked[n][1] = f /\ tracked[n][2] = key}

\* After a flush, every metric of every family whose key has the prefix is sent exactly
\* once, statsd's own only when they are wanted, and what cannot be parsed loses neither
\* its metric nor those that follow.  Of the metrics without properties no two arrive
\* under one name, though the prefix is taken off and put back; of those with properties
\* nothing is said: the backend drops the properties, and their names collide.
SelectedMetricsAreSentOnce ==
  /\ StatsdEnded =>
       \A f \in 1 .. Len(Families), key \in KeySet :
         LET wanted == /\ aiPrefix \in {"none", key.head}
                       /\ key.head = "statsd" => trackStatsDMetrics
             sent == Calls(Families[f], key)
         IN  /\ wanted <=> sent # {}
             /\ \A m, n \in sent : m = n
  /\ \A m, n \in 1 .. Len(tracked) :
       tracked[m][3] = tracked[n][3] /\ ~HasProperties(tracked[m][2]) /\ ~HasProperties(tracked[n][2]) =>
         tracked[m][2] = tracked[n][2]
=============================================================================
