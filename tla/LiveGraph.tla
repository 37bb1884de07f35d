----------------------------- MODULE LiveGraph ------------------------------
(* The realtime graphs of the status pages. The collector luci-bwc samples   *)
(* once a second into a ring of fixed size; the page polls the ring and      *)
(* appends what is new to the window it draws. Polls overlap (each returns   *)
(* the whole ring), answers may be missing, and a page that did not poll for *)
(* longer than the ring is long has missed samples. The four pages exist     *)
(* twice, in luci-mod-status and, under other names, in                      *)
(* luci-mod-status-tfortis.                                                  *)
(*                                                                           *)
(* A sample is its time stamp, 0 is the value a window is filled with.       *)
EXTENDS Integers, Sequences, FiniteSets, SequencesExt, FiniteSetsExt

CONSTANTS Ring,      \* entries of the collector's ring (STEP_COUNT)
          Window,    \* points of a drawn line (data_wanted)
          MaxTime    \* bound on the clock

ASSUME GraphAssumption == Ring \in Nat \ {0} /\ Window \in Nat \ {0} /\ MaxTime \in Nat

VARIABLES graph,     \* [page, lines, values, timestamp, fill]
          bwc,       \* [now, ring]
          taken,     \* history: all samples the collector stored
          missed     \* history: samples left the ring before a poll saw them

-----------------------------------------------------------------------------
(* The collector: update_file drops a sample that is not newer than the last *)
(* one of the ring.                                                          *)
update_file(ring, t) ==
  IF ring # <<>> /\ t <= Last(ring) THEN ring
  ELSE LET longer == Append(ring, t)
       IN  SubSeq(longer, IF Len(longer) > Ring THEN 2 ELSE 1, Len(longer))

Tick ==
  /\ bwc.now < MaxTime
  /\ LET t == bwc.now + 1
         ring == update_file(bwc.ring, t)
     IN  /\ bwc' = [now |-> t, ring |-> ring]
         /\ taken' = IF ring = bwc.ring THEN taken ELSE Append(taken, t)
  /\ UNCHANGED <<graph, missed>>

(* The collector ends when nobody asks for ten seconds, and the clock may be *)
(* set: both leave times without a sample, or samples that are not stored.   *)
ClockSet ==
  /\ \E t \in 1..MaxTime : bwc' = [bwc EXCEPT !.now = t]
  /\ UNCHANGED <<graph, taken, missed>>

-----------------------------------------------------------------------------
(* The lines of each graph, in the columns of a sample: "none" for a column  *)
(* that is not drawn.                                                        *)
BandwidthLines == <<"counter", "none", "counter">>
LoadLines == <<"gauge", "gauge", "gauge">>
SignalLines == <<"none", "gauge", "gauge">>
RateLines == <<"gauge">>
ConnectionLines == <<"gauge", "gauge", "gauge">>

Drawn(lines) == SelectSeq(lines, LAMBDA l : l # "none")

bandwidth_updateGraph(lines) ==
  [lines |-> lines, values |-> [i \in DOMAIN Drawn(lines) |-> [j \in 1..Window |-> 0]],
   timestamp |-> 0, fill |-> 1]
load_updateGraph(lines) == bandwidth_updateGraph(lines)
wireless_updateGraph(lines) == bandwidth_updateGraph(lines)
connections_updateGraph(lines) == bandwidth_updateGraph(lines)

MutTakesLastAgain(g, data) ==
  {j \in (IF g.timestamp = 0 THEN 2 ELSE 1)..Len(data) : data[j] >= g.timestamp}

(* The entries of an answer that are new; the very first one only serves as  *)
(* the predecessor of the second.                                            *)
Fresh(g, data) ==
  {j \in (IF g.timestamp = 0 THEN 2 ELSE 1)..Len(data) : data[j] > g.timestamp}

(* A line goes through an answer and takes its new entries, a counter only   *)
(* those from number first on.                                               *)
Pushed(g, data, line, from) ==
  FoldLeft(LAMBDA values, j : IF j \in Fresh(g, data) /\ j >= from THEN Append(values, data[j])
                              ELSE values,
           line, [j \in DOMAIN data |-> j])

(* A line is cut to the width of the drawing.                                *)
Cut(values) == SubSeq(values, Len(values) - Window + 1, Len(values))

Advanced(g, data, first) ==
  LET fresh == Fresh(g, data)
      more == g.fill + Cardinality(fresh)
  IN  [g EXCEPT
        !.values = [i \in DOMAIN @ |->
           Cut(Pushed(g, data, @[i], IF Drawn(g.lines)[i] = "counter" THEN first ELSE 1))],
        !.timestamp = IF fresh = {} THEN @ ELSE data[Max(fresh)],
        !.fill = IF more > Window THEN Window ELSE more]

(* A counter is drawn as the difference to the entry before it in the same   *)
(* answer, so the first entry of an answer adds no point. A gauge adds its   *)
(* value.                                                                    *)
bandwidth_pollData(g, data) == Advanced(g, data, 2)
load_pollData(g, data) == Advanced(g, data, 1)
wireless_pollData(g, data) == Advanced(g, data, 1)
connections_pollData(g, data) == Advanced(g, data, 1)

(* The copies of luci-mod-status-tfortis.                                    *)
bandwidth_tfortis_updateGraph(lines) == bandwidth_updateGraph(lines)
load_tfortis_updateGraph(lines) == load_updateGraph(lines)
wireless_tfortis_updateGraph(lines) == wireless_updateGraph(lines)
connections_tfortis_updateGraph(lines) == connections_updateGraph(lines)
bandwidth_tfortis_pollData(g, data) == bandwidth_pollData(g, data)
load_tfortis_pollData(g, data) == load_pollData(g, data)
wireless_tfortis_pollData(g, data) == wireless_pollData(g, data)
connections_tfortis_pollData(g, data) == connections_pollData(g, data)

BandwidthTfortisLines == BandwidthLines
LoadTfortisLines == LoadLines
SignalTfortisLines == SignalLines
RateTfortisLines == RateLines
ConnectionTfortisLines == ConnectionLines

Starts ==
  { <<"bandwidth", bandwidth_updateGraph(BandwidthLines)>>,
    <<"load", load_updateGraph(LoadLines)>>,
    <<"wireless", wireless_updateGraph(SignalLines)>>,
    <<"wireless", wireless_updateGraph(RateLines)>>,
    <<"connections", connections_updateGraph(ConnectionLines)>>,
    <<"bandwidth_tfortis", bandwidth_tfortis_updateGraph(BandwidthTfortisLines)>>,
    <<"load_tfortis", load_tfortis_updateGraph(LoadTfortisLines)>>,
    <<"wireless_tfortis", wireless_tfortis_updateGraph(SignalTfortisLines)>>,
    <<"wireless_tfortis", wireless_tfortis_updateGraph(RateTfortisLines)>>,
    <<"connections_tfortis", connections_tfortis_updateGraph(ConnectionTfortisLines)>> }

pollData(page, g, data) ==
  CASE page = "bandwidth" -> bandwidth_pollData(g, data)
    [] page = "load" -> load_pollData(g, data)
    [] page = "wireless" -> wireless_pollData(g, data)
    [] page = "connections" -> connections_pollData(g, data)
    [] page = "bandwidth_tfortis" -> bandwidth_tfortis_pollData(g, data)
    [] page = "load_tfortis" -> load_tfortis_pollData(g, data)
    [] page = "wireless_tfortis" -> wireless_tfortis_pollData(g, data)
    [] page = "connections_tfortis" -> connections_tfortis_pollData(g, data)

GraphInit ==
  /\ \E s \in Starts : graph = [page |-> s[1], g |-> s[2]]
  /\ bwc = [now |-> 0, ring |-> <<>>]
  /\ taken = <<>>
  /\ missed = FALSE

(* A call that fails counts as an answer without entries.                    *)
GraphPoll ==
  /\ \E data \in {bwc.ring, <<>>} :
       /\ graph' = [graph EXCEPT !.g = pollData(graph.page, @, data)]
       /\ missed' = (missed \/ LET new == Fresh(graph.g, data)
                               IN  graph.g.timestamp > 0 /\ 1 \in new)
  /\ UNCHANGED <<bwc, taken>>

GraphNext == Tick \/ ClockSet \/ GraphPoll

(* Each line shows the latest samples the collector stored up to the one the *)
(* page knows of, each once and in order, with nothing left out unless the   *)
(* page did not poll for the length of the ring; what divides the sum of a   *)
(* line for its average is never less than its number of points. Of a line   *)
(* the last n values are points, of the samples the page knows the first m.  *)
LineConsistent(line, g, samples, lost) ==
  /\ Len(line) = Window /\ g.fill <= Window
  /\ \E n \in 0..Window, m \in 0..Len(samples) :
       /\ \A j \in 1..Window : (line[j] > 0) = (j > Window - n)
       /\ \A j \in 1..Window : \A k \in j + 1..Window : j > Window - n => line[j] < line[k]
       /\ \A k \in 1..Len(samples) : (samples[k] <= g.timestamp) = (k <= m)
       /\ n <= g.fill
       /\ ~lost => /\ g.fill - 1 <= n /\ n <= m
                   /\ \A k \in 1..n : line[Window - n + k] = samples[m - n + k]

WindowConsistent(g, samples, lost) ==
  \A i \in DOMAIN g.values : LineConsistent(g.values[i], g, samples, lost)
=============================================================================
