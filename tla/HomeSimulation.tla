--------------------------- MODULE HomeSimulation ---------------------------
(***************************************************************************)
(* simulation-domestique.cc: the deployment of the home's applications on  *)
(* clients and servers, the receivers they share, the traffic of a run,    *)
(* and the metrics computed from the receivers and from FlowMonitor.       *)
(* Bytes are counted in two units, the headers of a packet and its data;   *)
(* times, but for the length of a run and of a flow, and the radio are     *)
(* left out: any packet may be delivered late, or lost.                    *)
(***************************************************************************)
EXTENDS Integers, Sequences, Bags, SequencesExt

CONSTANTS
  N_EQUIPMENTS, \* how many clients are created
  Counts,       \* how many of them run each of the K_TYPES applications
  Options,      \* what the program may be started with: [enableFlowMonitor, enableCsv, duration]
  Spans,        \* bound: for how long a flow may send
  MaxSent       \* bound: how many packets the sources send in a run

K_TYPES == 10

\* How many clients the first n types take.
Clients(n) == SumFunctionOnSet(Counts, 1 .. n)

\* There is a client for every application (NodeContainer::Get needs one).
ASSUME DeploymentAssumption ==
  /\ N_EQUIPMENTS \in Nat
  /\ Counts \in [1 .. K_TYPES -> Nat]
  /\ Clients(K_TYPES) <= N_EQUIPMENTS
  /\ Options \subseteq [enableFlowMonitor : BOOLEAN, enableCsv : BOOLEAN, duration : Nat]
  /\ Spans \subseteq Nat
  /\ MaxSent \in Nat

ClientNodes  == 0 .. N_EQUIPMENTS - 1
ServerNodes  == N_EQUIPMENTS .. N_EQUIPMENTS + K_TYPES - 1

\* serverNodes.Get(t - 1)
Server(t) == N_EQUIPMENTS + t - 1

VARIABLES
  opts,             \* the command line
  phase,            \* "deploy", "run" or "measured"
  nextClientIndex,
  g_trafficSources,
  sinks,            \* g_installedSinks (map) and the PacketSink applications (apps)
  late,             \* whether the start time of the firmware update has passed
  air,              \* bag: the packets on their way, by flow
  sent,             \* how many packets the sources have sent
  stats,            \* FlowMonitor's counters per flow; empty without FlowMonitor
  report,           \* the rows of the XML metrics, by node and port
  flows,            \* the rows of the CSV file, by flow
  summary           \* the rows of the CSV summary, by node and port

files == <<report, flows, summary>>
vars == <<opts, phase, nextClientIndex, g_trafficSources, sinks, late, air, sent, stats, files>>

----------------------------------------------------------------------------
(* The applications: which way each stream goes, to which port, over what. *)

UpdateStart == 300

Up(p, t)   == [up |-> TRUE, port |-> p, proto |-> t, start |-> 0]
Down(p, t) == [up |-> FALSE, port |-> p, proto |-> t, start |-> 0]

Camera         == <<Up(9001, "udp")>>
Sensor         == <<Up(9002, "tcp")>>
VoiceAssistant == <<Up(9003, "tcp")>>
Download       == <<Down(9004, "tcp")>>
VoIP           == <<Up(9005, "udp"), Down(9006, "udp")>>
Domotics       == <<Up(9007, "udp")>>
Streaming      == <<Down(9008, "tcp")>>
Doorbell       == <<Up(9009, "tcp")>>
FirmwareUpdate == <<[Down(9010, "tcp") EXCEPT !.start = UpdateStart]>>
Monitoring     == <<Up(9011, "udp")>>

Applications == <<Camera, Sensor, VoiceAssistant, Download, VoIP, Domotics, Streaming, Doorbell,
                  FirmwareUpdate, Monitoring>>

\* The application at one end, and the endpoint <<node, port>> at the other.
Source(s, client, server) ==
  [from |-> IF s.up THEN client ELSE server,
   to |-> <<IF s.up THEN server ELSE client, s.port>>,
   proto |-> s.proto, start |-> s.start]

\* Mutant: a receiver is installed for every source.
InstallSinkIfNeeded_always(s, e, proto) ==
  [apps |-> Append(s.apps, [at |-> e, proto |-> proto, rx |-> 0]),
   map |-> [d \in DOMAIN s.map \cup {e} |-> IF d = e THEN Len(s.apps) + 1 ELSE s.map[d]]]

\* Mutant: a receiver is looked up by its port only.
InstallSinkIfNeeded_port(s, e, proto) ==
  IF \E d \in DOMAIN s.map : d[2] = e[2] THEN s
  ELSE InstallSinkIfNeeded_always(s, e, proto)

InstallSinkIfNeeded(s, e, proto) ==
  IF e \in DOMAIN s.map THEN s
  ELSE [apps |-> Append(s.apps, [at |-> e, proto |-> proto, rx |-> 0]),
        map |-> [d \in DOMAIN s.map \cup {e} |-> IF d = e THEN Len(s.apps) + 1 ELSE s.map[d]]]

Init ==
  /\ opts \in Options
  /\ phase = "deploy"
  /\ nextClientIndex = 0
  /\ g_trafficSources = <<>>
  /\ sinks = [apps |-> <<>>, map |-> <<>>]
  /\ late = FALSE
  /\ air = EmptyBag
  /\ sent = 0
  /\ stats = <<>>
  /\ report = <<>> /\ flows = <<>> /\ summary = <<>>

----------------------------------------------------------------------------
(* Deployment.                                                             *)

\* Mutant: a loop runs once too often.
Turn_closed(t) == nextClientIndex \in Clients(t - 1) .. Clients(t)

\* The loops over nextClientIndex, one type after the other.
Turn(t) == nextClientIndex \in Clients(t - 1) .. Clients(t) - 1

\* The sources of a client that runs application t.
Sources(t, client) ==
  [i \in DOMAIN Applications[t] |-> Source(Applications[t][i], client, Server(t))]

\* The receivers they need: one, or two for a conversation.
Receive(s, new) ==
  LET first == InstallSinkIfNeeded(s, new[1].to, new[1].proto)
  IN IF Len(new) = 1 THEN first ELSE InstallSinkIfNeeded(first, new[2].to, new[2].proto)

\* One call of a Configure function: its sources, then the receivers they need.
Configure(t) ==
  /\ phase = "deploy" /\ Turn(t)
  /\ LET new == Sources(t, nextClientIndex)
     IN /\ g_trafficSources' = g_trafficSources \o new
        /\ sinks' = Receive(sinks, new)
  /\ nextClientIndex' = nextClientIndex + 1
  /\ UNCHANGED <<opts, phase, late, air, sent, stats, files>>

\* FlowMonitor is installed if wanted, and the simulator runs.
Launch ==
  /\ phase = "deploy" /\ nextClientIndex = Clients(K_TYPES)
  /\ phase' = "run"
  /\ UNCHANGED <<opts, nextClientIndex, g_trafficSources, sinks, late, air, sent, stats, files>>

----------------------------------------------------------------------------
(* The run. Flows are FlowMonitor's five-tuples. ns-3 numbers the local     *)
(* ports of a node from 49153 on; here no two sources have the same.       *)

Flow(i) ==
  LET s == g_trafficSources[i]
  IN [src |-> s.from, sport |-> 49152 + i, dst |-> s.to[1], dport |-> s.to[2], proto |-> s.proto]

ReturnFlow(f) == [src |-> f.dst, sport |-> f.dport, dst |-> f.src, dport |-> f.sport, proto |-> f.proto]

Packet(f) == SetToBag({f})

Stat(st, f) == IF f \in DOMAIN st THEN st[f] ELSE [tx |-> 0, rx |-> 0, lost |-> 0, rxBytes |-> 0]

\* FlowMonitor adds d to its counters of flow f, if it is installed.
Count(st, f, d) ==
  IF ~opts.enableFlowMonitor THEN st
  ELSE LET c == Stat(st, f)
       IN [x \in DOMAIN st \cup {f} |->
             IF x = f THEN [tx |-> c.tx + d.tx, rx |-> c.rx + d.rx, lost |-> c.lost + d.lost,
                            rxBytes |-> c.rxBytes + d.rxBytes]
             ELSE st[x]]

\* What FlowMonitor counts of a packet: it left, it arrived with so many bytes, or
\* it was lost.
Tx        == [tx |-> 1, rx |-> 0, lost |-> 0, rxBytes |-> 0]
Rx(bytes) == [tx |-> 0, rx |-> 1, lost |-> 0, rxBytes |-> bytes]
Lost      == [tx |-> 0, rx |-> 0, lost |-> 1, rxBytes |-> 0]

Advance ==
  /\ phase = "run" /\ ~late /\ UpdateStart < opts.duration
  /\ late' = TRUE
  /\ UNCHANGED <<opts, phase, nextClientIndex, g_trafficSources, sinks, air, sent, stats, files>>

\* A source sends a packet, or sends one again, after its start time.
Send(i) ==
  /\ phase = "run" /\ sent < MaxSent /\ opts.duration > 0
  /\ g_trafficSources[i].start = 0 \/ late
  /\ sent' = sent + 1
  /\ air' = air (+) Packet(Flow(i))
  /\ stats' = Count(stats, Flow(i), Tx)
  /\ UNCHANGED <<opts, phase, nextClientIndex, g_trafficSources, sinks, late, files>>

\* The application that holds the port a flow is addressed to: the first bound.
Receivers(f) == {a \in DOMAIN sinks.apps : sinks.apps[a].at = <<f.dst, f.dport>>
                                           /\ sinks.apps[a].proto = f.proto}

\* The bytes of a packet: its headers and its data. FlowMonitor, at the IP layer,
\* counts both, a receiver only the data.
Headers == 1
Data    == 1

\* What a packet to a receiver brings, in bytes: to the receiver and to FlowMonitor.
\* A segment may also be a copy, or a bare one, to open or close a connection.
Carried(proto) ==
  {[data |-> Data, size |-> Headers + Data]}
    \cup IF proto = "udp" THEN {}
         ELSE {[data |-> 0, size |-> Headers], [data |-> 0, size |-> Headers + Data]}

\* A packet arrives: an acknowledgement, or one to a receiver. TCP acknowledges
\* a segment.
Deliver(f) ==
  /\ phase = "run" /\ BagIn(f, air)
  /\ \/ /\ Receivers(f) = {}
        /\ air' = air (-) Packet(f)
        /\ stats' = Count(stats, f, Rx(Headers))
        /\ UNCHANGED sinks
     \/ /\ Receivers(f) # {}
        /\ \E c \in Carried(f.proto) :
             /\ sinks' = [sinks EXCEPT !.apps[Min(Receivers(f))].rx = @ + c.data]
             /\ IF f.proto = "udp"
                THEN /\ air' = air (-) Packet(f)
                     /\ stats' = Count(stats, f, Rx(c.size))
                ELSE /\ air' = (air (-) Packet(f)) (+) Packet(ReturnFlow(f))
                     /\ stats' = Count(Count(stats, f, Rx(c.size)), ReturnFlow(f), Tx)
  /\ UNCHANGED <<opts, phase, nextClientIndex, g_trafficSources, late, sent, files>>

\* A packet is lost; FlowMonitor sees it only if the IP layer dropped it.
Lose(f) ==
  /\ phase = "run" /\ BagIn(f, air)
  /\ air' = air (-) Packet(f)
  /\ stats' = Count(stats, f, Lost) \/ stats' = stats
  /\ UNCHANGED <<opts, phase, nextClientIndex, g_trafficSources, sinks, late, sent, files>>

----------------------------------------------------------------------------
(* Metrics.                                                                *)

\* Mutant: a flow is matched by port only.
Matches_port(f, e) == f.dport = e[2] \/ f.sport = e[2]

\* The flow leads to the receiver, or is the return path of one that does.
Matches(f, e) == <<f.dst, f.dport>> = e \/ <<f.src, f.sport>> = e

\* FlowMonitor's counters, added up over the flows in M.
Total(st, M) == [tx   |-> SumFunction([f \in M |-> st[f].tx]),
                 rx   |-> SumFunction([f \in M |-> st[f].rx]),
                 lost |-> SumFunction([f \in M |-> st[f].lost]),
                 rxBytes |-> SumFunction([f \in M |-> st[f].rxBytes])]

\* The flows to a receiver.
To(st, e) == {f \in DOMAIN st : <<f.dst, f.dport>> = e}

Aggregate(st, e) == Total(st, {f \in DOMAIN st : Matches(f, e)})

\* In percent. The code subtracts unsigned numbers: tx is never below rx.
Loss(a) == IF a.tx > 0 THEN ((a.tx - a.rx) * 100) \div a.tx ELSE 0

\* A throughput is the quotient <<bytes, seconds>>, before rounding; over 0 seconds it
\* is not a number.
NoThroughput == <<0, 1>>

\* Mutant: sent packets are those of the way to the receiver only.
Row_mixed(st, e) ==
  LET received == sinks.apps[sinks.map[e]].rx
  IN [received |-> received, throughput |-> <<received, opts.duration>>,
      lossPct |-> Loss([Aggregate(st, e) EXCEPT !.tx = Total(st, To(st, e)).tx])]

\* A <Result> of the XML file: the throughput is that of the receiver's own bytes.
Row(st, e) ==
  LET received == sinks.apps[sinks.map[e]].rx
  IN [received |-> received, throughput |-> <<received, opts.duration>>,
      lossPct |-> Loss(Aggregate(st, e))]

\* Mutant: the summary leaves the return path out.
SummaryRow_oneWay(st, e) ==
  LET a == Total(st, To(st, e))
  IN [tx |-> a.tx, rx |-> a.rx, lost |-> a.lost, lossPct |-> Loss(a), rxBytes |-> a.rxBytes,
      throughput |-> IF opts.duration > 0 THEN <<a.rxBytes, opts.duration>> ELSE NoThroughput]

\* A line of the CSV summary: the throughput is that of all bytes FlowMonitor saw
\* arrive, headers and return path included, and 0 if the duration is.
SummaryRow(st, e) ==
  LET a == Aggregate(st, e)
  IN [tx |-> a.tx, rx |-> a.rx, lost |-> a.lost, lossPct |-> Loss(a), rxBytes |-> a.rxBytes,
      throughput |-> IF opts.duration > 0 THEN <<a.rxBytes, opts.duration>> ELSE NoThroughput]

\* From the first packet of each flow to its last: 0 unless it sent more than one.
Lasting(st) ==
  {span \in [DOMAIN st -> {0} \cup Spans] :
     \A f \in DOMAIN st : span[f] <= opts.duration /\ (st[f].tx <= 1 => span[f] = 0)}

\* A line of the CSV file: the throughput is over the time the flow itself lasted, 0
\* if it did not last.
FlowRow(st, f, span) ==
  [tx |-> st[f].tx, rx |-> st[f].rx, lost |-> st[f].lost, lossPct |-> Loss(st[f]),
   rxBytes |-> st[f].rxBytes,
   throughput |-> IF span[f] > 0 THEN <<st[f].rxBytes, span[f]>> ELSE NoThroughput]

\* The packets FlowMonitor saw leave and neither arrive nor be dropped.
Unaccounted(f) == stats[f].tx - stats[f].rx - stats[f].lost

\* The old ones among them, so many per flow.
Overdue == {old \in [DOMAIN stats -> 0 .. MaxSent] : \A f \in DOMAIN stats : old[f] <= Unaccounted(f)}

\* CheckForLostPackets gives them up.
CheckForLostPackets(old) ==
  [f \in DOMAIN stats |-> [stats[f] EXCEPT !.lost = @ + old[f]]]

CsvWanted == opts.enableCsv /\ opts.enableFlowMonitor

\* The simulator stops, whatever is on its way, and CalculateMetrics reports.
Measure ==
  /\ phase = "run"
  /\ \E old \in Overdue : stats' = CheckForLostPackets(old)
  /\ report' = [e \in DOMAIN sinks.map |-> Row(stats', e)]
  /\ \/ CsvWanted /\ \E span \in Lasting(stats') :
          /\ flows' = [f \in DOMAIN stats' |-> FlowRow(stats', f, span)]
          /\ summary' = [e \in DOMAIN sinks.map |-> SummaryRow(stats', e)]
     \/ ~CsvWanted /\ UNCHANGED <<flows, summary>>
  /\ phase' = "measured"
  /\ UNCHANGED <<opts, nextClientIndex, g_trafficSources, sinks, late, air, sent>>

Next ==
  \/ \E t \in 1 .. K_TYPES : Configure(t)
  \/ Launch \/ Advance \/ Measure
  \/ \E i \in DOMAIN g_trafficSources : Send(i)
  \/ \E f \in BagToSet(air) : Deliver(f) \/ Lose(f)

Spec == Init /\ [][Next]_vars

----------------------------------------------------------------------------
(* Properties.                                                             *)

Flows     == {Flow(i) : i \in DOMAIN g_trafficSources}
AllFlows  == Flows \cup {ReturnFlow(f) : f \in {f \in Flows : f.proto = "tcp"}}
Endpoints == (ClientNodes \cup ServerNodes) \X (9001 .. 9011)
Counter   == [tx : Nat, rx : Nat, lost : Nat, rxBytes : Nat]

\* The rows of the three files.
ResultRow == [received : Nat, throughput : Nat \X Nat, lossPct : Nat]
FlowsRow  == [tx : Nat, rx : Nat, lost : Nat, lossPct : Nat, rxBytes : Nat, throughput : Nat \X Nat]

TypeOK ==
  /\ opts \in [enableFlowMonitor : BOOLEAN, enableCsv : BOOLEAN, duration : Nat]
  /\ phase \in {"deploy", "run", "measured"}
  /\ nextClientIndex \in 0 .. N_EQUIPMENTS
  /\ g_trafficSources \in Seq([from : ClientNodes \cup ServerNodes, to : Endpoints,
                               proto : {"udp", "tcp"}, start : {0, UpdateStart}])
  /\ sinks = [apps |-> sinks.apps, map |-> sinks.map]
  /\ sinks.apps \in Seq([at : Endpoints, proto : {"udp", "tcp"}, rx : Nat])
  /\ DOMAIN sinks.map \subseteq Endpoints
  /\ \A e \in DOMAIN sinks.map : sinks.map[e] \in DOMAIN sinks.apps
  /\ late \in BOOLEAN /\ sent \in 0 .. MaxSent
  /\ IsABag(air) /\ BagToSet(air) \subseteq AllFlows
  /\ DOMAIN stats \subseteq AllFlows
  /\ \A f \in DOMAIN stats : stats[f] \in Counter
  /\ \A e \in DOMAIN report : report[e] \in ResultRow
  /\ \A f \in DOMAIN flows : flows[f] \in FlowsRow
  /\ \A e \in DOMAIN summary : summary[e] \in FlowsRow

\* Once the traffic runs, each source has exactly one receiver bound to the port
\* it sends to, over the same transport, and the metrics know that receiver:
\* sharing receivers between clients loses none and binds no port twice.
SourcesReachSinks ==
  phase # "deploy" =>
    \A i \in DOMAIN g_trafficSources :
      LET s == g_trafficSources[i]
          bound == {a \in DOMAIN sinks.apps : sinks.apps[a].at = s.to}
      IN /\ s.to \in DOMAIN sinks.map
         /\ bound = {sinks.map[s.to]}
         /\ sinks.apps[sinks.map[s.to]].proto = s.proto

\* NS_ASSERT after the loops, before the first packet: every client is used; and
\* each type got as many clients as planned, each talking to the server of that
\* type and to no other.
DeployedAsPlanned ==
  phase = "run" /\ sent = 0 =>
    LET g == g_trafficSources
        served == [t \in 1 .. K_TYPES |->
                     {g[i].from : i \in {i \in DOMAIN g : g[i].to[1] = Server(t)}}
                       \cup {g[i].to[1] : i \in {i \in DOMAIN g : g[i].from = Server(t)}}]
    IN /\ nextClientIndex = N_EQUIPMENTS
       /\ \A t \in 1 .. K_TYPES : Cardinality(served[t]) = Counts[t]
       /\ UNION Range(served) = ClientNodes

\* Every packet FlowMonitor counted is in exactly one row of the summary, with its
\* bytes, even where several clients share a port or a server: nothing is left out
\* and nothing is counted twice.
CountedOnce ==
  phase = "measured" /\ CsvWanted =>
    Total(summary, DOMAIN summary) = Total(stats, DOMAIN stats)

\* What a receiver says it received agrees with what FlowMonitor saw arrive: for
\* datagrams the two are equal, for segments the receiver counts at most those
\* of the way to it.
ReceiversAgreeWithFlows ==
  phase = "measured" /\ opts.enableFlowMonitor =>
    \A e \in DOMAIN report :
      LET arrived == Total(stats, To(stats, e)).rx
      IN IF sinks.apps[sinks.map[e]].proto = "udp" THEN report[e].received = arrived
                                                  ELSE report[e].received <= arrived

\* The unsigned difference of sent and received packets does not wrap around in
\* any row, with return paths added in and packets still on their way; and each
\* throughput is a number, except in the XML file of a simulation of no duration.
LossInRange ==
  phase = "measured" =>
    /\ \A e \in DOMAIN report :
         /\ report[e].lossPct \in 0 .. 100
         /\ report[e].throughput[2] = 0 => opts.duration = 0 /\ report[e].received = 0
    /\ \A f \in DOMAIN flows : flows[f].lossPct \in 0 .. 100 /\ flows[f].throughput[2] > 0
    /\ \A e \in DOMAIN summary :
         /\ summary[e].lossPct \in 0 .. 100 /\ summary[e].throughput[2] > 0
         /\ summary[e].lost <= summary[e].tx - summary[e].rx

\* One quotient is at most another.
AtMost(x, y) == x[1] * y[2] <= y[1] * x[2]

\* The rows of the flows that one line of the summary adds up.
Matched(e) == {f \in DOMAIN flows : e \in {<<f.dst, f.dport>>, <<f.src, f.sport>>}}

\* The three files give three throughputs, from other bytes and over other times. The
\* same receivers are in the XML file and in the summary; a line of the summary adds
\* up the lines of its flows; the throughput of the XML file is below that of the
\* summary, unless nothing arrived, as headers and acknowledgements are in the latter
\* only; and a flow, which sends for a part of the simulation, adds to the throughput
\* of the summary at most its own, unless it sent at one moment only and has none.
ThroughputsOrdered ==
  phase = "measured" /\ CsvWanted =>
    /\ DOMAIN summary = DOMAIN report
    /\ \A e \in DOMAIN report :
         /\ LET sum == Total(flows, Matched(e))
            IN /\ summary[e].tx = sum.tx /\ summary[e].rx = sum.rx
               /\ summary[e].lost = sum.lost /\ summary[e].rxBytes = sum.rxBytes
         /\ AtMost(report[e].throughput, summary[e].throughput)
         /\ opts.duration > 0 /\ summary[e].rxBytes > 0 =>
              ~AtMost(summary[e].throughput, report[e].throughput)
         /\ \A f \in Matched(e) :
              flows[f].throughput = NoThroughput
                \/ AtMost(<<flows[f].rxBytes, opts.duration>>, flows[f].throughput)

----------------------------------------------------------------------------
(* What every reachable state has in common: the invariant the proofs of   *)
(* the properties above rest on.                                           *)

\* The sources of the first n clients, where type t takes those from Clients(t - 1)
\* up to Clients(t).
Deployed ==
  [n \in 0 .. N_EQUIPMENTS |->
     UNION {Range(Sources(d[1], d[2])) :
              d \in {d \in (1 .. K_TYPES) \X (0 .. n - 1) : d[2] \in Clients(d[1] - 1) .. Clients(d[1]) - 1}}]

\* No client is left out, or deployed twice.
SourcesInv ==
  /\ nextClientIndex <= Clients(K_TYPES)
  /\ phase # "deploy" => nextClientIndex = Clients(K_TYPES)
  /\ Range(g_trafficSources) = Deployed[nextClientIndex]

\* The transport of the streams to a port.
Transport(port) == IF port \in {9001, 9005, 9006, 9007, 9011} THEN "udp" ELSE "tcp"

\* A receiver is in the map under its own endpoint and under no other, and every
\* source has one.
SinkInv ==
  /\ \A a \in DOMAIN sinks.apps :
       /\ sinks.apps[a].at \in DOMAIN sinks.map /\ sinks.map[sinks.apps[a].at] = a
       /\ sinks.apps[a].proto = Transport(sinks.apps[a].at[2])
  /\ \A e \in DOMAIN sinks.map :
       sinks.map[e] \in DOMAIN sinks.apps /\ sinks.apps[sinks.map[e]].at = e
  /\ \A i \in DOMAIN g_trafficSources : g_trafficSources[i].to \in DOMAIN sinks.map

\* A packet FlowMonitor counts as arrived or lost was counted as sent, and is not
\* on its way any more; there are no bytes without a packet.
FlowInv ==
  /\ phase = "deploy" => DOMAIN stats = {}
  /\ ~opts.enableFlowMonitor => DOMAIN stats = {}
  /\ IsFiniteSet(DOMAIN stats)
  /\ opts.enableFlowMonitor => DOMAIN air \subseteq DOMAIN stats
  /\ \A f \in DOMAIN stats :
       stats[f].rx + stats[f].lost
         + (IF phase # "measured" /\ f \in DOMAIN air THEN air[f] ELSE 0) <= stats[f].tx
  /\ \A f \in DOMAIN stats : stats[f].rx = 0 => stats[f].rxBytes = 0

\* A receiver counts the data of the datagrams FlowMonitor saw arrive at it, and of
\* segments at most that; FlowMonitor counts the headers of each packet as well.
\* Nothing at all arrives before the simulation, or if it has no duration.
ReceivedInv ==
  /\ opts.enableFlowMonitor =>
       \A e \in DOMAIN sinks.map :
         LET a == sinks.apps[sinks.map[e]]
             arrived == Total(stats, To(stats, e))
         IN /\ a.rx <= arrived.rx /\ (a.proto = "udp" => a.rx = arrived.rx)
            /\ a.rx + arrived.rx <= arrived.rxBytes
            /\ arrived.rx = 0 => arrived.rxBytes = 0
  /\ phase = "deploy" \/ opts.duration = 0 =>
       DOMAIN air = {} /\ \A a \in DOMAIN sinks.apps : sinks.apps[a].rx = 0

\* The reports are those of the last state of the counters, and the CSV files are
\* written only on request.
ReportInv ==
  /\ phase = "measured" => report = [e \in DOMAIN sinks.map |-> Row(stats, e)]
  /\ IF phase = "measured" /\ CsvWanted
     THEN /\ \E span \in Lasting(stats) :
                flows = [f \in DOMAIN stats |-> FlowRow(stats, f, span)]
          /\ summary = [e \in DOMAIN sinks.map |-> SummaryRow(stats, e)]
     ELSE flows = <<>> /\ summary = <<>>

HomeInv == TypeOK /\ SourcesInv /\ SinkInv /\ FlowInv /\ ReceivedInv /\ ReportInv
=============================================================================
