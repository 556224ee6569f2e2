---------------------------- MODULE TraceDataset ----------------------------
(***************************************************************************)
(* From the captures of a simulation to the classifier: pcap_to_dataset.py *)
(* turns the trace files into rows of one application and one time window  *)
(* each, train_classifier.py learns from them. Sizes and the gaps between  *)
(* packets are left out of a row; its packet counts are kept.              *)
(***************************************************************************)
EXTENDS Integers, Sequences, SequencesExt

CONSTANTS
  Files,     \* the trace files there may be
  Packets,   \* what a packet can be: [ip, proto, sport, dport, time]
  MaxLength, \* bound: packets in a trace file
  MaxRuns    \* bound: simulations

ASSUME DatasetAssumption ==
  /\ \A p \in Packets : p.ip \in BOOLEAN /\ p.proto \in {"udp", "tcp", "icmp"} /\ p.time \in Nat
  /\ Files # {} /\ MaxLength \in Nat /\ MaxRuns \in Nat

CHUNK_SIZE == 5

PORT_TO_LABEL == [p \in 9001 .. 9010 |-> p - 9000]

LABEL_MAP == <<"Camera", "Capteur", "Assistant", "Download", "VoIP", "Domotique", "Streaming",
               "Sonnette", "Firmware", "Monitoring">>

\* The applications the simulation runs on each port.
PORT_TO_APP == 9001 :> "Camera" @@ 9002 :> "Capteur" @@ 9003 :> "Assistant" @@ 9004 :> "Download"
  @@ 9005 :> "VoIP" @@ 9006 :> "VoIP" @@ 9007 :> "Domotique" @@ 9008 :> "Streaming"
  @@ 9009 :> "Sonnette" @@ 9010 :> "Firmware" @@ 9011 :> "Monitoring"

VARIABLES
  traces,        \* the trace files present and their packets
  broken,        \* those PcapReader cannot open
  runs,          \* how many simulations there were
  pc,            \* "idle", "open", "read" or "fill"
  todo,          \* pcap_files not opened yet
  file, pos,     \* the file being read, and the next packet in it
  flows,         \* the packet counts of that file, by label and window
  final_dataset,
  csv,           \* dataset_ml_features.csv: "missing", "empty", "header", "part" or "rows"
  rows,          \* and its complete rows
  model          \* "none", "refused", "raised" or "trained"

vars == <<traces, broken, runs, pc, todo, file, pos, flows, final_dataset, csv, rows, model>>

NoFlows == [k \in {} |-> 0]

Init ==
  /\ traces = <<>> /\ broken = {} /\ runs = 0
  /\ pc = "idle" /\ todo = {} /\ file = (CHOOSE f \in Files : TRUE) /\ pos = 1
  /\ flows = NoFlows /\ final_dataset = {}
  /\ csv = "missing" /\ rows = {} /\ model = "none"

----------------------------------------------------------------------------
\* A simulation replaces the trace files; a killed one leaves broken ones.
Simulate ==
  /\ pc = "idle" /\ runs < MaxRuns
  /\ \E fs \in SUBSET Files : \E bad \in SUBSET fs :
       /\ traces' \in [fs -> SeqOf(Packets, MaxLength)]
       /\ broken' = bad
  /\ runs' = runs + 1
  /\ model' = "none"
  /\ UNCHANGED <<pc, todo, file, pos, flows, final_dataset, csv, rows>>

\* process_pcap_files returns at once if there is no trace file.
Glob ==
  /\ pc = "idle" /\ DOMAIN traces # {}
  /\ pc' = "open" /\ todo' = DOMAIN traces /\ final_dataset' = {}
  /\ UNCHANGED <<traces, broken, runs, file, pos, flows, csv, rows, model>>

\* Mutant: "except: pass": the table of the file before is taken for this one's.
SkipFile_pass(f) ==
  /\ pc = "open" /\ f \in todo \cap broken
  /\ todo' = todo \ {f} /\ file' = f /\ pos' = Len(traces[f]) + 1
  /\ pc' = "read"
  /\ UNCHANGED <<traces, broken, runs, flows, final_dataset, csv, rows, model>>

\* "except: continue"
SkipFile(f) ==
  /\ pc = "open" /\ f \in todo \cap broken
  /\ todo' = todo \ {f}
  /\ UNCHANGED <<traces, broken, runs, pc, file, pos, flows, final_dataset, csv, rows, model>>

\* Mutant: the dictionary of the file before is kept.
OpenFile_keep(f) ==
  /\ pc = "open" /\ f \in todo \ broken
  /\ todo' = todo \ {f} /\ file' = f /\ pos' = 1
  /\ pc' = "read"
  /\ UNCHANGED <<traces, broken, runs, flows, final_dataset, csv, rows, model>>

\* The files come in the order of glob, which is any.
OpenFile(f) ==
  /\ pc = "open" /\ f \in todo \ broken
  /\ todo' = todo \ {f} /\ file' = f /\ pos' = 1 /\ flows' = NoFlows
  /\ pc' = "read"
  /\ UNCHANGED <<traces, broken, runs, final_dataset, csv, rows, model>>

\* The label of the destination port, else of the source port, if there is one.
Label(p) ==
  IF p.dport \in DOMAIN PORT_TO_LABEL THEN {PORT_TO_LABEL[p.dport]}
  ELSE {PORT_TO_LABEL[q] : q \in {p.sport} \cap DOMAIN PORT_TO_LABEL}

\* The row of a packet, by label and window, if it has one.
KeysOf(p) == {<<l, p.time \div CHUNK_SIZE>> : l \in Label(p)}

\* The dictionary with one packet more.
Added(d, p) ==
  [k \in DOMAIN d \cup KeysOf(p) |->
     LET old == IF k \in DOMAIN d THEN d[k] ELSE [all |-> 0, tcp |-> 0]
     IN IF k \notin KeysOf(p) THEN old
        ELSE [all |-> old.all + 1, tcp |-> old.tcp + IF p.proto = "tcp" THEN 1 ELSE 0]]

\* One packet; anything but TCP and UDP over IP, and other ports, are passed over.
ReadPacket ==
  /\ pc = "read" /\ pos <= Len(traces[file])
  /\ LET p == traces[file][pos]
     IN flows' = IF ~p.ip \/ p.proto = "icmp" THEN flows ELSE Added(flows, p)
  /\ pos' = pos + 1
  /\ UNCHANGED <<traces, broken, runs, pc, todo, file, final_dataset, csv, rows, model>>

\* The end of a file: a row for each label and window seen in it.
Aggregate ==
  /\ pc = "read" /\ pos > Len(traces[file])
  /\ final_dataset' = final_dataset \cup
       {[file |-> file, label |-> k[1], chunk |-> k[2], all |-> flows[k].all, tcp |-> flows[k].tcp] :
          k \in DOMAIN flows}
  /\ pc' = "open"
  /\ UNCHANGED <<traces, broken, runs, todo, file, pos, flows, csv, rows, model>>

\* The converter ends, and its variables with it.
Leave ==
  /\ pc' = "idle"
  /\ todo' = {} /\ pos' = 1 /\ flows' = NoFlows /\ final_dataset' = {}
  /\ UNCHANGED <<traces, broken, runs, file, model>>

\* After the last file: without a row the old dataset stays where it is.
LeaveDataset ==
  /\ pc = "open" /\ todo = {} /\ final_dataset = {}
  /\ Leave
  /\ UNCHANGED <<csv, rows>>

Truncate ==
  /\ pc = "open" /\ todo = {} /\ final_dataset # {}
  /\ pc' = "fill" /\ csv' = "empty" /\ rows' = {}
  /\ UNCHANGED <<traces, broken, runs, todo, file, pos, flows, final_dataset, model>>

\* A piece of the buffered text reaches the file: within the first line ("header"), or
\* to anywhere in or after a row ("part"). Which rows come first is the order of glob.
Flush ==
  /\ pc = "fill"
  /\ \/ csv # "part" /\ csv' = "header" /\ UNCHANGED rows
     \/ csv' = "part" /\ \E more \in SUBSET final_dataset : rows' = rows \cup more
  /\ UNCHANGED <<traces, broken, runs, pc, todo, file, pos, flows, final_dataset, model>>

\* The rest reaches the file when it is closed.
Fill ==
  /\ pc = "fill"
  /\ csv' = "rows" /\ rows' = rows \cup final_dataset
  /\ Leave

\* The converter is killed, or an exception (a full disk) ends it.
Die ==
  /\ pc # "idle"
  /\ Leave
  /\ UNCHANGED <<csv, rows>>

\* train_test_split with stratify and a test share of one fifth: it raises for a
\* class with a single row, and for a part too small to hold every class.
Splits ==
  LET classes == Cardinality({r.label : r \in rows})
      tested  == (Cardinality(rows) + 4) \div 5
  IN /\ \A r \in rows : \E s \in rows \ {r} : s.label = r.label
     /\ classes <= tested /\ classes <= Cardinality(rows) - tested

\* Every class has a row in the tested part, however its rows are dealt out.
Reported ==
  LET tested == (Cardinality(rows) + 4) \div 5
  IN \A r \in rows :
       Cardinality({s \in rows : s.label = r.label}) * tested >= Cardinality(rows)

\* train_model. A file without even a header makes read_csv raise, one without rows is
\* refused, and the report raises if the forest predicts a class of which no row is
\* tested. A file that was cut off may end with a fragment of a row, which read_csv
\* takes for one with missing columns: alone it cannot be split, and with others it
\* may be learnt from.
Train ==
  /\ pc = "idle"
  /\ model' \in CASE csv = "missing" -> {"refused"}
                  [] csv = "empty" -> {"raised"}
                  [] csv = "header" -> {"refused"}
                  [] csv = "part" -> {"raised"} \cup IF rows = {} THEN {} ELSE {"trained"}
                  [] csv = "rows" /\ ~Splits -> {"raised"}
                  [] csv = "rows" /\ Splits -> {"trained"} \cup IF Reported THEN {} ELSE {"raised"}
  /\ UNCHANGED <<traces, broken, runs, pc, todo, file, pos, flows, final_dataset, csv, rows>>

Next ==
  \/ Simulate \/ Glob \/ ReadPacket \/ Aggregate \/ LeaveDataset \/ Truncate \/ Flush
  \/ Fill \/ Die \/ Train
  \/ \E f \in Files : SkipFile(f) \/ OpenFile(f)

Spec == Init /\ [][Next]_vars

----------------------------------------------------------------------------
(* Properties.                                                             *)

Row == [file : Files, label : 1 .. 10, chunk : Nat, all : Nat \ {0}, tcp : Nat]

TypeOK ==
  /\ DOMAIN traces \subseteq Files /\ broken \subseteq DOMAIN traces /\ runs \in 0 .. MaxRuns
  /\ \A f \in DOMAIN traces : traces[f] \in Seq(Packets) /\ Len(traces[f]) <= MaxLength
  /\ pc \in {"idle", "open", "read", "fill"}
  /\ todo \subseteq DOMAIN traces
  /\ file \in Files /\ pos \in 1 .. MaxLength + 1
  /\ DOMAIN flows \subseteq (1 .. 10) \X Nat
  /\ \A k \in DOMAIN flows : flows[k].all \in 1 .. MaxLength /\ flows[k].tcp \in 0 .. flows[k].all
  /\ final_dataset \subseteq Row /\ rows \subseteq Row
  /\ csv \in {"missing", "empty", "header", "part", "rows"}
  /\ csv \in {"missing", "empty", "header"} => rows = {}
  /\ model \in {"none", "refused", "raised", "trained"}

\* The packets of a file that belong in the row of a label and a window: TCP and
\* UDP packets of the port of that label, in either direction.
Belonging(f, l, c) ==
  {i \in DOMAIN traces[f] :
     LET p == traces[f][i]
     IN /\ p.ip /\ p.proto \in {"udp", "tcp"} /\ p.time \div CHUNK_SIZE = c
        /\ \/ p.dport = 9000 + l
           \/ p.sport = 9000 + l /\ p.dport \notin 9001 .. 9010}

Windows == {p.time \div CHUNK_SIZE : p \in Packets}

Exact(f, l, c) ==
  [file |-> f, label |-> l, chunk |-> c, all |-> Cardinality(Belonging(f, l, c)),
   tcp |-> Cardinality({i \in Belonging(f, l, c) : traces[f][i].proto = "tcp"})]

\* What a finished conversion of the present traces should give: one row for each
\* readable file, label and window with a packet in it, and the exact counts.
Expected ==
  {Exact(x[1], x[2], x[3]) : x \in {x \in (DOMAIN traces \ broken) \X (1 .. 10) \X Windows :
                                       Belonging(x[1], x[2], x[3]) # {}}}

\* Whenever the dataset changes, its complete rows are exact rows of the traces present,
\* and once it is written to the end it has all of them: files read in any order,
\* unreadable ones between them and kills, even in the middle of the writing, leave no
\* doubled, foreign or wrong row, and what was written is never taken back before the
\* end. And a conversion that ends without touching the dataset of earlier traces,
\* which the classifier then learns from, has looked at every file and found no row.
DatasetExact ==
  [][/\ rows' # rows => rows' \subseteq Expected
     /\ csv' # csv /\ csv' = "rows" => rows' = Expected
     /\ pc = "fill" => rows \subseteq rows'
     /\ LeaveDataset => Expected = {}]_vars

----------------------------------------------------------------------------
(* What every reachable state has in common: the invariant the proof of    *)
(* DatasetExact rests on.                                                  *)

\* The packets of a label and a window, k, among the first m of a file.
Passed(f, k, m) == {i \in Belonging(f, k[1], k[2]) : i <= m}

\* How many packets those are, and how many of them are TCP.
Counted(f, S) ==
  [all |-> Cardinality(S), tcp |-> Cardinality({i \in S : traces[f][i].proto = "tcp"})]

\* What the dictionary of a file holds after m packets.
Tally(f, m) ==
  [k \in {k \in (1 .. 10) \X Windows : Passed(f, k, m) # {}} |-> Counted(f, Passed(f, k, m))]

\* The files whose rows are still to come.
Pending == todo \cup IF pc = "read" THEN {file} ELSE {}

\* The dictionary counts the packets read so far, of the file at hand alone, and the
\* dataset has the exact rows of the readable files that are behind; what has reached
\* the file while it is written are some of them.
ConverterInv ==
  /\ pc \in {"idle", "fill"} => todo = {}
  /\ pc = "read" =>
       /\ file \in DOMAIN traces \ (broken \cup todo) /\ pos <= Len(traces[file]) + 1
       /\ flows = Tally(file, pos - 1)
  /\ pc # "idle" => final_dataset = {r \in Expected : r.file \notin Pending}
  /\ pc = "fill" => csv \in {"empty", "header", "part"} /\ rows \subseteq final_dataset

DatasetInv == TypeOK /\ ConverterInv

----------------------------------------------------------------------------
(* What a comment says, and the code does not do.                          *)

\* Comment at line 19 of pcap_to_dataset.py: an exact mapping of the ports to the
\* labels. So the name LABEL_MAP gives a row's label is the application that
\* sends on the row's port.
LabelsNameApplications ==
  \A r \in rows : LABEL_MAP[r.label] = PORT_TO_APP[9000 + r.label]
=============================================================================
