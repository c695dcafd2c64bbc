--------------------------- MODULE NetworkManager ---------------------------
(***************************************************************************)
(* Wi-Fi on the device (installer_ui/meterhub_ui/network_manager.py): a    *)
(* request to connect is a sequence of nmcli commands and, when they fail, *)
(* of wpa_cli commands (connect_network, app.py:1160).  Every command is a *)
(* subprocess.run() in an async function, so the event loop stands still   *)
(* between the first and the last.  NetworkManager is external.            *)
(*                                                                         *)
(*   net     "idle", or the command the request is at: "delete",           *)
(*           "connect", "wpa"                                              *)
(*   target  the network asked for (meaningful unless net = "idle")        *)
(*   saved   the networks NetworkManager has a working connection for      *)
(***************************************************************************)
EXTENDS Integers, Sequences, FiniteSets

CONSTANT SSIDs

ASSUME NetAssumption == SSIDs # {}

VARIABLES net, target, saved

netVars == <<net, target, saved>>

NetCommand == {"delete", "connect", "wpa"}
Blocked == net # "idle"

NetTypeOK ==
  /\ net \in NetCommand \cup {"idle"}
  /\ target \in SSIDs
  /\ saved \subseteq SSIDs

NetInit ==
  /\ net = "idle" /\ target = CHOOSE s \in SSIDs : TRUE
  /\ saved \in SUBSET SSIDs

NetIdle == net' = "idle" /\ target' = CHOOSE s \in SSIDs : TRUE

NetBegins ==
  /\ ~Blocked
  /\ net' = "delete" /\ target' \in SSIDs
  /\ UNCHANGED saved

\* `nmcli connection delete ssid': its result is ignored; no nmcli or a
\* timeout is an exception, and the request goes on with wpa_cli.  What nmcli
\* deletes is the connection of that name, which may be to any network.
NmDeletes ==
  /\ net = "delete"
  /\ net' \in {"connect", "wpa"}
  /\ saved' \in {saved} \cup {saved \ {s} : s \in SSIDs}
  /\ UNCHANGED target

\* `nmcli device wifi connect' returned 0: the request is answered.
NmConnects ==
  /\ net = "connect"
  /\ saved' = saved \cup {target}
  /\ NetIdle

\* Mutant of NmRefused: the return code is not looked at.
NmRefusedUnseen ==
  /\ net = "connect"
  /\ UNCHANGED saved
  /\ NetIdle

\* It returned something else (a wrong password, no such network), or ran
\* into its timeout, with NetworkManager still at it.
NmRefused ==
  /\ net = "connect"
  /\ net' = "wpa"
  /\ saved' \in {saved, saved \cup {target}}
  /\ UNCHANGED target

\* The five wpa_cli commands, whose results are not looked at: the answer is
\* True when all have ended, False when one cannot be run or times out.
\* wpa_supplicant's own configuration is not modelled.
WpaConnects ==
  /\ net = "wpa"
  /\ UNCHANGED saved
  /\ NetIdle

\* The installer's process ends in the middle of it.
NetStops == NetIdle /\ UNCHANGED saved

NetCommandEnds == NmDeletes \/ NmConnects \/ NmRefused \/ WpaConnects
NetAnswers == NmConnects \/ WpaConnects

-----------------------------------------------------------------------------
(* What a scan says of a network *)

Clamp(n) == IF n < 0 THEN 0 ELSE IF n > 100 THEN 100 ELSE n

\* Mutant of FreqToChannel: the 2.4 GHz band counted from its first channel.
FreqToChannelOff(mhz) ==
  IF mhz < 4000 THEN (mhz - 2412) \div 5 ELSE (mhz - 5000) \div 5

FreqToChannel(mhz) ==
  IF mhz < 4000 THEN (mhz - 2407) \div 5 ELSE (mhz - 5000) \div 5

\* _parse_frequency_mhz of a number: whole MHz, or GHz given in thousandths.
FrequencyMhz(thousandths) ==
  IF thousandths < 100000 THEN thousandths ELSE thousandths \div 1000

\* "-45" is dBm, "85" a percentage.
SignalStrength(value) ==
  IF value < 0 THEN Clamp(2 * (value + 100)) ELSE Clamp(value)

\* "35/70", rounded to a percentage; no two values of it are half-way.
SignalRatio(n, of) == IF of = 0 THEN 0 ELSE Clamp((200 * n + of) \div (2 * of))

Band(mhz) == IF mhz < 4000 THEN "2.4" ELSE "5"

Listed(cell) ==
  [ssid |-> cell.ssid, signal |-> cell.signal,
   channel |-> FreqToChannel(cell.frequency), band |-> Band(cell.frequency)]

NewCell(ssid, seen) == [ssid |-> ssid, signal |-> 0, frequency |-> 2400, seen |-> seen]

\* What the lines so far make: the networks before the one at hand, and that.
Networks(acc) ==
  IF acc.cell.seen THEN Append(acc.nets, Listed(acc.cell)) ELSE acc.nets

\* A line with a level may begin with "Quality=35/70", which then is read.
Strengths == {"Signal level", "Quality"}

Strength(l) ==
  IF l.key = "Quality" THEN SignalRatio(l.value, 70) ELSE SignalStrength(l.value)

\* iwlist gives a frequency in GHz, here in thousandths.
ParseLine(acc, l) ==
  CASE l.key = "ESSID" ->
         [nets |-> Networks(acc), cell |-> NewCell(l.value, TRUE)]
    [] l.key \in Strengths ->
         [acc EXCEPT !.cell = [@ EXCEPT !.signal = Strength(l), !.seen = TRUE]]
    [] l.key = "Frequency" ->
         [acc EXCEPT !.cell = [@ EXCEPT !.frequency = l.value, !.seen = TRUE]]

\* The loop over the lines, by how many of them it has seen.
ParseLines(lines) ==
  LET parsed[i \in 0 .. Len(lines)] ==
        IF i = 0 THEN [nets |-> <<>>, cell |-> NewCell("Unknown", FALSE)]
                 ELSE ParseLine(parsed[i - 1], lines[i])
  IN  parsed

\* Lines that raise: "Signal level:" with no "=", "Frequency=" with no ":", or
\* a value that is not a number.
Broken(lines) == \E i \in DOMAIN lines : lines[i].key = "Broken"

\* Mutant of ScanIwlist: the network at hand after the last line is dropped.
ScanIwlistShort(lines) ==
  IF Broken(lines) THEN <<>> ELSE ParseLines(lines)[Len(lines)].nets

\* _scan_iwlist: a network begins at its ESSID line, and the exception of one
\* line is the end of the scan.
ScanIwlist(lines) ==
  IF Broken(lines) THEN <<>> ELSE Networks(ParseLines(lines)[Len(lines)])

\* scan_networks of app.py: iwlist when nmcli lists nothing.
ScanNetworks(nmcli, lines) == IF nmcli # <<>> THEN nmcli ELSE ScanIwlist(lines)

-----------------------------------------------------------------------------
(* What iwlist prints of a cell: its frequency, its quality or signal level, *)
(* and only then its name; numbers may come out so that they cannot be taken *)
(* apart                                                                     *)

PrintedOf(names, numbers) ==
  LET broken == [key : {"Broken"}, value : names]
  IN  [frequency : [key : {"Frequency"}, value : numbers] \cup broken,
       level : [key : Strengths, value : numbers] \cup broken,
       essid : [key : {"ESSID"}, value : names]]

Printed(cells) ==
  [i \in 1 .. 3 * Len(cells) |->
     LET cell == cells[(i + 2) \div 3]
     IN  CASE i % 3 = 1 -> cell.frequency
           [] i % 3 = 2 -> cell.level
           [] i % 3 = 0 -> cell.essid]

\* The names of all cells, in their order, but each a place too late: the
\* first place is "Unknown"'s, and the strength, channel and band of a cell are
\* listed under the name of the one before it.
ListedLate(cells, listed) ==
  /\ Len(listed) = IF cells = <<>> THEN 0 ELSE Len(cells) + 1
  /\ cells # <<>> => listed[1].ssid = "Unknown"
  /\ \A k \in 1 .. Len(cells) :
       /\ listed[k + 1].ssid = cells[k].essid.value
       /\ listed[k].signal = Strength(cells[k].level)
       /\ listed[k].channel = FreqToChannel(cells[k].frequency.value)
       /\ listed[k].band = Band(cells[k].frequency.value)

\* What comes of cells that may have a broken line.
CellsListed(cells, listed) ==
  IF \E k \in DOMAIN cells : "Broken" \in {cells[k].frequency.key, cells[k].level.key}
  THEN listed = <<>>
  ELSE ListedLate(cells, listed)
=============================================================================
