------------------------------ MODULE MeterBus ------------------------------
(***************************************************************************)
(* The two users of the serial device and the Modbus clients they hold:    *)
(* the polls of the acquisition service (_poll_meter, main.py) and the     *)
(* scans of the installer's meter tester (meter_tester.py), which run in   *)
(* processes of their own and know nothing of each other.                  *)
(*                                                                         *)
(*   pollGood   the last poll produced a reading                           *)
(*   mode       the tester's scan: "test" probes the configured setting,   *)
(*              "baud" and "device" every one, "slave" up to the first     *)
(*              that answers; "with" stands for a caller that uses the     *)
(*              client as a context manager; "none" when nothing runs      *)
(*   found      the settings the scan reports as working                   *)
(*   disturbed  history: something other than a wrong setting made an      *)
(*              exchange of this scan fail                                 *)
(***************************************************************************)
EXTENDS ModbusClient, FiniteSetsExt

CONSTANTS
  Service, Tester,   \* the two clients
  Default,           \* the setting the profile gives and slave_id=1
  Critical           \* registers a reading cannot do without

ASSUME BusAssumption ==
  /\ Clients = {Service, Tester} /\ Service # Tester
  /\ Default \in Settings /\ Critical \subseteq Regs

VARIABLES pollGood, mode, found, disturbed

testVars == <<mode, found, disturbed>>
vars == <<busVars, pollGood, testVars>>

Modes == {"test", "baud", "slave", "device", "with"}
Once == {"test", "with"}

Init ==
  /\ BusInit
  /\ setting = [c \in Clients |-> Default]
  /\ pollGood = FALSE
  /\ mode = "none" /\ found = {} /\ disturbed = FALSE

-----------------------------------------------------------------------------
(* The acquisition service *)

\* _poll_meter: `if not self.modbus_client.connected: await connect()'
PollBegins ==
  /\ pc[Service] = "idle"
  /\ pc' = [pc EXCEPT ![Service] = IF connected[Service] THEN "try" ELSE "connect"]
  /\ BeginCall(Service, NumRegs)
  /\ UNCHANGED <<line, connected, port, setting, pollGood, testVars>>

PollConnects ==
  /\ pc[Service] = "connect" /\ Connects(Service)
  /\ pc' = [pc EXCEPT ![Service] = "try"]
  /\ UNCHANGED <<line, setting, call, pollGood, testVars>>

\* "Cannot connect to Modbus device": no reading this time.
PollRefused ==
  /\ pc[Service] = "connect" /\ ConnectRefused(Service)
  /\ CallReturns(Service)
  /\ pollGood' = FALSE
  /\ UNCHANGED <<line, setting, testVars>>

\* Registers that failed are left out; without a critical one there is no
\* reading.
PollEnds ==
  /\ pc[Service] = "done"
  /\ pollGood' = \A r \in Critical : result[Service][r] = "ok"
  /\ CallReturns(Service)
  /\ UNCHANGED <<line, connected, port, setting, testVars>>

\* The service is stopped or killed, and started again with a new client.
ServiceRestarts ==
  /\ Disconnect(Service)
  /\ CallReturns(Service)
  /\ pollGood' = FALSE
  /\ UNCHANGED <<line, setting, testVars>>

-----------------------------------------------------------------------------
(* The meter tester *)

FirstOf(m) == IF m \in Once THEN Default ELSE 1

\* test_baud_rates reads the first register only, a connectivity test the
\* preferred ones of the profile.
Depth(m) == IF m = "baud" THEN 1 ELSE NumRegs

\* A new ModbusRTUClient for the setting, and its connect().
Probe(m, s) ==
  /\ mode' = m
  /\ setting' = [setting EXCEPT ![Tester] = s]
  /\ pc' = [pc EXCEPT ![Tester] = "connect"]
  /\ BeginCall(Tester, Depth(m))

ScanBegins ==
  /\ mode = "none"
  /\ \E m \in Modes : Probe(m, FirstOf(m))
  /\ UNCHANGED <<line, connected, port, pollGood, found, disturbed>>

ScanConnects ==
  /\ pc[Tester] = "connect" /\ Connects(Tester)
  /\ pc' = [pc EXCEPT ![Tester] = "try"]
  /\ UNCHANGED <<line, setting, call, pollGood, testVars>>

\* Mutant of MoreToProbe: the scan for slave ids does not stop at the first.
MoreToProbeAlways(hits) == mode \notin Once /\ setting[Tester] < NumSettings

\* Mutant of MoreToProbe: one setting past the last is probed.
MoreToProbePast(hits) ==
  /\ mode \notin Once /\ setting[Tester] <= NumSettings
  /\ ~(mode = "slave" /\ hits # {})

\* `break  # Stop on first successful connection' in the slave-id scan only.
MoreToProbe(hits) ==
  /\ mode \notin Once /\ setting[Tester] < NumSettings
  /\ ~(mode = "slave" /\ hits # {})

\* Mutant of ScanGoesOn: a setting that does not answer is probed again.
ScanGoesOnRetrying(hits) ==
  \/ /\ hits = found
     /\ Probe(mode, setting[Tester])
     /\ UNCHANGED found
  \/ /\ hits # found
     /\ CallReturns(Tester)
     /\ mode' = "none" /\ found' = {}
     /\ setting' = [setting EXCEPT ![Tester] = Default]

\* One result is recorded; the loop goes on or the scan returns its findings.
ScanGoesOn(hits) ==
  \/ /\ MoreToProbe(hits)
     /\ Probe(mode, setting[Tester] + 1)
     /\ found' = hits
  \/ /\ ~MoreToProbe(hits)
     /\ CallReturns(Tester)
     /\ mode' = "none" /\ found' = {}
     /\ setting' = [setting EXCEPT ![Tester] = Default]

\* "Failed to connect to device"
ScanRefused ==
  /\ pc[Tester] = "connect" /\ mode # "with" /\ ConnectRefused(Tester)
  /\ ScanGoesOn(found)
  /\ disturbed' = (mode' # "none")
  /\ UNCHANGED <<line, pollGood>>

\* __aenter__ does not look at what connect() returned.
EnterRefused ==
  /\ pc[Tester] = "connect" /\ mode = "with" /\ ConnectRefused(Tester)
  /\ pc' = [pc EXCEPT ![Tester] = "try"]
  /\ disturbed' = TRUE
  /\ UNCHANGED <<line, setting, call, pollGood, mode, found>>

\* registers_read > 0
Success == \E r \in Regs : result[Tester][r] = "ok"

\* Mutant of Hits: connected stands for the outcome of the test.
HitsConnected == IF connected[Tester] THEN found \cup {setting[Tester]} ELSE found

\* What the scan has found once the probe at hand is over.
Hits == IF Success THEN found \cup {setting[Tester]} ELSE found

\* Mutant of ProbeEnds: the client is closed only when a register was read.
ProbeEndsLeaks ==
  /\ pc[Tester] = "done"
  /\ IF Success THEN Disconnect(Tester) ELSE UNCHANGED <<connected, port>>
  /\ ScanGoesOn(Hits)
  /\ disturbed' = (disturbed /\ mode' # "none")
  /\ UNCHANGED <<line, pollGood>>

ProbeEnds ==
  /\ pc[Tester] = "done"
  /\ Disconnect(Tester)
  /\ ScanGoesOn(Hits)
  /\ disturbed' = (disturbed /\ mode' # "none")
  /\ UNCHANGED <<line, pollGood>>

-----------------------------------------------------------------------------
\* A failing exchange disturbs a scan unless the setting was wrong.
ClientReads(c) ==
  /\ ReadStep(c)
  /\ disturbed' = (disturbed \/ (/\ c = Tester /\ pc[c] = "try"
                                 /\ setting[c] \in Answers
                                 /\ result'[c][reg[c]] # "ok"))
  /\ UNCHANGED <<pollGood, mode, found>>

PymodbusReopens(c) == Reopens(c) /\ UNCHANGED <<pollGood, testVars>>
LineChanges == LineStep /\ UNCHANGED <<pollGood, testVars>>

ServiceStep ==
  PollBegins \/ PollConnects \/ PollRefused \/ PollEnds \/ ClientReads(Service)
TesterStep ==
  ScanConnects \/ ScanRefused \/ EnterRefused \/ ProbeEnds \/ ClientReads(Tester)

Next ==
  \/ ServiceStep \/ ServiceRestarts
  \/ ScanBegins \/ TesterStep
  \/ \E c \in Clients : PymodbusReopens(c)
  \/ LineChanges

Spec == Init /\ [][Next]_vars

\* The event loops of the two processes run, and a lost port that no other
\* process holds is reopened.
FairSpec ==
  /\ Spec
  /\ WF_vars(ServiceStep) /\ WF_vars(TesterStep)
  /\ \A c \in Clients : WF_vars(~OtherHolds(c) /\ PymodbusReopens(c))

-----------------------------------------------------------------------------
(* Properties *)

TypeOK ==
  /\ BusTypeOK
  /\ pollGood \in BOOLEAN
  /\ mode \in Modes \cup {"none"}
  /\ found \subseteq Settings /\ disturbed \in BOOLEAN

\* The longest a register can take: every attempt times out.
PerRegister == Attempts * Timeout + Backoff[1] + Backoff[2]

\* The registers of one reading are read one after the other, with retries,
\* and stamped with one time (main.py:146): the first and the last are never
\* further apart than this, however the line behaves and whoever else is on
\* it.  One connect() may come on top.
ReadingBounded ==
  \A c \in Clients : spent[c] <= goal[c] * PerRegister + Timeout

\* `connected' is set by connect() and cleared only by disconnect(), so it
\* stays TRUE when the adapter is gone (modbus_client.py:105).  It is never
\* TRUE without pymodbus holding the port or reopening it: a client that
\* believes it is connected is not stranded.
NeverStranded == \A c \in Clients : connected[c] <=> port[c] # "closed"

\* A test leaves nothing behind: once it has returned, its process neither
\* holds the serial device nor keeps reopening it under the acquisition
\* service (meter_tester.py:137, 265).
PortReleased == mode = "none" => port[Tester] = "closed"

\* A scan reports a baud rate, slave id or device only if the meter answers
\* there, whatever happens on the line while it runs.
ScanSound == found \subseteq Answers

\* A scan that nothing disturbed finds what there is to find: the configured
\* setting, every one that answers, or the first for slave ids.
ToFind(m) ==
  CASE m \in Once  -> Answers \cap {Default}
    [] m = "slave" -> IF Answers = {} THEN {} ELSE {Min(Answers)}
    [] OTHER       -> Answers

ScanComplete ==
  [][ (mode # "none" /\ mode' = "none" /\ pc[Tester] = "done" /\ ~disturbed)
        => Hits = ToFind(mode) ]_vars

\* The sign of a number is that of its high word.  Words of 3 and 4 bits have
\* the same boundaries as those of 16.
WordsInTwosComplement ==
  \A w \in {8, 16} : \A high, low \in 0 .. w - 1 :
    \A type \in {"uint16", "int16", "uint32", "int32"} :
      Decode(type, Raw(type, high, low, w), w)
        = LET top == IF type \in Signed /\ 2 * high >= w THEN high - w ELSE high
          IN  IF type \in Single THEN top ELSE top * w + low

\* Whatever words a register that was read held, the number made of them is
\* their two's complement value, at every boundary (modbus_client.py:308-314).
DecodedInTwosComplement ==
  (\E c \in Clients : \E r \in Regs : result[c][r] = "ok") => WordsInTwosComplement

\* A test always returns: with the adapter gone, the meter silent, the port
\* held by the service or taken away half-way.
TestReturns == mode # "none" ~> mode = "none"

\* Once the adapter stays, the meter answers, no test runs and the service is
\* not restarted any more, every poll from some time on produces a reading,
\* though `connected' was never cleared in between.
ReadingsResume ==
  (/\ <>[](plugged /\ answering /\ mode = "none")
   /\ <>[][~ServiceRestarts]_vars) => <>[]pollGood
=============================================================================
