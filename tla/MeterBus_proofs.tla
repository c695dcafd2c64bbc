--------------------------- MODULE MeterBus_proofs ---------------------------
(***************************************************************************)
(* Theorems about the serial device and its two users, for every number of *)
(* registers, line settings and durations.                                 *)
(*                                                                         *)
(* The argument: `connected' and pymodbus's port change together in every  *)
(* step but a refused connect(), and connect() is only called by a client  *)
(* that is not connected.  The tester's pc is "idle" exactly when no scan  *)
(* runs, so nothing of it moves between scans.  The time a reading takes is *)
(* bounded by what the registers before, the attempts before and the one   *)
(* connect() can have taken.                                               *)
(***************************************************************************)
EXTENDS MeterBus, TLAPS

CountInv == \A c \in Clients :
  /\ pc[c] \in {"connect", "try", "backoff"} => reg[c] <= goal[c]
  /\ pc[c] = "backoff" => try[c] < Attempts

ConnectInv == \A c \in Clients : pc[c] = "connect" => ~connected[c]
IdleInv == mode = "none" => pc[Tester] = "idle"
AnswerInv == \A c \in Clients, r \in Regs : result[c][r] = "ok" => setting[c] \in Answers

PortInv == NeverStranded /\ PortReleased /\ ConnectInv /\ IdleInv

-----------------------------------------------------------------------------
LEMMA Constants ==
  /\ Attempts = 3 /\ Timeout \in Nat /\ Delays \subseteq Nat
  /\ \A d \in Delays : d <= Timeout
  /\ Backoff[1] \in Nat /\ Backoff[2] \in Nat /\ Backoff[3] \in Nat
  /\ NumRegs \in Nat /\ NumRegs > 0
  /\ Service \in Clients /\ Tester \in Clients /\ Service # Tester
  /\ Clients = {Service, Tester}
  /\ Default \in Settings /\ 1 \in Settings /\ NumSettings \in Nat
  /\ 1 \in Regs /\ NumRegs \in Regs
  BY ModbusAssumption, BusAssumption DEF Attempts, Settings, Regs

\* A call that begins or returns is typed, whatever client makes it.
LEMMA BeginCallType ==
  ASSUME BusTypeOK, NEW c \in Clients, NEW n \in Regs, BeginCall(c, n)
  PROVE  /\ reg' \in [Clients -> 1 .. NumRegs + 1] /\ goal' \in [Clients -> Regs]
         /\ try' \in [Clients -> 1 .. Attempts]
         /\ result' \in [Clients -> [Regs -> Outcome]]
         /\ spent' \in [Clients -> Nat]
  <1>1. 1 \in 1 .. NumRegs + 1 /\ 1 \in 1 .. Attempts /\ 0 \in Nat
    BY Constants
  <1>2. Unread \in [Regs -> Outcome]
    BY DEF Unread, Outcome
  <1> QED
    BY <1>1, <1>2 DEF BusTypeOK, BeginCall

\* So are its counts, and those of the other client.
LEMMA BeginCallCounts ==
  ASSUME BusTypeOK, CountInv, NEW c \in Clients, NEW n \in Regs, BeginCall(c, n),
         NEW x \in {"idle", "connect", "try"}, pc' = [pc EXCEPT ![c] = x]
  PROVE  CountInv' /\ pc' \in [Clients -> Pc]
  <1>1. reg'[c] = 1 /\ goal'[c] = n /\ pc'[c] = x /\ 1 <= n
    BY DEF BeginCall, BusTypeOK, Regs
  <1>2. \A d \in Clients \ {c} :
          pc'[d] = pc[d] /\ reg'[d] = reg[d] /\ goal'[d] = goal[d] /\ try'[d] = try[d]
    BY DEF BeginCall, BusTypeOK
  <1>3. CountInv'
    BY <1>1, <1>2 DEF CountInv
  <1>4. pc' \in [Clients -> Pc]
    BY DEF BusTypeOK, Pc
  <1> QED
    BY <1>3, <1>4

\* read_register returning keeps the types and the counts.
LEMMA RegisterDoneType ==
  ASSUME BusTypeOK, CountInv, NEW c \in Clients, pc[c] = "try",
         NEW o \in {"ok", "failed"}, RegisterDone(c, o)
  PROVE  /\ reg' \in [Clients -> 1 .. NumRegs + 1] /\ goal' \in [Clients -> Regs]
         /\ try' \in [Clients -> 1 .. Attempts]
         /\ result' \in [Clients -> [Regs -> Outcome]]
         /\ pc' \in [Clients -> Pc]
         /\ CountInv'
  <1>1. reg[c] \in Nat /\ goal[c] \in Nat /\ reg[c] <= goal[c] /\ goal[c] <= NumRegs
        /\ reg[c] >= 1
    BY Constants DEF BusTypeOK, CountInv, Regs
  <1>2. reg' \in [Clients -> 1 .. NumRegs + 1] /\ try' \in [Clients -> 1 .. Attempts]
    BY <1>1, Constants DEF BusTypeOK, RegisterDone
  <1>3. result' \in [Clients -> [Regs -> Outcome]]
    BY DEF BusTypeOK, RegisterDone, Outcome
  <1>4. pc' \in [Clients -> Pc]
    BY DEF BusTypeOK, RegisterDone, Pc
  <1>5. CountInv'
    <2> SUFFICES ASSUME NEW d \in Clients
                 PROVE  /\ pc'[d] \in {"connect", "try", "backoff"} => reg'[d] <= goal'[d]
                        /\ pc'[d] = "backoff" => try'[d] < Attempts
      BY DEF CountInv
    <2>1. CASE d = c
      <3>1. /\ pc'[c] = IF reg[c] = goal[c] THEN "done" ELSE "try"
            /\ reg'[c] = reg[c] + 1 /\ goal'[c] = goal[c]
        BY DEF BusTypeOK, RegisterDone
      <3> QED
        BY <2>1, <3>1, <1>1
    <2>2. CASE d # c
      BY <2>2 DEF BusTypeOK, RegisterDone, CountInv
    <2> QED
      BY <2>1, <2>2
  <1> QED
    BY <1>2, <1>3, <1>4, <1>5 DEF RegisterDone, BusTypeOK

LEMMA AttemptFailsType ==
  ASSUME BusTypeOK, CountInv, NEW c \in Clients, pc[c] = "try", AttemptFails(c)
  PROVE  /\ reg' \in [Clients -> 1 .. NumRegs + 1] /\ goal' \in [Clients -> Regs]
         /\ try' \in [Clients -> 1 .. Attempts]
         /\ result' \in [Clients -> [Regs -> Outcome]]
         /\ pc' \in [Clients -> Pc]
         /\ CountInv'
  <1>1. CASE RegisterDone(c, "failed")
    BY <1>1, RegisterDoneType
  <1>2. CASE /\ try[c] < Attempts
             /\ pc' = [pc EXCEPT ![c] = "backoff"]
             /\ UNCHANGED <<reg, goal, try, result>>
    BY <1>2 DEF BusTypeOK, CountInv, Pc
  <1> QED
    BY <1>1, <1>2 DEF AttemptFails

LEMMA TakesType ==
  ASSUME BusTypeOK, NEW c \in Clients, Takes(c)
  PROVE  spent' \in [Clients -> Nat]
  BY Constants DEF BusTypeOK, Takes

\* connect() and disconnect() keep the types of what they change.
LEMMA PortType ==
  ASSUME BusTypeOK, NEW c \in Clients,
         Connects(c) \/ ConnectRefused(c) \/ Disconnect(c)
  PROVE  /\ connected' \in [Clients -> BOOLEAN]
         /\ port' \in [Clients -> {"closed", "open", "lost"}]
  BY DEF BusTypeOK, Connects, ConnectRefused, Disconnect

-----------------------------------------------------------------------------
LEMMA ReadStepType ==
  ASSUME BusTypeOK, CountInv, NEW c \in Clients, ReadStep(c)
  PROVE  BusTypeOK' /\ CountInv'
  <1>1. CASE TryConnects(c)
    BY <1>1, PortType, TakesType DEF TryConnects, BusTypeOK, CountInv, line, Connects
  <1>2. CASE TryRefused(c)
    <2>1. connected' \in [Clients -> BOOLEAN]
          /\ port' \in [Clients -> {"closed", "open", "lost"}]
      BY <1>2, PortType DEF TryRefused
    <2>2. spent' \in [Clients -> Nat]
      BY <1>2, TakesType DEF TryRefused
    <2> QED
      BY <1>2, <2>1, <2>2, AttemptFailsType DEF TryRefused, BusTypeOK, line
  <1>3. CASE ReadOk(c)
    <2>1. spent' \in [Clients -> Nat]
      BY <1>3, TakesType DEF ReadOk
    <2> QED
      BY <1>3, <2>1, RegisterDoneType DEF ReadOk, BusTypeOK, line
  <1>4. CASE ReadFails(c)
    <2>1. spent' \in [Clients -> Nat]
      BY <1>4, TakesType DEF ReadFails
    <2>2. port' \in [Clients -> {"closed", "open", "lost"}]
      BY <1>4 DEF ReadFails, BusTypeOK
    <2> QED
      BY <1>4, <2>1, <2>2, AttemptFailsType DEF ReadFails, BusTypeOK, line
  <1>5. CASE BackoffEnds(c)
    <2>1. try[c] \in 1 .. 2
      BY <1>5, Constants DEF BackoffEnds, CountInv, BusTypeOK
    <2>2. spent' \in [Clients -> Nat] /\ try' \in [Clients -> 1 .. Attempts]
      BY <1>5, <2>1, Constants DEF BackoffEnds, BusTypeOK
    <2>3. pc' \in [Clients -> Pc]
      BY <1>5 DEF BackoffEnds, BusTypeOK, Pc
    <2>4. CountInv'
      BY <1>5 DEF BackoffEnds, BusTypeOK, CountInv
    <2> QED
      BY <1>5, <2>2, <2>3, <2>4 DEF BackoffEnds, BusTypeOK, line
  <1> QED
    BY <1>1, <1>2, <1>3, <1>4, <1>5 DEF ReadStep

\* The tester's probes and what follows them.
LEMMA ScanGoesOnType ==
  ASSUME TypeOK, CountInv, NEW hits \in SUBSET Settings, ScanGoesOn(hits)
  PROVE  /\ reg' \in [Clients -> 1 .. NumRegs + 1] /\ goal' \in [Clients -> Regs]
         /\ try' \in [Clients -> 1 .. Attempts]
         /\ result' \in [Clients -> [Regs -> Outcome]]
         /\ spent' \in [Clients -> Nat]
         /\ setting' \in [Clients -> Settings]
         /\ pc' \in [Clients -> Pc]
         /\ mode' \in Modes \cup {"none"} /\ found' \subseteq Settings
         /\ CountInv'
  <1>0. BusTypeOK /\ Tester \in Clients
    BY Constants DEF TypeOK
  <1>1. CASE MoreToProbe(hits) /\ Probe(mode, setting[Tester] + 1) /\ found' = hits
    <2>1. Depth(mode) \in Regs
      BY Constants DEF Depth
    <2>2. BeginCall(Tester, Depth(mode)) /\ pc' = [pc EXCEPT ![Tester] = "connect"]
      BY <1>1 DEF Probe
    <2>3. setting[Tester] + 1 \in Settings
      BY <1>1, Constants DEF MoreToProbe, TypeOK, BusTypeOK, Settings
    <2>4. setting' \in [Clients -> Settings]
      BY <1>1, <2>3, Constants DEF Probe, TypeOK, BusTypeOK
    <2>5. CountInv' /\ pc' \in [Clients -> Pc]
      BY <1>0, <2>1, <2>2, BeginCallCounts
    <2>6. mode' \in Modes \cup {"none"} /\ found' \subseteq Settings
      BY <1>1 DEF Probe, TypeOK
    <2> QED
      BY <1>0, <2>1, <2>2, <2>4, <2>5, <2>6, BeginCallType
  <1>2. CASE /\ ~MoreToProbe(hits) /\ CallReturns(Tester)
             /\ mode' = "none" /\ found' = {}
             /\ setting' = [setting EXCEPT ![Tester] = Default]
    <2>1. /\ BeginCall(Tester, NumRegs) /\ NumRegs \in Regs
          /\ pc' = [pc EXCEPT ![Tester] = "idle"]
      BY <1>2, Constants DEF CallReturns
    <2>2. setting' \in [Clients -> Settings]
      BY <1>2, Constants DEF TypeOK, BusTypeOK
    <2>3. CountInv' /\ pc' \in [Clients -> Pc]
      BY <1>0, <2>1, BeginCallCounts
    <2> QED
      BY <1>0, <1>2, <2>1, <2>2, <2>3, BeginCallType
  <1> QED
    BY <1>1, <1>2 DEF ScanGoesOn

\* What the scan finds are settings.
LEMMA HitsType ==
  ASSUME TypeOK
  PROVE  Hits \in SUBSET Settings
  BY Constants DEF Hits, TypeOK, BusTypeOK

\* Every step keeps the types and the counts.
LEMMA TypeStep ==
  ASSUME TypeOK, CountInv, [Next]_vars
  PROVE  TypeOK' /\ CountInv'
  <1>0. BusTypeOK
    BY DEF TypeOK
  <1>1. CASE PollBegins
    <2>1. BeginCall(Service, NumRegs) /\ NumRegs \in Regs /\ Service \in Clients
      BY <1>1, Constants DEF PollBegins
    <2>2. PICK x \in {"try", "connect"} : pc' = [pc EXCEPT ![Service] = x]
      BY <1>1 DEF PollBegins
    <2>3. CountInv' /\ pc' \in [Clients -> Pc]
      BY <1>0, <2>1, <2>2, BeginCallCounts
    <2> QED
      BY <1>1, <1>0, <2>1, <2>3, BeginCallType
         DEF PollBegins, TypeOK, BusTypeOK, line, testVars
  <1>2. CASE PollConnects
    <2>1. connected' \in [Clients -> BOOLEAN]
          /\ port' \in [Clients -> {"closed", "open", "lost"}]
      BY <1>2, <1>0, Constants, PortType DEF PollConnects
    <2>2. pc' \in [Clients -> Pc]
      BY <1>2 DEF PollConnects, TypeOK, BusTypeOK, Pc
    <2>3. CountInv'
      BY <1>2 DEF PollConnects, TypeOK, BusTypeOK, CountInv, call
    <2> QED
      BY <1>2, <2>1, <2>2, <2>3 DEF PollConnects, TypeOK, BusTypeOK, line, call, testVars
  <1>3. ASSUME pollGood' \in BOOLEAN, CallReturns(Service),
               connected' \in [Clients -> BOOLEAN],
               port' \in [Clients -> {"closed", "open", "lost"}],
               UNCHANGED <<line, setting, testVars>>
        PROVE  TypeOK' /\ CountInv'
    <2>1. BeginCall(Service, NumRegs) /\ NumRegs \in Regs /\ Service \in Clients
      BY <1>3, Constants DEF CallReturns
    <2>2. CountInv' /\ pc' \in [Clients -> Pc]
      BY <1>0, <1>3, <2>1, BeginCallCounts DEF CallReturns
    <2> QED
      BY <1>3, <1>0, <2>1, <2>2, BeginCallType DEF TypeOK, BusTypeOK, line, testVars
  <1>4. CASE PollRefused
    BY <1>4, <1>3, <1>0, PortType, Constants DEF PollRefused
  <1>5. CASE PollEnds
    BY <1>5, <1>3, <1>0 DEF PollEnds, BusTypeOK
  <1>6. CASE ServiceRestarts
    BY <1>6, <1>3, <1>0, PortType, Constants DEF ServiceRestarts
  <1>7. CASE ScanBegins
    <2>1. PICK m \in Modes : Probe(m, FirstOf(m))
      BY <1>7 DEF ScanBegins
    <2>2. Depth(m) \in Regs /\ FirstOf(m) \in Settings
      BY Constants DEF Depth, FirstOf
    <2>3. BeginCall(Tester, Depth(m)) /\ pc' = [pc EXCEPT ![Tester] = "connect"]
      BY <2>1 DEF Probe
    <2>4. setting' \in [Clients -> Settings] /\ mode' \in Modes
      BY <2>1, <2>2, Constants DEF Probe, TypeOK, BusTypeOK
    <2>5. CountInv' /\ pc' \in [Clients -> Pc]
      BY <1>0, <2>2, <2>3, Constants, BeginCallCounts
    <2> QED
      BY <1>7, <1>0, <2>2, <2>3, <2>4, <2>5, BeginCallType, Constants
         DEF ScanBegins, TypeOK, BusTypeOK, line
  <1>8. CASE ScanConnects
    <2>1. connected' \in [Clients -> BOOLEAN]
          /\ port' \in [Clients -> {"closed", "open", "lost"}]
      BY <1>8, <1>0, Constants, PortType DEF ScanConnects
    <2>2. pc' \in [Clients -> Pc]
      BY <1>8 DEF ScanConnects, TypeOK, BusTypeOK, Pc
    <2>3. CountInv'
      BY <1>8 DEF ScanConnects, TypeOK, BusTypeOK, CountInv, call
    <2> QED
      BY <1>8, <2>1, <2>2, <2>3 DEF ScanConnects, TypeOK, BusTypeOK, line, call, testVars
  <1>9. ASSUME NEW hits \in SUBSET Settings, ScanGoesOn(hits),
               connected' \in [Clients -> BOOLEAN],
               port' \in [Clients -> {"closed", "open", "lost"}],
               disturbed' \in BOOLEAN, UNCHANGED <<line, pollGood>>
        PROVE  TypeOK' /\ CountInv'
    BY <1>9, ScanGoesOnType DEF TypeOK, BusTypeOK, line
  <1>10. CASE ScanRefused
    BY <1>10, <1>9, <1>0, PortType, Constants DEF ScanRefused, TypeOK
  <1>11. CASE EnterRefused
    <2>1. connected' \in [Clients -> BOOLEAN]
          /\ port' \in [Clients -> {"closed", "open", "lost"}]
      BY <1>11, <1>0, Constants, PortType DEF EnterRefused
    <2>2. pc' \in [Clients -> Pc]
      BY <1>11 DEF EnterRefused, TypeOK, BusTypeOK, Pc
    <2>3. CountInv'
      BY <1>11 DEF EnterRefused, TypeOK, BusTypeOK, CountInv, call
    <2> QED
      BY <1>11, <2>1, <2>2, <2>3 DEF EnterRefused, TypeOK, BusTypeOK, line, call
  <1>12. CASE ProbeEnds
    <2>1. connected' \in [Clients -> BOOLEAN]
          /\ port' \in [Clients -> {"closed", "open", "lost"}]
      BY <1>12, <1>0, Constants, PortType DEF ProbeEnds
    <2>2. disturbed' \in BOOLEAN
      BY <1>12 DEF ProbeEnds, TypeOK
    <2> QED
      BY <1>12, <2>1, <2>2, <1>9, HitsType DEF ProbeEnds
  <1>13. ASSUME NEW c \in Clients, ClientReads(c)
         PROVE  TypeOK' /\ CountInv'
    <2>1. BusTypeOK' /\ CountInv'
      BY <1>0, <1>13, ReadStepType DEF ClientReads
    <2>2. disturbed' \in BOOLEAN
      BY <1>13 DEF ClientReads, TypeOK
    <2> QED
      BY <1>13, <2>1, <2>2 DEF ClientReads, TypeOK
  <1>14. ASSUME NEW c \in Clients, PymodbusReopens(c)
         PROVE  TypeOK' /\ CountInv'
    BY <1>14 DEF PymodbusReopens, Reopens, TypeOK, BusTypeOK, CountInv, line, call, testVars
  <1>15. CASE LineChanges
    BY <1>15 DEF LineChanges, LineStep, Unplug, Plug, MeterChanges,
                 TypeOK, BusTypeOK, CountInv, call, testVars
  <1>16. CASE UNCHANGED vars
    BY <1>16 DEF vars, busVars, line, call, testVars, TypeOK, BusTypeOK, CountInv
  <1> QED
    BY <1>1, <1>2, <1>4, <1>5, <1>6, <1>7, <1>8, <1>10, <1>11, <1>12, <1>13,
       <1>14, <1>15, <1>16, Constants DEF Next, ServiceStep, TesterStep

LEMMA TypeInit ==
  ASSUME Init
  PROVE  TypeOK /\ CountInv
  <1>1. /\ 1 \in 1 .. NumRegs + 1 /\ NumRegs \in Regs /\ 1 \in 1 .. Attempts
        /\ Default \in Settings /\ 0 \in Nat
    BY Constants
  <1>2. Unread \in [Regs -> Outcome]
    BY DEF Unread, Outcome
  <1>3. BusTypeOK
    BY <1>1, <1>2 DEF Init, BusInit, BusTypeOK, Pc
  <1> QED
    BY <1>3 DEF Init, BusInit, TypeOK, CountInv

\* TypeOK: the variables keep their types, and no register, attempt or line
\* setting is ever counted past its range.
THEOREM TypeCorrect == Spec => []TypeOK
  <1>1. Init => TypeOK /\ CountInv
    BY TypeInit
  <1>2. TypeOK /\ CountInv /\ [Next]_vars => (TypeOK /\ CountInv)'
    BY TypeStep
  <1> QED
    BY <1>1, <1>2, PTL DEF Spec

-----------------------------------------------------------------------------
(* NeverStranded and PortReleased *)

LEMMA PortInit ==
  ASSUME Init
  PROVE  PortInv
  BY Constants DEF Init, BusInit, PortInv, NeverStranded, PortReleased, ConnectInv, IdleInv

\* The steps of a call keep the port and the flag together.
LEMMA PortRead ==
  ASSUME BusTypeOK, PortInv, NEW c \in Clients, ClientReads(c)
  PROVE  PortInv'
  <1>1. pc[c] \in {"try", "backoff"} /\ mode' = mode
    BY DEF ClientReads, ReadStep, TryConnects, TryRefused, ReadOk, ReadFails, BackoffEnds
  <1>2. c = Tester => mode # "none"
    BY <1>1 DEF PortInv, IdleInv
  <1>3. /\ pc'[c] \in {"try", "backoff", "done"}
        /\ pc' = [pc EXCEPT ![c] = pc'[c]]
    BY DEF ClientReads, ReadStep, TryConnects, TryRefused, ReadOk, ReadFails,
           BackoffEnds, AttemptFails, RegisterDone, BusTypeOK
  <1>4. /\ connected' = [connected EXCEPT ![c] = connected'[c]]
        /\ port' = [port EXCEPT ![c] = port'[c]]
        /\ connected'[c] <=> port'[c] # "closed"
    <2> USE DEF BusTypeOK, PortInv, NeverStranded
    <2>1. CASE TryConnects(c)
      BY <2>1 DEF TryConnects, Connects
    <2>2. CASE TryRefused(c)
      BY <2>2 DEF TryRefused, ConnectRefused
    <2>3. CASE ReadFails(c)
      BY <2>3 DEF ReadFails
    <2>4. CASE ReadOk(c) \/ BackoffEnds(c)
      BY <2>4 DEF ReadOk, BackoffEnds
    <2> QED
      BY <2>1, <2>2, <2>3, <2>4 DEF ClientReads, ReadStep
  <1>5. NeverStranded' /\ ConnectInv'
    BY <1>3, <1>4 DEF PortInv, NeverStranded, ConnectInv, BusTypeOK
  <1>6. PortReleased' /\ IdleInv'
    BY <1>1, <1>2, <1>3, <1>4, Constants DEF PortInv, PortReleased, IdleInv, BusTypeOK
  <1> QED
    BY <1>5, <1>6 DEF PortInv

LEMMA PortStep ==
  ASSUME TypeOK, PortInv, [Next]_vars
  PROVE  PortInv'
  <1>0. BusTypeOK /\ Service # Tester /\ Service \in Clients /\ Tester \in Clients
    BY Constants DEF TypeOK
  <1> USE DEF PortInv, NeverStranded, PortReleased, ConnectInv, IdleInv, BusTypeOK
  <1>1. CASE PollBegins
    BY <1>0, <1>1 DEF PollBegins, testVars
  <1>2. CASE PollConnects
    BY <1>0, <1>2 DEF PollConnects, Connects, testVars
  <1>3. CASE PollRefused
    BY <1>0, <1>3 DEF PollRefused, ConnectRefused, CallReturns, testVars
  <1>4. CASE PollEnds
    BY <1>0, <1>4 DEF PollEnds, CallReturns, testVars
  <1>5. CASE ServiceRestarts
    BY <1>0, <1>5 DEF ServiceRestarts, Disconnect, CallReturns, testVars
  <1>6. CASE ScanBegins
    BY <1>0, <1>6 DEF ScanBegins, Probe, Modes
  <1>7. CASE ScanConnects
    BY <1>0, <1>7 DEF ScanConnects, Connects, testVars
  <1>8. ASSUME mode # "none", NEW hits, ScanGoesOn(hits),
               ~connected'[Tester], port'[Tester] = "closed",
               \A c \in Clients \ {Tester} :
                 connected'[c] = connected[c] /\ port'[c] = port[c]
        PROVE  PortInv'
    BY <1>0, <1>8 DEF ScanGoesOn, Probe, CallReturns
  <1>9. CASE ScanRefused
    <2>1. ~connected'[Tester] /\ port'[Tester] = "closed" /\ mode # "none"
      BY <1>0, <1>9 DEF ScanRefused, ConnectRefused
    <2>2. \A c \in Clients \ {Tester} :
            connected'[c] = connected[c] /\ port'[c] = port[c]
      BY <1>0, <1>9 DEF ScanRefused, ConnectRefused
    <2> QED
      BY <1>8, <1>9, <2>1, <2>2 DEF ScanRefused
  <1>10. CASE EnterRefused
    BY <1>0, <1>10 DEF EnterRefused, ConnectRefused
  <1>11. CASE ProbeEnds
    <2>1. ~connected'[Tester] /\ port'[Tester] = "closed" /\ mode # "none"
      BY <1>0, <1>11 DEF ProbeEnds, Disconnect
    <2>2. \A c \in Clients \ {Tester} :
            connected'[c] = connected[c] /\ port'[c] = port[c]
      BY <1>0, <1>11 DEF ProbeEnds, Disconnect
    <2> QED
      BY <1>8, <1>11, <2>1, <2>2 DEF ProbeEnds
  <1>12. ASSUME NEW c \in Clients, ClientReads(c)
         PROVE  PortInv'
    BY <1>0, <1>12, PortRead
  <1>13. ASSUME NEW c \in Clients, PymodbusReopens(c)
         PROVE  PortInv'
    BY <1>0, <1>13 DEF PymodbusReopens, Reopens, testVars
  <1>14. CASE LineChanges
    BY <1>0, <1>14 DEF LineChanges, LineStep, Unplug, Plug, MeterChanges, testVars
  <1>15. CASE UNCHANGED vars
    BY <1>0, <1>15 DEF vars, busVars, testVars
  <1> QED
    BY <1>1, <1>2, <1>3, <1>4, <1>5, <1>6, <1>7, <1>9, <1>10, <1>11, <1>12,
       <1>13, <1>14, <1>15, Constants DEF Next, ServiceStep, TesterStep

LEMMA PortsAccountedFor == Spec => []PortInv
  <1>1. Init => PortInv
    BY PortInit
  <1>2. TypeOK /\ PortInv /\ [Next]_vars => PortInv'
    BY PortStep
  <1> QED
    BY <1>1, <1>2, TypeCorrect, PTL DEF Spec

\* NeverStranded: no client believes it is connected while pymodbus neither
\* holds nor reopens its port, though `connected' is not cleared when the
\* adapter goes.
THEOREM NoClientStranded == Spec => []NeverStranded
  <1>1. PortInv => NeverStranded
    BY DEF PortInv
  <1> QED
    BY <1>1, PortsAccountedFor, PTL

\* PortReleased: a test that has returned, whatever failed in it, leaves the
\* serial device to the acquisition service.
THEOREM TestsReleasePort == Spec => []PortReleased
  <1>1. PortInv => PortReleased
    BY DEF PortInv
  <1> QED
    BY <1>1, PortsAccountedFor, PTL

-----------------------------------------------------------------------------
(* ScanSound *)

SoundInv == AnswerInv /\ ScanSound

LEMMA SoundInit ==
  ASSUME Init
  PROVE  SoundInv
  BY Constants DEF Init, BusInit, SoundInv, AnswerInv, ScanSound, Unread

\* Results are kept, or forgotten, of one client at a time.
LEMMA AnswersKept ==
  ASSUME BusTypeOK, AnswerInv, NEW c \in Clients,
         result' = [result EXCEPT ![c] = Unread],
         \A d \in Clients \ {c} : setting'[d] = setting[d]
  PROVE  AnswerInv'
  BY DEF BusTypeOK, AnswerInv, Unread

LEMMA SoundStep ==
  ASSUME TypeOK, SoundInv, [Next]_vars
  PROVE  SoundInv'
  <1>0. BusTypeOK /\ AnswerInv /\ Service \in Clients /\ Tester \in Clients
    BY Constants DEF TypeOK, SoundInv
  <1>1. ASSUME UNCHANGED <<result, setting, found>>
        PROVE  SoundInv'
    BY <1>1 DEF SoundInv, AnswerInv, ScanSound
  <1>2. ASSUME BeginCall(Service, NumRegs), UNCHANGED <<setting, found>>
        PROVE  SoundInv'
    BY <1>0, <1>2, AnswersKept DEF SoundInv, ScanSound, BeginCall
  <1>3. CASE PollBegins
    BY <1>2, <1>3 DEF PollBegins, testVars
  <1>4. CASE PollConnects
    BY <1>1, <1>4 DEF PollConnects, call, testVars
  <1>5. CASE PollRefused \/ PollEnds \/ ServiceRestarts
    BY <1>2, <1>5 DEF PollRefused, PollEnds, ServiceRestarts, CallReturns, testVars
  <1>6. CASE ScanBegins
    <2>1. PICK m \in Modes : Probe(m, FirstOf(m))
      BY <1>6 DEF ScanBegins
    <2>2. \A d \in Clients \ {Tester} : setting'[d] = setting[d]
      BY <1>0, <2>1 DEF Probe, BusTypeOK
    <2> QED
      BY <1>0, <1>6, <2>1, <2>2, AnswersKept
         DEF ScanBegins, SoundInv, ScanSound, Probe, BeginCall
  <1>7. CASE ScanConnects
    BY <1>1, <1>7 DEF ScanConnects, call, testVars
  <1>8. ASSUME NEW hits \in SUBSET Answers, ScanGoesOn(hits)
        PROVE  SoundInv'
    <2>1. result' = [result EXCEPT ![Tester] = Unread] /\ found' \subseteq Answers
      BY <1>8 DEF ScanGoesOn, Probe, CallReturns, BeginCall
    <2>2. \A d \in Clients \ {Tester} : setting'[d] = setting[d]
      BY <1>0, <1>8 DEF ScanGoesOn, Probe, BusTypeOK
    <2> QED
      BY <1>0, <2>1, <2>2, AnswersKept DEF SoundInv, ScanSound
  <1>9. CASE ScanRefused
    BY <1>8, <1>9 DEF ScanRefused, SoundInv, ScanSound
  <1>10. CASE EnterRefused
    BY <1>1, <1>10 DEF EnterRefused, call
  <1>11. CASE ProbeEnds
    <2>1. Hits \subseteq Answers
      BY <1>0 DEF SoundInv, AnswerInv, ScanSound, Hits, Success
    <2> QED
      BY <1>8, <1>11, <2>1 DEF ProbeEnds
  <1>12. ASSUME NEW c \in Clients, ClientReads(c)
         PROVE  SoundInv'
    <2>0. UNCHANGED <<setting, found>>
      BY <1>12 DEF ClientReads, ReadStep, TryConnects, TryRefused, ReadOk, ReadFails,
                   BackoffEnds
    <2>1. CASE UNCHANGED result
      BY <1>1, <2>0, <2>1
    <2>2. ASSUME NEW o, RegisterDone(c, o), o = "ok" => setting[c] \in Answers
          PROVE  SoundInv'
      <3>1. \A d \in Clients, r \in Regs :
              result'[d][r] = "ok" => result[d][r] = "ok" \/ (d = c /\ o = "ok")
        BY <2>2, <1>0 DEF RegisterDone, BusTypeOK
      <3> QED
        BY <2>0, <2>2, <3>1 DEF SoundInv, AnswerInv, ScanSound
    <2>3. CASE AttemptFails(c)
      BY <2>1, <2>2, <2>3 DEF AttemptFails
    <2>4. CASE ReadOk(c)
      BY <2>2, <2>4 DEF ReadOk
    <2> QED
      BY <1>12, <2>1, <2>3, <2>4
         DEF ClientReads, ReadStep, TryConnects, TryRefused, ReadFails, BackoffEnds
  <1>13. ASSUME NEW c \in Clients, PymodbusReopens(c)
         PROVE  SoundInv'
    BY <1>1, <1>13 DEF PymodbusReopens, Reopens, call, testVars
  <1>14. CASE LineChanges
    BY <1>1, <1>14 DEF LineChanges, LineStep, Unplug, Plug, MeterChanges, call, testVars
  <1>15. CASE UNCHANGED vars
    BY <1>1, <1>15 DEF vars, busVars, call, testVars
  <1> QED
    BY <1>3, <1>4, <1>5, <1>6, <1>7, <1>9, <1>10, <1>11, <1>12,
       <1>13, <1>14, <1>15, Constants DEF Next, ServiceStep, TesterStep

\* ScanSound: whatever happens on the line while it runs, a scan reports only
\* settings at which the meter answers.
THEOREM ScansAreSound == Spec => []ScanSound
  <1>1. Init => SoundInv
    BY SoundInit
  <1>2. TypeOK /\ SoundInv /\ [Next]_vars => SoundInv'
    BY SoundStep
  <1>3. SoundInv => ScanSound
    BY DEF SoundInv
  <1> QED
    BY <1>1, <1>2, <1>3, TypeCorrect, PTL DEF Spec

-----------------------------------------------------------------------------
(* ScanComplete *)

Probed == setting[Tester]
UpTo(n) == Answers \cap 1 .. n

\* What a scan that nothing has disturbed knows at the setting it probes: of
\* the settings before it, those that answer; of the registers before the one
\* at hand, all, if the setting answers.
KnowsBefore ==
  /\ mode \in Once => Probed = Default /\ found = {}
  /\ mode \in {"baud", "device"} => found = UpTo(Probed - 1)
  /\ mode = "slave" => found = {} /\ UpTo(Probed - 1) = {}

ReadsAll ==
  Probed \in Answers => \A r \in Regs : r < reg[Tester] => result[Tester][r] = "ok"

CompleteInv ==
  /\ mode = "none" => found = {}
  /\ pc[Tester] = "done" => reg[Tester] > 1
  /\ mode # "none" /\ ~disturbed => KnowsBefore /\ ReadsAll

LEMMA CompleteInit ==
  ASSUME Init
  PROVE  CompleteInv
  BY Constants DEF Init, BusInit, CompleteInv

\* Nothing is known, and nothing has to be, of the settings before the first.
LEMMA UpToGrows ==
  /\ UpTo(0) = {} /\ UpTo(NumSettings) = Answers
  /\ \A s \in Settings : UpTo(s) = UpTo(s - 1) \cup (Answers \cap {s})
  <1>1. UpTo(0) = {} /\ UpTo(NumSettings) = Answers
    <2>1. 1 .. 0 = {}
      OBVIOUS
    <2> QED
      BY <2>1, ModbusAssumption DEF UpTo
  <1>2. ASSUME NEW s \in Settings
        PROVE  UpTo(s) = UpTo(s - 1) \cup (Answers \cap {s})
    <2>1. s \in Nat /\ s >= 1
      BY Constants DEF Settings
    <2>2. 1 .. s = (1 .. s - 1) \cup {s}
      BY <2>1
    <2> QED
      BY <2>2 DEF UpTo
  <1> QED
    BY <1>1, <1>2

\* A probe that was not disturbed tells whether the meter answers.
LEMMA ProbeTells ==
  ASSUME TypeOK, CompleteInv, AnswerInv, mode # "none", ~disturbed, pc[Tester] = "done"
  PROVE  Hits = found \cup (Answers \cap {Probed})
  <1>1. 1 \in Regs /\ 1 < reg[Tester] /\ Tester \in Clients
    BY Constants DEF CompleteInv
  <1>2. ReadsAll
    BY DEF CompleteInv
  <1>3. Success <=> Probed \in Answers
    BY <1>1, <1>2 DEF Success, ReadsAll, AnswerInv, Probed
  <1> QED
    BY <1>3 DEF Hits, Probed

LEMMA MinIs ==
  ASSUME NEW S, NEW m \in S, \A x \in S : (\A y \in S : x <= y) <=> x = m
  PROVE  Min(S) = m
  BY DEF Min

\* The scan returns with all there is to find ...
LEMMA LastProbe ==
  ASSUME TypeOK, CompleteInv, AnswerInv, mode # "none", ~disturbed, pc[Tester] = "done",
         ~MoreToProbe(Hits)
  PROVE  Hits = ToFind(mode)
  <1>1. KnowsBefore /\ Hits = found \cup (Answers \cap {Probed})
    BY ProbeTells DEF CompleteInv
  <1>2. Probed \in Settings /\ Settings \subseteq Int /\ mode \in Modes /\ NumSettings \in Nat
        /\ Answers \subseteq Settings
    BY Constants, ModbusAssumption DEF TypeOK, BusTypeOK, Probed, Settings
  <1>3. CASE mode \in Once
    BY <1>1, <1>3 DEF KnowsBefore, ToFind, Once
  <1>4. mode \notin Once => Probed = NumSettings \/ (mode = "slave" /\ Hits # {})
    BY <1>2 DEF MoreToProbe, Settings, Probed
  <1>5. UpTo(Probed) = UpTo(Probed - 1) \cup (Answers \cap {Probed})
    BY <1>2, UpToGrows
  <1>6. CASE mode \in {"baud", "device"}
    <2>1. Probed = NumSettings
      BY <1>4, <1>6 DEF Once
    <2>2. Hits = Answers
      BY <1>1, <1>5, <1>6, <2>1, UpToGrows DEF KnowsBefore
    <2> QED
      BY <1>6, <2>2 DEF ToFind, Once
  <1>7. CASE mode = "slave" /\ Hits = {}
    <2>1. Answers = {}
      BY <1>1, <1>4, <1>5, <1>7, UpToGrows DEF KnowsBefore, Once
    <2> QED
      BY <1>7, <2>1 DEF ToFind, Once
  <1>8. CASE mode = "slave" /\ Hits # {}
    <2>1. Probed \in Answers /\ Hits = {Probed}
      BY <1>1, <1>8 DEF KnowsBefore
    <2>2. \A a \in Answers : Probed <= a
      BY <1>1, <1>2, <1>8 DEF KnowsBefore, UpTo, Settings
    <2>3. \A x \in Answers : (\A a \in Answers : x <= a) <=> x = Probed
      BY <1>2, <2>1, <2>2
    <2>4. Min(Answers) = Probed
      BY <2>1, <2>3, MinIs
    <2> QED
      BY <1>8, <2>1, <2>4 DEF ToFind, Once
  <1> QED
    BY <1>2, <1>3, <1>6, <1>7, <1>8 DEF Modes, Once

\* ... and goes on with all there was to find so far.
LEMMA NextProbe ==
  ASSUME TypeOK, CompleteInv, AnswerInv, mode # "none", ~disturbed, pc[Tester] = "done",
         MoreToProbe(Hits), Probed' = Probed + 1, found' = Hits, mode' = mode
  PROVE  KnowsBefore'
  <1>1. KnowsBefore /\ Hits = found \cup (Answers \cap {Probed})
    BY ProbeTells DEF CompleteInv
  <1>2. Probed \in Settings /\ Probed' - 1 = Probed
    BY Constants DEF TypeOK, BusTypeOK, Probed, Settings
  <1>3. UpTo(Probed) = UpTo(Probed - 1) \cup (Answers \cap {Probed})
    BY <1>2, UpToGrows
  <1>4. mode \notin Once
    BY DEF MoreToProbe
  <1>5. mode = "slave" => Hits = {}
    BY DEF MoreToProbe
  <1>6. UpTo(Probed' - 1) = UpTo(Probed)
    BY <1>2
  <1> QED
    BY <1>1, <1>3, <1>4, <1>5, <1>6 DEF KnowsBefore, UpTo

\* Steps that are not the tester's leave what it knows alone.
LEMMA CompleteKept ==
  ASSUME CompleteInv, UNCHANGED testVars, setting' = setting,
         pc'[Tester] = pc[Tester], reg'[Tester] = reg[Tester],
         result'[Tester] = result[Tester]
  PROVE  CompleteInv'
  BY DEF CompleteInv, KnowsBefore, ReadsAll, Probed, testVars

\* An exchange of the tester adds a register that was read, or disturbs it.
LEMMA CompleteRead ==
  ASSUME TypeOK, CompleteInv, IdleInv, ClientReads(Tester)
  PROVE  CompleteInv'
  <1>0. BusTypeOK /\ Tester \in Clients
    BY Constants DEF TypeOK
  <1>1. pc[Tester] \in {"try", "backoff"} /\ UNCHANGED <<mode, found, setting>>
        /\ mode # "none"
    BY DEF ClientReads, ReadStep, TryConnects, TryRefused, ReadOk, ReadFails, BackoffEnds,
           IdleInv
  <1>2. disturbed' = (disturbed \/ (/\ pc[Tester] = "try" /\ Probed \in Answers
                                   /\ result'[Tester][reg[Tester]] # "ok"))
    BY DEF ClientReads, Probed
  <1>3. \/ reg'[Tester] = reg[Tester] /\ result' = result /\ pc'[Tester] # "done"
        \/ /\ pc[Tester] = "try" /\ reg'[Tester] = reg[Tester] + 1
           /\ \A r \in Regs \ {reg[Tester]} : result'[Tester][r] = result[Tester][r]
    BY <1>0 DEF ClientReads, ReadStep, TryConnects, TryRefused, ReadOk, ReadFails,
                BackoffEnds, AttemptFails, RegisterDone, BusTypeOK
  <1>4. reg[Tester] \in 1 .. NumRegs + 1 /\ Regs \subseteq Nat /\ NumRegs \in Nat
    BY <1>0, Constants DEF BusTypeOK, Regs
  <1>5. pc'[Tester] = "done" => reg'[Tester] > 1
    BY <1>3, <1>4
  <1>6. ASSUME ~disturbed', Probed \in Answers, NEW r \in Regs, r < reg'[Tester]
        PROVE  result'[Tester][r] = "ok"
    <2>1. r < reg[Tester] => result[Tester][r] = "ok"
      BY <1>1, <1>2, <1>6 DEF CompleteInv, ReadsAll
    <2>2. CASE reg'[Tester] = reg[Tester] /\ result' = result
      BY <1>6, <2>1, <2>2
    <2>3. CASE /\ pc[Tester] = "try" /\ reg'[Tester] = reg[Tester] + 1
               /\ \A q \in Regs \ {reg[Tester]} : result'[Tester][q] = result[Tester][q]
      <3>1. result'[Tester][reg[Tester]] = "ok"
        BY <1>2, <1>6, <2>3
      <3>2. r # reg[Tester] => r < reg[Tester]
        BY <1>4, <1>6, <2>3
      <3> QED
        BY <2>1, <2>3, <3>1, <3>2
    <2> QED
      BY <1>3, <2>2, <2>3
  <1>7. ~disturbed' => KnowsBefore' /\ ReadsAll'
    <2>1. Probed' = Probed
      BY <1>1 DEF Probed
    <2>2. ~disturbed' => KnowsBefore'
      BY <1>1, <1>2, <2>1 DEF CompleteInv, KnowsBefore
    <2>3. ~disturbed' => ReadsAll'
      BY <1>6, <2>1 DEF ReadsAll
    <2> QED
      BY <2>2, <2>3
  <1> QED
    BY <1>1, <1>5, <1>7 DEF CompleteInv

LEMMA CompleteStep ==
  ASSUME TypeOK, AnswerInv, IdleInv, CompleteInv, [Next]_vars
  PROVE  CompleteInv'
  <1>0. BusTypeOK /\ Service # Tester /\ Service \in Clients /\ Tester \in Clients
    BY Constants DEF TypeOK
  <1>1. CASE PollBegins \/ PollConnects \/ PollRefused \/ PollEnds \/ ServiceRestarts
    BY <1>0, <1>1, CompleteKept
       DEF PollBegins, PollConnects, PollRefused, PollEnds, ServiceRestarts, CallReturns,
           BeginCall, BusTypeOK, call
  <1>2. CASE ClientReads(Service)
    <2>1. UNCHANGED <<mode, found, setting>>
      BY <1>2 DEF ClientReads, ReadStep, TryConnects, TryRefused, ReadOk, ReadFails,
                  BackoffEnds
    <2>2. disturbed' = disturbed
      BY <1>0, <1>2 DEF ClientReads, TypeOK
    <2>3. pc'[Tester] = pc[Tester] /\ reg'[Tester] = reg[Tester]
          /\ result'[Tester] = result[Tester]
      BY <1>0, <1>2 DEF ClientReads, ReadStep, TryConnects, TryRefused, ReadOk, ReadFails,
                        BackoffEnds, AttemptFails, RegisterDone, BusTypeOK
    <2> QED
      BY <2>1, <2>2, <2>3, CompleteKept DEF testVars
  <1>3. CASE ScanBegins
    <2>1. PICK m \in Modes : Probe(m, FirstOf(m))
      BY <1>3 DEF ScanBegins
    <2>2. mode' = m /\ Probed' = FirstOf(m) /\ pc'[Tester] = "connect" /\ reg'[Tester] = 1
      BY <1>0, <2>1 DEF Probe, BeginCall, BusTypeOK, Probed
    <2>3. found' = {}
      BY <1>3 DEF ScanBegins, CompleteInv
    <2>4. KnowsBefore'
      BY <2>2, <2>3, UpToGrows DEF KnowsBefore, FirstOf, Once, UpTo
    <2>5. ReadsAll'
      BY <2>2, Constants DEF ReadsAll, Regs
    <2> QED
      BY <2>2, <2>3, <2>4, <2>5 DEF CompleteInv, Modes
  <1>4. CASE ScanConnects
    <2>1. UNCHANGED testVars /\ setting' = setting /\ pc'[Tester] = "try"
          /\ reg' = reg /\ result' = result
      BY <1>0, <1>4 DEF ScanConnects, BusTypeOK, call
    <2> QED
      BY <2>1 DEF CompleteInv, KnowsBefore, ReadsAll, Probed, testVars
  <1>5. CASE ScanRefused
    <2>1. \/ pc'[Tester] = "connect" /\ mode' = mode
          \/ pc'[Tester] = "idle" /\ mode' = "none" /\ found' = {}
      BY <1>0, <1>5 DEF ScanRefused, ScanGoesOn, Probe, CallReturns, BusTypeOK
    <2>2. mode # "none" /\ disturbed' = (mode' # "none")
      BY <1>0, <1>5 DEF ScanRefused, IdleInv
    <2> QED
      BY <2>1, <2>2 DEF CompleteInv
  <1>6. CASE EnterRefused
    <2>1. pc'[Tester] = "try" /\ disturbed' = TRUE /\ mode' = mode /\ mode # "none"
      BY <1>0, <1>6 DEF EnterRefused, BusTypeOK
    <2> QED
      BY <2>1 DEF CompleteInv
  <1>7. CASE ProbeEnds
    <2>0. mode # "none" /\ pc[Tester] = "done"
      BY <1>7 DEF ProbeEnds, IdleInv
    <2>1. CASE /\ ~MoreToProbe(Hits) /\ CallReturns(Tester)
               /\ mode' = "none" /\ found' = {}
      BY <1>0, <2>1 DEF CompleteInv, CallReturns, BusTypeOK
    <2>2. CASE MoreToProbe(Hits) /\ Probe(mode, setting[Tester] + 1) /\ found' = Hits
      <3>1. mode' = mode /\ Probed' = Probed + 1 /\ pc'[Tester] = "connect"
            /\ reg'[Tester] = 1
        BY <1>0, <2>2 DEF Probe, BeginCall, BusTypeOK, Probed
      <3>2. disturbed' = disturbed
        BY <1>7, <2>0, <3>1 DEF ProbeEnds, TypeOK
      <3>3. ~disturbed => KnowsBefore'
        BY <2>0, <2>2, <3>1, NextProbe
      <3>4. ReadsAll'
        BY <3>1, Constants DEF ReadsAll, Regs
      <3> QED
        BY <2>0, <3>1, <3>2, <3>3, <3>4 DEF CompleteInv
    <2> QED
      BY <1>7, <2>1, <2>2 DEF ProbeEnds, ScanGoesOn
  <1>8. CASE ClientReads(Tester)
    BY <1>8, CompleteRead
  <1>9. ASSUME NEW c \in Clients, PymodbusReopens(c)
        PROVE  CompleteInv'
    BY <1>9, CompleteKept DEF PymodbusReopens, Reopens, call
  <1>10. CASE LineChanges
    BY <1>10, CompleteKept DEF LineChanges, LineStep, Unplug, Plug, MeterChanges, call
  <1>11. CASE UNCHANGED vars
    BY <1>11, CompleteKept DEF vars, busVars, call
  <1> QED
    BY <1>1, <1>2, <1>3, <1>4, <1>5, <1>6, <1>7, <1>8, <1>9, <1>10, <1>11
       DEF Next, ServiceStep, TesterStep

\* A scan that is over after a probe has found all there is.
LEMMA ScanEnds ==
  ASSUME TypeOK, AnswerInv, CompleteInv, [Next]_vars,
         mode # "none", mode' = "none", pc[Tester] = "done", ~disturbed
  PROVE  Hits = ToFind(mode)
  <1>1. ProbeEnds
    BY DEF Next, vars, testVars, ServiceStep, TesterStep, PollBegins, PollConnects,
           PollRefused, PollEnds, ServiceRestarts, ScanBegins, ScanConnects, ScanRefused,
           EnterRefused, ClientReads, PymodbusReopens, LineChanges
  <1>2. ~MoreToProbe(Hits)
    BY <1>1 DEF ProbeEnds, ScanGoesOn, Probe
  <1> QED
    BY <1>2, LastProbe

\* ScanComplete: a scan that neither the other process nor the line disturbs
\* reports all there is to find, up to the last setting.
THEOREM ScansAreComplete == Spec => ScanComplete
  <1>1. Init => CompleteInv /\ SoundInv
    BY CompleteInit, SoundInit
  <1>2. TypeOK /\ PortInv /\ SoundInv /\ CompleteInv /\ [Next]_vars
          => (SoundInv /\ CompleteInv)'
    BY CompleteStep, SoundStep DEF SoundInv, PortInv
  <1>3. TypeOK /\ SoundInv /\ CompleteInv /\ [Next]_vars
          => [(mode # "none" /\ mode' = "none" /\ pc[Tester] = "done" /\ ~disturbed)
                => Hits = ToFind(mode)]_vars
    BY ScanEnds DEF SoundInv
  <1> QED
    BY <1>1, <1>2, <1>3, TypeCorrect, PortsAccountedFor, PTL DEF Spec, ScanComplete

-----------------------------------------------------------------------------
(* ReadingBounded *)

\* What the attempts before number k can have taken.
Before(k) ==
  IF k = 1 THEN 0
  ELSE IF k = 2 THEN Timeout + Backoff[1] ELSE 2 * Timeout + Backoff[1] + Backoff[2]

\* A connected client has used the one connect() a call can need.
OneConnect(c) == IF connected[c] THEN Timeout ELSE 0

\* The inductive bound, by where the call has got to.
SpentOk(c) ==
  /\ pc[c] \in {"idle", "connect"} => spent[c] = 0
  /\ pc[c] = "try" =>
       spent[c] <= (reg[c] - 1) * PerRegister + Before(try[c]) + OneConnect(c)
  /\ pc[c] = "backoff" =>
       spent[c] <= (reg[c] - 1) * PerRegister + Before(try[c]) + Timeout + OneConnect(c)
  /\ pc[c] = "done" => spent[c] <= goal[c] * PerRegister + OneConnect(c)

SpentInv == \A c \in Clients : SpentOk(c)

LEMMA PerRegisterFacts ==
  /\ PerRegister \in Nat
  /\ PerRegister = 3 * Timeout + Backoff[1] + Backoff[2]
  /\ \A n \in Nat : n * PerRegister \in Nat /\ (n + 1) * PerRegister = n * PerRegister + PerRegister
  /\ \A m, n \in Nat : m <= n => m * PerRegister <= n * PerRegister
  <1>1. PerRegister \in Nat /\ PerRegister = 3 * Timeout + Backoff[1] + Backoff[2]
    BY Constants DEF PerRegister
  <1>2. ASSUME NEW P \in Nat
        PROVE  /\ \A n \in Nat : n * P \in Nat /\ (n + 1) * P = n * P + P
               /\ \A m, n \in Nat : m <= n => m * P <= n * P
    <2>1. \A n \in Nat : n * P \in Nat /\ (n + 1) * P = n * P + P
      OBVIOUS
    <2>2. ASSUME NEW m \in Nat, NEW n \in Nat, m <= n
          PROVE  m * P <= n * P
      <3>1. PICK k \in Nat : n = m + k
        BY <2>2
      <3>2. (m + k) * P = m * P + k * P /\ k * P \in Nat /\ m * P \in Nat
        OBVIOUS
      <3> QED
        BY <3>1, <3>2
    <2> QED
      BY <2>1, <2>2
  <1> QED
    BY <1>1, <1>2

\* The attempts before this one and this one fit in PerRegister.
LEMMA BeforeFits ==
  ASSUME NEW k \in 1 .. 3
  PROVE  /\ Before(k) \in Nat /\ Before(k) + Timeout <= PerRegister
         /\ k < 3 => Before(k + 1) = Before(k) + Timeout + Backoff[k]
  <1>1. PerRegister = 3 * Timeout + Backoff[1] + Backoff[2]
    BY PerRegisterFacts
  <1>2. Timeout \in Nat /\ Backoff[1] \in Nat /\ Backoff[2] \in Nat
    BY Constants
  <1>3. CASE k = 1
    BY <1>1, <1>2, <1>3 DEF Before
  <1>4. CASE k = 2
    BY <1>1, <1>2, <1>4 DEF Before
  <1>5. CASE k = 3
    BY <1>1, <1>2, <1>5 DEF Before
  <1> QED
    BY <1>3, <1>4, <1>5

\* The products the bound is made of, for the register being read.
LEMMA RegisterFits ==
  ASSUME BusTypeOK, NEW c \in Clients
  PROVE  /\ (reg[c] - 1) * PerRegister \in Nat /\ goal[c] * PerRegister \in Nat
         /\ reg[c] * PerRegister = (reg[c] - 1) * PerRegister + PerRegister
         /\ reg[c] <= goal[c] => reg[c] * PerRegister <= goal[c] * PerRegister
  <1>1. reg[c] \in Nat /\ reg[c] - 1 \in Nat /\ goal[c] \in Nat
    BY Constants DEF BusTypeOK, Regs
  <1>2. (reg[c] - 1) + 1 = reg[c]
    BY <1>1
  <1>3. ((reg[c] - 1) + 1) * PerRegister = (reg[c] - 1) * PerRegister + PerRegister
    BY <1>1, PerRegisterFacts
  <1>4. /\ (reg[c] - 1) * PerRegister \in Nat /\ goal[c] * PerRegister \in Nat
        /\ reg[c] <= goal[c] => reg[c] * PerRegister <= goal[c] * PerRegister
    BY <1>1, PerRegisterFacts
  <1> QED
    BY <1>2, <1>3, <1>4

LEMMA SpentImplies ==
  ASSUME TypeOK, CountInv, SpentInv
  PROVE  ReadingBounded
  <1> SUFFICES ASSUME NEW c \in Clients
               PROVE  spent[c] <= goal[c] * PerRegister + Timeout
    BY DEF ReadingBounded
  <1> DEFINE base == (reg[c] - 1) * PerRegister
  <1> DEFINE all == goal[c] * PerRegister
  <1>1. /\ spent[c] \in Nat /\ try[c] \in 1 .. 3 /\ pc[c] \in Pc
        /\ pc[c] \in {"try", "backoff"} => reg[c] <= goal[c]
    BY Constants DEF TypeOK, BusTypeOK, CountInv
  <1>2. OneConnect(c) <= Timeout /\ OneConnect(c) \in Nat /\ Timeout \in Nat
    BY Constants DEF OneConnect
  <1>3. Before(try[c]) \in Nat /\ Before(try[c]) + Timeout <= PerRegister
    BY <1>1, BeforeFits
  <1>4. /\ base \in Nat /\ all \in Nat /\ PerRegister \in Nat
        /\ pc[c] \in {"try", "backoff"} => base + PerRegister <= all
    BY <1>1, RegisterFits, PerRegisterFacts DEF TypeOK
  <1>5. /\ pc[c] \in {"idle", "connect"} => spent[c] = 0
        /\ pc[c] = "try" => spent[c] <= base + Before(try[c]) + OneConnect(c)
        /\ pc[c] = "backoff" => spent[c] <= base + Before(try[c]) + Timeout + OneConnect(c)
        /\ pc[c] = "done" => spent[c] <= all + OneConnect(c)
    BY DEF SpentInv, SpentOk
  <1> HIDE DEF base, all
  <1>6. spent[c] <= all + Timeout
    BY <1>1, <1>2, <1>3, <1>4, <1>5 DEF Pc
  <1> QED
    BY <1>6 DEF all

LEMMA SpentInit ==
  ASSUME Init
  PROVE  SpentInv
  BY DEF Init, BusInit, SpentInv, SpentOk

\* An exchange adds at most the timeout.
LEMMA TakesBounded ==
  ASSUME BusTypeOK, NEW c \in Clients, Takes(c)
  PROVE  /\ spent'[c] <= spent[c] + Timeout
         /\ \A d \in Clients \ {c} : spent'[d] = spent[d]
  <1>1. PICK d \in Delays : spent' = [spent EXCEPT ![c] = @ + d]
    BY DEF Takes
  <1>2. d \in Nat /\ d <= Timeout /\ Timeout \in Nat /\ spent[c] \in Nat
    BY Constants DEF BusTypeOK
  <1> QED
    BY <1>1, <1>2 DEF BusTypeOK

\* The bound of the clients that do not move.
LEMMA SpentOthers ==
  ASSUME SpentInv, NEW c \in Clients,
         \A d \in Clients \ {c} :
           /\ pc'[d] = pc[d] /\ reg'[d] = reg[d] /\ goal'[d] = goal[d]
           /\ try'[d] = try[d] /\ spent'[d] = spent[d] /\ connected'[d] = connected[d]
  PROVE  \A d \in Clients \ {c} : SpentOk(d)'
  BY DEF SpentInv, SpentOk, OneConnect

\* An attempt is over and the register with it.
LEMMA SpentDone ==
  ASSUME BusTypeOK, CountInv, NEW c \in Clients, pc[c] = "try",
         NEW o, RegisterDone(c, o), connected'[c] = connected[c], spent'[c] \in Nat,
         spent'[c] <= (reg[c] - 1) * PerRegister + Before(try[c]) + Timeout + OneConnect(c)
  PROVE  SpentOk(c)'
  <1> DEFINE base == (reg[c] - 1) * PerRegister
  <1>1. /\ try[c] \in 1 .. 3 /\ reg[c] <= goal[c] /\ reg[c] \in Nat
        /\ OneConnect(c) \in Nat /\ OneConnect(c)' = OneConnect(c) /\ Timeout \in Nat
    BY Constants DEF BusTypeOK, CountInv, OneConnect
  <1>2. /\ Before(try[c]) \in Nat /\ Before(try[c]) + Timeout <= PerRegister
        /\ base \in Nat /\ PerRegister \in Nat
        /\ reg[c] * PerRegister = base + PerRegister
    BY <1>1, BeforeFits, RegisterFits, PerRegisterFacts
  <1>3. spent'[c] <= base + Before(try[c]) + Timeout + OneConnect(c)
    OBVIOUS
  <1>4. spent'[c] <= reg[c] * PerRegister + OneConnect(c)
    <2> HIDE DEF base
    <2> QED
      BY <1>1, <1>2, <1>3
  <1>5. /\ reg'[c] = reg[c] + 1 /\ goal'[c] = goal[c] /\ try'[c] = 1
        /\ pc'[c] = IF reg[c] = goal[c] THEN "done" ELSE "try"
    BY DEF RegisterDone, BusTypeOK
  <1>6. CASE reg[c] = goal[c]
    BY <1>1, <1>4, <1>5, <1>6 DEF SpentOk
  <1>7. CASE reg[c] # goal[c]
    <2>1. reg'[c] - 1 = reg[c] /\ Before(try'[c]) = 0 /\ pc'[c] = "try"
      BY <1>1, <1>5, <1>7 DEF Before
    <2>2. reg[c] * PerRegister \in Nat
      BY <1>1, PerRegisterFacts
    <2>3. spent'[c] <= (reg'[c] - 1) * PerRegister + Before(try'[c]) + OneConnect(c)'
      BY <1>1, <1>4, <2>1, <2>2
    <2> QED
      BY <2>1, <2>3 DEF SpentOk
  <1> QED
    BY <1>6, <1>7

LEMMA SpentRead ==
  ASSUME BusTypeOK, CountInv, SpentInv, NEW c \in Clients, ReadStep(c)
  PROVE  SpentInv'
  <1> DEFINE base == (reg[c] - 1) * PerRegister
  <1>1. /\ try[c] \in 1 .. 3 /\ spent[c] \in Nat /\ Timeout \in Nat
        /\ OneConnect(c) = IF connected[c] THEN Timeout ELSE 0
        /\ OneConnect(c)' = IF connected'[c] THEN Timeout ELSE 0
    BY Constants DEF BusTypeOK, OneConnect
  <1>2. Before(try[c]) \in Nat /\ base \in Nat
    BY <1>1, BeforeFits, RegisterFits
  <1>3. /\ pc[c] = "try" => spent[c] <= base + Before(try[c]) + OneConnect(c)
        /\ pc[c] = "backoff" => spent[c] <= base + Before(try[c]) + Timeout + OneConnect(c)
    BY DEF SpentInv, SpentOk
  <1> HIDE DEF base
  <1>4. ASSUME BusTypeOK', pc[c] = "try", AttemptFails(c), connected'[c] = connected[c],
               spent'[c] <= base + Before(try[c]) + Timeout + OneConnect(c)
        PROVE  SpentOk(c)'
    <2>1. CASE RegisterDone(c, "failed")
      <3>1. spent'[c] \in Nat
        BY <1>4 DEF BusTypeOK
      <3> QED
        BY <1>4, <2>1, <3>1, SpentDone DEF base
    <2>2. CASE pc' = [pc EXCEPT ![c] = "backoff"] /\ UNCHANGED <<reg, goal, try, result>>
      <3>1. pc'[c] = "backoff"
        BY <2>2 DEF BusTypeOK
      <3>2. spent'[c] <= (reg'[c] - 1) * PerRegister + Before(try'[c]) + Timeout
                           + OneConnect(c)'
        BY <1>1, <1>4, <2>2 DEF base
      <3> QED
        BY <3>1, <3>2 DEF SpentOk
    <2> QED
      BY <1>4, <2>1, <2>2 DEF AttemptFails
  <1>5. BusTypeOK'
    BY ReadStepType
  <1>6. SpentOk(c)'
    <2>1. CASE TryConnects(c)
      <3>1. /\ pc[c] = "try" /\ pc'[c] = "try" /\ ~connected[c] /\ connected'[c]
            /\ reg'[c] = reg[c] /\ try'[c] = try[c] /\ spent'[c] \in Nat
        BY <2>1, <1>5 DEF TryConnects, Connects, BusTypeOK
      <3>2. spent'[c] <= spent[c] + Timeout
        BY <2>1, TakesBounded DEF TryConnects
      <3>3. spent'[c] <= base + Before(try[c]) + OneConnect(c)'
        BY <1>1, <1>2, <1>3, <3>1, <3>2
      <3> QED
        BY <3>1, <3>3 DEF SpentOk, base
    <2>2. CASE TryRefused(c) \/ ReadFails(c)
      <3>1. pc[c] = "try" /\ AttemptFails(c) /\ connected'[c] = connected[c]
        BY <2>2 DEF TryRefused, ReadFails, ConnectRefused, BusTypeOK
      <3>2. spent'[c] <= spent[c] + Timeout
        BY <2>2, TakesBounded DEF TryRefused, ReadFails
      <3>3. spent'[c] <= base + Before(try[c]) + Timeout + OneConnect(c)
        <4>1. spent'[c] \in Nat
          BY <1>5 DEF BusTypeOK
        <4> QED
          BY <1>1, <1>2, <1>3, <3>1, <3>2, <4>1
      <3> QED
        BY <1>4, <1>5, <3>1, <3>3
    <2>3. CASE ReadOk(c)
      <3>1. pc[c] = "try" /\ RegisterDone(c, "ok") /\ connected'[c] = connected[c]
        BY <2>3 DEF ReadOk
      <3>2. spent'[c] <= spent[c] + Timeout /\ spent'[c] \in Nat
        BY <2>3, <1>5, TakesBounded DEF ReadOk, BusTypeOK
      <3>3. spent'[c] <= base + Before(try[c]) + Timeout + OneConnect(c)
        BY <1>1, <1>2, <1>3, <3>1, <3>2
      <3> QED
        BY <3>1, <3>2, <3>3, SpentDone DEF base
    <2>4. CASE BackoffEnds(c)
      <3>1. /\ pc[c] = "backoff" /\ pc'[c] = "try" /\ reg'[c] = reg[c]
            /\ try'[c] = try[c] + 1 /\ spent'[c] = spent[c] + Backoff[try[c]]
            /\ connected'[c] = connected[c]
        BY <2>4 DEF BackoffEnds, BusTypeOK
      <3>2. try[c] < 3 /\ Backoff[try[c]] \in Nat
        <4>1. try[c] < 3
          BY <3>1, Constants DEF CountInv
        <4> QED
          BY <4>1, <1>1, Constants
      <3>3. Before(try'[c]) = Before(try[c]) + Timeout + Backoff[try[c]]
        BY <1>1, <3>1, <3>2, BeforeFits
      <3>4. spent'[c] <= base + Before(try'[c]) + OneConnect(c)'
        BY <1>1, <1>2, <1>3, <3>1, <3>2, <3>3
      <3> QED
        BY <3>1, <3>4 DEF SpentOk, base
    <2> QED
      BY <2>1, <2>2, <2>3, <2>4 DEF ReadStep
  <1>7. \A d \in Clients \ {c} : SpentOk(d)'
    <2>1. \A d \in Clients \ {c} :
            /\ pc'[d] = pc[d] /\ reg'[d] = reg[d] /\ goal'[d] = goal[d]
            /\ try'[d] = try[d] /\ connected'[d] = connected[d]
      <3>1. CASE TryConnects(c)
        BY <3>1 DEF TryConnects, Connects, BusTypeOK
      <3>2. CASE TryRefused(c)
        BY <3>2 DEF TryRefused, ConnectRefused, AttemptFails, RegisterDone, BusTypeOK
      <3>3. CASE ReadOk(c)
        BY <3>3 DEF ReadOk, RegisterDone, BusTypeOK
      <3>4. CASE ReadFails(c)
        BY <3>4 DEF ReadFails, AttemptFails, RegisterDone, BusTypeOK
      <3>5. CASE BackoffEnds(c)
        BY <3>5 DEF BackoffEnds, BusTypeOK
      <3> QED
        BY <3>1, <3>2, <3>3, <3>4, <3>5 DEF ReadStep
    <2>2. \A d \in Clients \ {c} : spent'[d] = spent[d]
      <3>1. CASE BackoffEnds(c)
        BY <3>1 DEF BackoffEnds, BusTypeOK
      <3>2. CASE Takes(c)
        BY <3>2, TakesBounded
      <3> QED
        BY <3>1, <3>2 DEF ReadStep, TryConnects, TryRefused, ReadOk, ReadFails
    <2> QED
      BY <2>1, <2>2, SpentOthers
  <1> QED
    BY <1>6, <1>7 DEF SpentInv

\* A call that begins has spent nothing, nor has one that has returned.
LEMMA SpentBegins ==
  ASSUME BusTypeOK, SpentInv, NEW c \in Clients, NEW n \in Regs, BeginCall(c, n),
         NEW x \in {"idle", "connect", "try"}, pc' = [pc EXCEPT ![c] = x],
         \A d \in Clients \ {c} : connected'[d] = connected[d]
  PROVE  SpentInv'
  <1>1. \A d \in Clients \ {c} :
          /\ pc'[d] = pc[d] /\ reg'[d] = reg[d] /\ goal'[d] = goal[d]
          /\ try'[d] = try[d] /\ spent'[d] = spent[d]
    BY DEF BeginCall, BusTypeOK
  <1>2. \A d \in Clients \ {c} : SpentOk(d)'
    BY <1>1, SpentOthers
  <1>3. spent'[c] = 0 /\ reg'[c] = 1 /\ try'[c] = 1 /\ pc'[c] = x
    BY DEF BeginCall, BusTypeOK
  <1>4. (1 - 1) * PerRegister = 0 /\ Before(1) = 0 /\ OneConnect(c)' \in Nat
    BY Constants, PerRegisterFacts DEF Before, OneConnect
  <1>5. SpentOk(c)'
    BY <1>3, <1>4 DEF SpentOk
  <1> QED
    BY <1>2, <1>5 DEF SpentInv

\* Only a call's own steps spend time; the others leave the bound alone.
LEMMA SpentKept ==
  ASSUME SpentInv, UNCHANGED <<pc, connected, call>>
  PROVE  SpentInv'
  BY DEF SpentInv, SpentOk, OneConnect, call

\* connect() by the caller, before the first register.
LEMMA SpentConnects ==
  ASSUME BusTypeOK, SpentInv, NEW c \in Clients, pc[c] = "connect", UNCHANGED call,
         pc' = [pc EXCEPT ![c] = "try"],
         \A d \in Clients \ {c} : connected'[d] = connected[d]
  PROVE  SpentInv'
  <1>1. \A d \in Clients \ {c} : SpentOk(d)'
    BY SpentOthers DEF BusTypeOK, call
  <1>2. spent'[c] = 0 /\ pc'[c] = "try"
    BY DEF SpentInv, SpentOk, BusTypeOK, call
  <1>3. /\ (reg'[c] - 1) * PerRegister \in Nat /\ Before(try'[c]) \in Nat
        /\ OneConnect(c)' \in Nat
    BY Constants, BeforeFits, RegisterFits DEF BusTypeOK, OneConnect, call
  <1>4. SpentOk(c)'
    BY <1>2, <1>3 DEF SpentOk
  <1> QED
    BY <1>1, <1>4 DEF SpentInv

LEMMA SpentStep ==
  ASSUME TypeOK, CountInv, SpentInv, [Next]_vars
  PROVE  SpentInv'
  <1>0. /\ BusTypeOK /\ Service \in Clients /\ Tester \in Clients
        /\ NumRegs \in Regs /\ \A m : Depth(m) \in Regs
    BY Constants DEF TypeOK, Depth
  <1>1. CASE PollBegins
    <2>1. PICK x \in {"try", "connect"} : pc' = [pc EXCEPT ![Service] = x]
      BY <1>1 DEF PollBegins
    <2> QED
      BY <1>0, <1>1, <2>1, SpentBegins DEF PollBegins
  <1>2. CASE PollConnects
    BY <1>0, <1>2, SpentConnects DEF PollConnects, Connects, BusTypeOK
  <1>3. ASSUME NEW c \in Clients, CallReturns(c),
               \A d \in Clients \ {c} : connected'[d] = connected[d]
        PROVE  SpentInv'
    BY <1>0, <1>3, SpentBegins DEF CallReturns
  <1>4. CASE PollRefused
    BY <1>0, <1>3, <1>4 DEF PollRefused, ConnectRefused, BusTypeOK
  <1>5. CASE PollEnds
    BY <1>0, <1>3, <1>5 DEF PollEnds
  <1>6. CASE ServiceRestarts
    BY <1>0, <1>3, <1>6 DEF ServiceRestarts, Disconnect, BusTypeOK
  <1>7. ASSUME NEW m, NEW s, Probe(m, s),
               \A d \in Clients \ {Tester} : connected'[d] = connected[d]
        PROVE  SpentInv'
    BY <1>0, <1>7, SpentBegins DEF Probe
  <1>8. CASE ScanBegins
    BY <1>7, <1>8 DEF ScanBegins
  <1>9. CASE ScanConnects
    BY <1>0, <1>9, SpentConnects DEF ScanConnects, Connects, BusTypeOK
  <1>10. ASSUME NEW hits, ScanGoesOn(hits),
                \A d \in Clients \ {Tester} : connected'[d] = connected[d]
         PROVE  SpentInv'
    BY <1>0, <1>3, <1>7, <1>10 DEF ScanGoesOn
  <1>11. CASE ScanRefused
    BY <1>0, <1>10, <1>11 DEF ScanRefused, ConnectRefused, BusTypeOK
  <1>12. CASE EnterRefused
    BY <1>0, <1>12, SpentConnects DEF EnterRefused, ConnectRefused, BusTypeOK
  <1>13. CASE ProbeEnds
    BY <1>0, <1>10, <1>13 DEF ProbeEnds, Disconnect, BusTypeOK
  <1>14. ASSUME NEW c \in Clients, ClientReads(c)
         PROVE  SpentInv'
    BY <1>0, <1>14, SpentRead DEF ClientReads
  <1>15. CASE (\E c \in Clients : PymodbusReopens(c)) \/ LineChanges \/ UNCHANGED vars
    BY <1>15, SpentKept DEF PymodbusReopens, Reopens, LineChanges, LineStep, Unplug, Plug,
                            MeterChanges, vars, busVars
  <1> QED
    BY <1>1, <1>2, <1>4, <1>5, <1>6, <1>8, <1>9, <1>11, <1>12, <1>13, <1>14, <1>15,
       Constants DEF Next, ServiceStep, TesterStep

\* ReadingBounded: the registers of one reading, stamped with one time, are
\* read within the sum of the attempts and the pauses between them and one
\* connect(), for every profile and however the line behaves.
THEOREM ReadingsAreBounded == Spec => []ReadingBounded
  <1> DEFINE IInv == TypeOK /\ CountInv /\ SpentInv
  <1>1. Init => IInv
    BY TypeInit, SpentInit
  <1>2. IInv /\ [Next]_vars => IInv'
    BY TypeStep, SpentStep
  <1>3. IInv => ReadingBounded
    BY SpentImplies
  <1> QED
    BY <1>1, <1>2, <1>3, PTL DEF Spec

-----------------------------------------------------------------------------
(* DecodedInTwosComplement *)

\* The sign of a 32-bit value is that of its high word.
LEMMA HighWordDecides ==
  ASSUME NEW half \in Nat \ {0}, NEW w \in Nat, w = 2 * half,
         NEW high \in 0 .. w - 1, NEW low \in 0 .. w - 1
  PROVE  (high * w + low > (w * w) \div 2 - 1) <=> 2 * high >= w
  <1>1. high * w \in Nat /\ half * w \in Nat /\ w > 0
    OBVIOUS
  <1>2. (w * w) \div 2 = half * w
    <2>1. w * w = 2 * (half * w)
      OBVIOUS
    <2>2. ASSUME NEW n \in Nat
          PROVE  (2 * n) \div 2 = n
      BY <2>2
    <2> QED
      BY <1>1, <2>1, <2>2
  <1>3. CASE high >= half
    <2>1. PICK k \in Nat : high = half + k
      BY <1>3
    <2>2. (half + k) * w = half * w + k * w /\ k * w \in Nat
      OBVIOUS
    <2>3. high * w >= half * w
      BY <1>1, <2>1, <2>2
    <2> QED
      BY <1>1, <1>2, <1>3, <2>3
  <1>4. CASE high < half
    <2>1. PICK k \in Nat : half = high + 1 + k
      BY <1>4
    <2>2. (high + 1 + k) * w = high * w + w + k * w /\ k * w \in Nat
      OBVIOUS
    <2>3. half * w >= high * w + w
      BY <1>1, <2>1, <2>2
    <2> QED
      BY <1>1, <1>2, <1>4, <2>3
  <1> QED
    BY <1>3, <1>4

\* The number a type's words stand for.
TwosComplement(type, high, low, w) ==
  LET top == IF type \in Signed /\ 2 * high >= w THEN high - w ELSE high
  IN  IF type \in Single THEN top ELSE top * w + low

\* Words of any even number of values, those of 16 bits among them: every
\* value of every type is read as two's complement, at the boundaries too.
THEOREM WordsDecoded ==
  ASSUME NEW half \in Nat \ {0}, NEW w \in Nat, w = 2 * half,
         NEW high \in 0 .. w - 1, NEW low \in 0 .. w - 1,
         NEW type \in {"uint16", "int16", "uint32", "int32"}
  PROVE  Decode(type, Raw(type, high, low, w), w) = TwosComplement(type, high, low, w)
  <1>1. /\ "uint16" \in Single /\ "int16" \in Single
        /\ "uint32" \notin Single /\ "int32" \notin Single
        /\ "int16" \in Signed /\ "int32" \in Signed
        /\ "uint16" \notin Signed /\ "uint32" \notin Signed
    BY DEF Single, Signed
  <1>2. CASE type = "uint16"
    BY <1>1, <1>2 DEF Decode, Raw, TwosComplement
  <1>3. CASE type = "int16"
    <2>1. w \div 2 = half
      OBVIOUS
    <2>2. Decode("int16", high, w) = IF high > (w \div 2) - 1 THEN high - w ELSE high
      BY DEF Decode
    <2>3. Decode("int16", high, w) = IF 2 * high >= w THEN high - w ELSE high
      BY <2>1, <2>2
    <2> QED
      BY <1>1, <1>3, <2>3 DEF Raw, TwosComplement
  <1>4. CASE type = "uint32"
    BY <1>1, <1>4 DEF Decode, Raw, TwosComplement
  <1>5. CASE type = "int32"
    <2> DEFINE r == high * w + low
    <2>1. Raw("int32", high, low, w) = r
      BY <1>1 DEF Raw
    <2>2. Decode("int32", r, w) = IF r > (w * w) \div 2 - 1 THEN r - w * w ELSE r
      BY DEF Decode
    <2>3. Decode("int32", r, w) = IF 2 * high >= w THEN r - w * w ELSE r
      BY <2>2, HighWordDecides
    <2>4. r - w * w = (high - w) * w + low
      OBVIOUS
    <2> QED
      BY <1>1, <1>5, <2>1, <2>3, <2>4 DEF TwosComplement
  <1> QED
    BY <1>2, <1>3, <1>4, <1>5

\* DecodedInTwosComplement, the instance the run checks.
THEOREM ReadingsDecoded == Spec => []DecodedInTwosComplement
  <1>1. ASSUME NEW w \in {8, 16}, NEW high \in 0 .. w - 1, NEW low \in 0 .. w - 1,
               NEW type \in {"uint16", "int16", "uint32", "int32"}
        PROVE  Decode(type, Raw(type, high, low, w), w) = TwosComplement(type, high, low, w)
    <2>1. PICK half \in Nat \ {0} : w = 2 * half
      OBVIOUS
    <2>2. w \in Nat
      OBVIOUS
    <2> QED
      BY <2>1, <2>2, WordsDecoded
  <1>2. DecodedInTwosComplement
    BY <1>1 DEF DecodedInTwosComplement, WordsInTwosComplement, TwosComplement
  <1> QED
    BY <1>2, PTL
=============================================================================
