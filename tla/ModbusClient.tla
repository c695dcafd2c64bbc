---------------------------- MODULE ModbusClient ----------------------------
(***************************************************************************)
(* The Modbus RTU client (common/meterhub_common/modbus_client.py) over    *)
(* pymodbus, whose AsyncModbusSerialClient is external.  Two processes     *)
(* hold a client each on the same serial device, so everything a client    *)
(* keeps is a function of the client.                                      *)
(*                                                                         *)
(*   plugged    the serial adapter is there                                *)
(*   answering  the meter is powered and the line is quiet                 *)
(*   connected  self.connected                                             *)
(*   port       what pymodbus holds: "closed", "open", or "lost" when it   *)
(*              dropped the port and its own task is reopening it          *)
(*   setting    the line setting in use (a baud rate, a slave id, ...)     *)
(*   pc         "idle", "connect" (the caller's own connect()), "try",     *)
(*              "backoff", or "done" when the registers of a call are read *)
(*   reg, goal  the register being read, and how many the call reads       *)
(*   try        the attempt of _read_with_retry, from 1                    *)
(*   result     what read_register returned for each register of the call  *)
(*   spent      time since the call began                                  *)
(***************************************************************************)
EXTENDS Integers, Sequences, FiniteSets

CONSTANTS
  Clients,      \* the processes that open the serial device
  NumRegs,      \* registers of the meter profile
  Backoff,      \* BACKOFF_MS
  Timeout,      \* profile.timeout_ms: the longest exchange or connect()
  Delays,       \* the durations of an exchange that are explored
  NumSettings,  \* line settings the tester may probe
  Answers       \* those at which the meter answers

ASSUME ModbusAssumption ==
  /\ NumRegs \in Nat \ {0} /\ NumSettings \in Nat \ {0}
  /\ Timeout \in Nat /\ Delays \subseteq 0 .. Timeout
  /\ Backoff \in Seq(Nat) /\ Len(Backoff) = 3
  /\ Answers \subseteq 1 .. NumSettings

VARIABLES plugged, answering, connected, port, setting,
          pc, reg, goal, try, result, spent

line == <<plugged, answering>>
call == <<reg, goal, try, result, spent>>
busVars == <<line, connected, port, setting, pc, call>>

Regs == 1 .. NumRegs
Settings == 1 .. NumSettings
Attempts == Len(Backoff)
Pc == {"idle", "connect", "try", "backoff", "done"}
Outcome == {"none", "ok", "failed"}
Unread == [r \in Regs |-> "none"]

-----------------------------------------------------------------------------
(* _read_raw_register and _apply_scaling: from 16-bit words to a number.   *)
(* w is the number of values of a word, 65536 on the line.                 *)

Single == {"uint16", "int16"}
Signed == {"int16", "int32"}

\* (high << 16) | low
Raw(type, high, low, w) == IF type \in Single THEN high ELSE high * w + low

\* Mutant of Decode: the 16-bit threshold used for the 32-bit type too.
DecodeNarrow(type, raw, w) ==
  IF type \in Signed /\ 2 * raw >= w
  THEN raw - (IF type \in Single THEN w ELSE w * w)
  ELSE raw

\* `if raw_value > 32767' and `if raw_value > 2147483647'.
Decode(type, raw, w) ==
  CASE type = "int16" /\ raw > (w \div 2) - 1       -> raw - w
    [] type = "int32" /\ raw > (w * w) \div 2 - 1   -> raw - w * w
    [] OTHER                                        -> raw

-----------------------------------------------------------------------------
BusInit ==
  /\ plugged \in BOOLEAN /\ answering \in BOOLEAN
  /\ connected = [c \in Clients |-> FALSE]
  /\ port = [c \in Clients |-> "closed"]
  /\ pc = [c \in Clients |-> "idle"]
  /\ reg = [c \in Clients |-> 1] /\ goal = [c \in Clients |-> NumRegs]
  /\ try = [c \in Clients |-> 1]
  /\ result = [c \in Clients |-> Unread]
  /\ spent = [c \in Clients |-> 0]

Takes(c) == \E d \in Delays : spent' = [spent EXCEPT ![c] = @ + d]

-----------------------------------------------------------------------------
(* connect() and disconnect() *)

OtherHolds(c) == \E o \in Clients \ {c} : port[o] = "open"

\* client.connect() opens the device.
Connects(c) ==
  /\ plugged
  /\ port' = [port EXCEPT ![c] = "open"]
  /\ connected' = [connected EXCEPT ![c] = TRUE]

\* Mutant of ConnectRefused: the flag is set whatever client.connect() said.
ConnectRefusedUnseen(c) ==
  /\ ~plugged \/ OtherHolds(c)
  /\ connected' = [connected EXCEPT ![c] = TRUE]
  /\ UNCHANGED port

\* It returns False: there is no device, or another process has it.
ConnectRefused(c) ==
  /\ ~plugged \/ OtherHolds(c)
  /\ connected' = [connected EXCEPT ![c] = FALSE]
  /\ UNCHANGED port

\* client.close(): pymodbus stops reopening, too.
Disconnect(c) ==
  /\ port' = [port EXCEPT ![c] = "closed"]
  /\ connected' = [connected EXCEPT ![c] = FALSE]

-----------------------------------------------------------------------------
(* read_all_registers: read_register for each, with _read_with_retry *)

\* Mutant of BeginCall: the results of the last call are kept.
BeginCallStale(c, n) ==
  /\ reg' = [reg EXCEPT ![c] = 1] /\ goal' = [goal EXCEPT ![c] = n]
  /\ try' = [try EXCEPT ![c] = 1]
  /\ spent' = [spent EXCEPT ![c] = 0]
  /\ UNCHANGED result

BeginCall(c, n) ==
  /\ reg' = [reg EXCEPT ![c] = 1] /\ goal' = [goal EXCEPT ![c] = n]
  /\ try' = [try EXCEPT ![c] = 1]
  /\ result' = [result EXCEPT ![c] = Unread]
  /\ spent' = [spent EXCEPT ![c] = 0]

\* The caller has what it called for: nothing of the call is kept.
CallReturns(c) ==
  /\ pc' = [pc EXCEPT ![c] = "idle"]
  /\ BeginCall(c, NumRegs)

\* read_register returns; the loop goes on with the next register.
RegisterDone(c, outcome) ==
  /\ result' = [result EXCEPT ![c][reg[c]] = outcome]
  /\ try' = [try EXCEPT ![c] = 1]
  /\ reg' = [reg EXCEPT ![c] = @ + 1]
  /\ pc' = [pc EXCEPT ![c] = IF reg[c] = goal[c] THEN "done" ELSE "try"]
  /\ UNCHANGED goal

\* The except clause: sleep unless this was the last attempt.
AttemptFails(c) ==
  \/ /\ try[c] < Attempts
     /\ pc' = [pc EXCEPT ![c] = "backoff"]
     /\ UNCHANGED <<reg, goal, try, result>>
  \/ /\ try[c] = Attempts
     /\ RegisterDone(c, "failed")

\* `if not self.connected: await self.connect()'
TryConnects(c) ==
  /\ pc[c] = "try" /\ ~connected[c]
  /\ Connects(c) /\ Takes(c)
  /\ UNCHANGED <<line, setting, pc, reg, goal, try, result>>

TryRefused(c) ==
  /\ pc[c] = "try" /\ ~connected[c]
  /\ ConnectRefused(c) /\ Takes(c)
  /\ AttemptFails(c)
  /\ UNCHANGED <<line, setting>>

ReadOk(c) ==
  /\ pc[c] = "try" /\ connected[c]
  /\ port[c] = "open" /\ plugged /\ answering /\ setting[c] \in Answers
  /\ Takes(c)
  /\ RegisterDone(c, "ok")
  /\ UNCHANGED <<line, connected, port, setting>>

\* Nothing but the client and the meter is on the line.
Undisturbed(c) == port[c] = "open" /\ plugged /\ answering /\ ~OtherHolds(c)

\* No answer in time, an error response, or a frame spoilt by the other
\* process; after some silence pymodbus drops the port to reopen it.
ReadFails(c) ==
  /\ pc[c] = "try" /\ connected[c]
  /\ ~(Undisturbed(c) /\ setting[c] \in Answers)
  /\ Takes(c)
  /\ AttemptFails(c)
  /\ \/ UNCHANGED port
     \/ port[c] = "open" /\ port' = [port EXCEPT ![c] = "lost"]
  /\ UNCHANGED <<line, connected, setting>>

\* Mutant of BackoffEnds: the attempt is not counted.
BackoffEndsUncounted(c) ==
  /\ pc[c] = "backoff"
  /\ spent' = [spent EXCEPT ![c] = @ + Backoff[try[c]]]
  /\ pc' = [pc EXCEPT ![c] = "try"]
  /\ UNCHANGED <<line, connected, port, setting, reg, goal, try, result>>

\* asyncio.sleep(BACKOFF_MS[attempt]): the last entry is never slept.
BackoffEnds(c) ==
  /\ pc[c] = "backoff"
  /\ spent' = [spent EXCEPT ![c] = @ + Backoff[try[c]]]
  /\ try' = [try EXCEPT ![c] = @ + 1]
  /\ pc' = [pc EXCEPT ![c] = "try"]
  /\ UNCHANGED <<line, connected, port, setting, reg, goal, result>>

ReadStep(c) ==
  TryConnects(c) \/ TryRefused(c) \/ ReadOk(c) \/ ReadFails(c) \/ BackoffEnds(c)

-----------------------------------------------------------------------------
(* pymodbus and the line *)

\* do_reconnect: retried until it succeeds or client.close() is called.
Reopens(c) ==
  /\ port[c] = "lost" /\ plugged
  /\ port' = [port EXCEPT ![c] = "open"]
  /\ UNCHANGED <<line, connected, setting, pc, call>>

Unplug ==
  /\ plugged /\ plugged' = FALSE
  /\ port' = [c \in Clients |-> IF port[c] = "open" THEN "lost" ELSE port[c]]
  /\ UNCHANGED <<answering, connected, setting, pc, call>>

Plug ==
  /\ ~plugged /\ plugged' = TRUE
  /\ UNCHANGED <<answering, connected, port, setting, pc, call>>

MeterChanges ==
  /\ answering' = ~answering
  /\ UNCHANGED <<plugged, connected, port, setting, pc, call>>

LineStep == Unplug \/ Plug \/ MeterChanges

-----------------------------------------------------------------------------
BusTypeOK ==
  /\ plugged \in BOOLEAN /\ answering \in BOOLEAN
  /\ connected \in [Clients -> BOOLEAN]
  /\ port \in [Clients -> {"closed", "open", "lost"}]
  /\ setting \in [Clients -> Settings]
  /\ pc \in [Clients -> Pc]
  /\ reg \in [Clients -> 1 .. NumRegs + 1] /\ goal \in [Clients -> Regs]
  /\ try \in [Clients -> 1 .. Attempts]
  /\ result \in [Clients -> [Regs -> Outcome]]
  /\ spent \in [Clients -> Nat]
=============================================================================
