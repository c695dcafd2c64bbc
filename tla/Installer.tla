----------------------------- MODULE Installer -----------------------------
(***************************************************************************)
(* The installer UI (installer_ui/meterhub_ui/app.py): requests of one or  *)
(* several browser pages, served by one event loop.  A handler runs until  *)
(* an await that really suspends; file operations run in threads of the    *)
(* executor (aiofiles), commands block the loop (NetworkManager).          *)
(*                                                                         *)
(*   file     device_config.json: the configuration it begins with and its *)
(*            length in characters; NoFile before the first save           *)
(*   disk     what of it a power cut would leave: the program never calls  *)
(*            fsync, and the kernel writes the file back when it likes     *)
(*   memory   service.device_config, or None                               *)
(*   status, step, named   the provisioning state; named: it has a         *)
(*            device_id                                                    *)
(*   pc       per request: "idle", "save" (file open and truncated),       *)
(*            "flushed" (file closed), "read" (a configuration was read),  *)
(*            "net" (a connect request)                                    *)
(*   arg      the configuration the request saves or has read              *)
(*   alone    history: the save opened last met no other request on its    *)
(*            way                                                          *)
(*   safe     history: the configuration of that save once it was          *)
(*            acknowledged                                                 *)
(***************************************************************************)
EXTENDS NetworkManager

CONSTANTS
  Requests,   \* requests under way at most
  Configs,    \* configurations a page can send
  Size,       \* their lengths as JSON
  LastStep,   \* the wizard's last step (5 in the code)
  None

ASSUME InstallerAssumption ==
  /\ Size \in [Configs -> Nat \ {0}]
  /\ LastStep \in Nat \ {0}
  /\ None \notin Configs

VARIABLES file, disk, memory, status, step, named, pc, arg, alone, safe

wizard == <<status, step, named>>
history == <<alone, safe>>
vars == <<netVars, file, disk, memory, wizard, pc, arg, history>>

Status == {"not_started", "in_progress", "completed"}
Pc == {"idle", "save", "flushed", "read", "net"}
Saving == {r \in Requests : pc[r] \in {"save", "flushed"}}
OnFile == {r \in Requests : pc[r] \in {"save", "flushed", "read"}}

-----------------------------------------------------------------------------
(* The file *)

NoFile == [head |-> None, size |-> -1]
Truncated == [head |-> None, size |-> 0]

\* What close() writes goes to the beginning of the file as it is.
Overwritten(f, c) ==
  [head |-> c, size |-> IF f.size > Size[c] THEN f.size ELSE Size[c]]

\* A disk that is full takes only part of it.
PartlyWritten(f, c) ==
  {[head |-> None, size |-> IF f.size > n THEN f.size ELSE n] : n \in 0 .. Size[c] - 1}

\* json.loads: "Extra data" when something follows the first value.
Parsed(f) == IF f.head # None /\ f.size = Size[f.head] THEN f.head ELSE None

-----------------------------------------------------------------------------
FreshWizard == status' = "not_started" /\ step' = 0 /\ named' = FALSE

Init ==
  /\ NetInit
  /\ file = NoFile /\ disk = NoFile /\ memory = None
  /\ status = "not_started" /\ step = 0 /\ named = FALSE
  /\ pc = [r \in Requests |-> "idle"] /\ arg = [r \in Requests |-> None]
  /\ alone = FALSE /\ safe = None

Goes(r, to, c) ==
  /\ pc' = [pc EXCEPT ![r] = to]
  /\ arg' = [arg EXCEPT ![r] = c]

Ends(r) == Goes(r, "idle", None)

-----------------------------------------------------------------------------
(* save_device_config: POST /api/config/set *)

\* aiofiles.open(..., "w") truncates; the content is still in a buffer.
SaveOpens(r) ==
  /\ pc[r] = "idle"
  /\ \E c \in Configs : Goes(r, "save", c)
  /\ file' = Truncated
  /\ alone' = (OnFile = {}) /\ safe' = None
  /\ UNCHANGED <<netVars, disk, memory, wizard>>

SaveFlushes(r) ==
  /\ pc[r] = "save"
  /\ file' = Overwritten(file, arg[r])
  /\ Goes(r, "flushed", arg[r])
  /\ UNCHANGED <<netVars, disk, memory, wizard, history>>

\* "Failed to save configuration": the file is not what it was.
SaveFails(r) ==
  /\ pc[r] = "save"
  /\ file' \in PartlyWritten(file, arg[r])
  /\ Ends(r)
  /\ alone' = FALSE
  /\ UNCHANGED <<netVars, disk, memory, wizard, safe>>

\* What is done when the file is closed: memory, then update_provisioning,
\* which never suspends.
Accept(r) ==
  /\ memory' = arg[r]
  /\ status' = "in_progress" /\ named' = TRUE
  /\ safe' = IF alone THEN arg[r] ELSE None
  /\ alone' = FALSE
  /\ UNCHANGED step

\* Mutant of SaveEnds: the save is acknowledged before the file is closed.
SaveEndsEarly(r) ==
  /\ ~Blocked /\ pc[r] \in {"save", "flushed"}
  /\ Accept(r) /\ Ends(r)
  /\ UNCHANGED <<netVars, file, disk>>

SaveEnds(r) ==
  /\ ~Blocked /\ pc[r] = "flushed"
  /\ Accept(r) /\ Ends(r)
  /\ UNCHANGED <<netVars, file, disk>>

-----------------------------------------------------------------------------
(* load_device_config: GET /api/config/get always; /info, the QR codes and *)
(* the meter test when memory is empty.  A file that does not exist or does *)
(* not parse changes nothing.                                              *)

LoadReads(r) ==
  /\ pc[r] = "idle" /\ Parsed(file) # None
  /\ Goes(r, "read", Parsed(file))
  /\ UNCHANGED <<netVars, file, disk, memory, wizard, history>>

LoadEnds(r) ==
  /\ ~Blocked /\ pc[r] = "read"
  /\ memory' = arg[r]
  /\ Ends(r)
  /\ UNCHANGED <<netVars, file, disk, wizard, history>>

-----------------------------------------------------------------------------
(* The wizard: these handlers never suspend *)

\* Mutant of NextStep: `if step < 5' dropped.
NextStepUnbounded ==
  /\ ~Blocked /\ step' = step + 1
  /\ status' = IF step = LastStep - 1 THEN "completed" ELSE status
  /\ UNCHANGED <<netVars, file, disk, memory, named, pc, arg, history>>

NextStep ==
  /\ ~Blocked /\ step < LastStep
  /\ step' = step + 1
  /\ status' = IF step = LastStep - 1 THEN "completed" ELSE status
  /\ UNCHANGED <<netVars, file, disk, memory, named, pc, arg, history>>

\* Mutant of Reset: only the step goes back.
ResetKeepsStatus ==
  /\ ~Blocked /\ step' = 0
  /\ UNCHANGED <<netVars, file, disk, memory, status, named, pc, arg, history>>

\* A new ProvisioningState; the configuration stays in memory and on disk.
Reset ==
  /\ ~Blocked /\ FreshWizard
  /\ UNCHANGED <<netVars, file, disk, memory, pc, arg, history>>

-----------------------------------------------------------------------------
(* POST /api/network/connect *)

Rest == <<file, disk, memory, wizard, history>>

ConnectBegins(r) ==
  /\ pc[r] = "idle" /\ NetBegins
  /\ Goes(r, "net", None)
  /\ UNCHANGED Rest

\* Mutant of ConnectGoesOn: a command without a timeout that never ends.
ConnectGoesOnForever(r) ==
  /\ pc[r] = "net"
  /\ \/ (NmDeletes \/ NmRefused) /\ UNCHANGED <<pc, arg>>
     \/ NmConnects /\ Ends(r)
  /\ UNCHANGED Rest

ConnectGoesOn(r) ==
  /\ pc[r] = "net"
  /\ \/ (NmDeletes \/ NmRefused) /\ UNCHANGED <<pc, arg>>
     \/ NetAnswers /\ Ends(r)
  /\ UNCHANGED Rest

-----------------------------------------------------------------------------
\* The process is gone, and NetworkManager's store with its connections stays.
Stops ==
  /\ NetStops /\ FreshWizard
  /\ memory' = None
  /\ pc' = [r \in Requests |-> "idle"] /\ arg' = [r \in Requests |-> None]
  /\ alone' = FALSE
  /\ UNCHANGED disk

\* `systemctl restart' of the UI through its own endpoint, or a crash of it:
\* the file is as it was, a buffer that was not flushed is lost.
Restart == Stops /\ UNCHANGED <<file, safe>>

\* The kernel writes the file as it is now to the disk.
WriteBack ==
  /\ disk # file
  /\ disk' = file
  /\ UNCHANGED <<netVars, file, memory, wizard, pc, arg, history>>

\* A power cut: the file is what was written back last, be it an older
\* configuration, or the empty file between the truncation and the content.
PowerLoss ==
  /\ Stops
  /\ file' = disk
  /\ safe' = IF disk = file THEN safe ELSE None

Serves(r) ==
  SaveFlushes(r) \/ SaveFails(r) \/ SaveEnds(r) \/ LoadEnds(r) \/ ConnectGoesOn(r)

Next ==
  \/ \E r \in Requests :
       SaveOpens(r) \/ LoadReads(r) \/ ConnectBegins(r) \/ Serves(r)
  \/ NextStep \/ Reset \/ Restart \/ WriteBack \/ PowerLoss

Spec == Init /\ [][Next]_vars

\* Threads and commands end, and the event loop is a queue: a handler that
\* can go on again and again between two blocking commands does.
FairSpec == Spec /\ \A r \in Requests : SF_vars(Serves(r))

-----------------------------------------------------------------------------
(* Properties *)

TypeOK ==
  /\ NetTypeOK
  /\ {file, disk} \subseteq [head : Configs \cup {None}, size : Nat \cup {-1}]
  /\ memory \in Configs \cup {None} /\ safe \in Configs \cup {None}
  /\ status \in Status /\ step \in 0 .. LastStep /\ named \in BOOLEAN
  /\ pc \in [Requests -> Pc] /\ arg \in [Requests -> Configs \cup {None}]
  /\ alone \in BOOLEAN

\* A configuration that was acknowledged, by a save that met no other request
\* on the file, is in the file and is what is served, until the next save
\* begins: through readers, a failing disk, crashes and restarts of the process
\* at any point (app.py:263-267), and through a power cut if it was written back
\* before, which the answer does not wait for.  With overlapping requests it
\* need not be in the file, nor be what is served.
Agreement ==
  safe # None => Parsed(file) = safe /\ memory \in {None, safe}

\* The provisioning state, which two endpoints and every save change
\* (app.py:268, 985), never contradicts itself: it is in progress exactly
\* when a save gave it a device id, unless it is completed; completed means
\* the last step; and a device id means there is a configuration to serve.
WizardConsistent ==
  /\ status = "in_progress" => named
  /\ status = "completed" => step = LastStep
  /\ status = "not_started" => ~named
  /\ named => memory # None

\* When nmcli is what answers True, the connection it stands for is saved:
\* it outlives the process.  An answer by way of wpa_cli promises nothing.
NmTrueIsSaved ==
  [][ net = "connect" /\ net' = "idle" /\ ~Stops => target \in saved' ]_vars

\* Every request that has begun is answered or ends with the process, though
\* connect requests stop the event loop again and again.
RequestsEnd == \A r \in Requests : pc[r] # "idle" ~> pc[r] = "idle"

ChannelsInOrder ==
  /\ \A ch \in 1 .. 13 : FreqToChannel(FrequencyMhz(2407 + 5 * ch)) = ch
  /\ \A ch \in 32 .. 177 : FreqToChannel(FrequencyMhz((5000 + 5 * ch) * 1000)) = ch

StrengthsInOrder ==
  /\ \A v \in -120 .. 120 : SignalStrength(v) \in 0 .. 100
  /\ \A v \in (-120 .. 120) \ {-1} : SignalStrength(v) <= SignalStrength(v + 1)
  /\ \A n \in 0 .. 69 : SignalRatio(n, 70) <= SignalRatio(n + 1, 70)
  /\ SignalRatio(0, 70) = 0 /\ SignalRatio(70, 70) = 100

\* Whenever a scan can be answered, the standard channels of both bands come
\* out right (14 does not: network_manager.py:350), and a strength is a
\* percentage that grows with the signal, in dBm, per cent or as a ratio.
WifiDecoded == ~Blocked => ChannelsInOrder /\ StrengthsInOrder

CellsInOrder ==
  \A cells \in UNION {[1 .. n -> PrintedOf(SSIDs, {-60, 5180})] : n \in 0 .. 2} :
    CellsListed(cells, ScanNetworks(<<>>, Printed(cells)))

\* Whenever a scan can be answered, the answer has the name of every cell that
\* iwlist printed, in order, however many there are.  It also has what no page
\* expects: an "Unknown" before them, and each cell's strength and channel
\* under the name before (network_manager.py:148-161, where a network begins
\* at a line that iwlist prints last); and one line that cannot be taken apart
\* costs all of them (168).
ScanListsCells == ~Blocked => CellsInOrder
=============================================================================
