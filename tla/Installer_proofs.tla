-------------------------- MODULE Installer_proofs --------------------------
(***************************************************************************)
(* Theorems about the installer's requests, for any number of requests     *)
(* under way, any configurations and any networks.                         *)
(*                                                                         *)
(* The argument for Agreement: while a save that was alone has the file    *)
(* open, nobody else can read anything but what it has written, because a  *)
(* truncated file does not parse; once it is acknowledged, whoever still   *)
(* holds a configuration read from the file holds that one, and nobody is  *)
(* writing.                                                                *)
(***************************************************************************)
EXTENDS Installer, NetworkManager_proofs

\* A request that saves or has read something has a configuration to store.
ArgInv == \A r \in OnFile : arg[r] \in Configs

\* Only the save that is alone writes, and readers have what it wrote.
AloneInv ==
  alone => \E r \in Saving :
             /\ pc[r] = "save" => file = Truncated /\ OnFile = {r}
             /\ pc[r] = "flushed" => Parsed(file) = arg[r]
             /\ \A o \in OnFile \ {r} : pc[o] = "read" /\ arg[o] = arg[r]

\* An acknowledged configuration is what every reader of the file holds.
SafeInv ==
  safe # None => /\ Parsed(file) = safe /\ memory \in {None, safe}
                 /\ ~alone
                 /\ \A r \in OnFile : pc[r] = "read" /\ arg[r] = safe

AgreeInv == AloneInv /\ SafeInv

-----------------------------------------------------------------------------
LEMMA Assumptions ==
  /\ Size \in [Configs -> Nat] /\ \A c \in Configs : Size[c] > 0
  /\ LastStep \in Nat /\ LastStep > 0 /\ 0 \in 0 .. LastStep /\ None \notin Configs /\ SSIDs # {}
  BY InstallerAssumption, NetAssumption

\* What the file parses to, and that a truncated or missing one does not.
LEMMA ParsedFile ==
  /\ \A f \in [head : Configs \cup {None}, size : Nat \cup {-1}] :
       Parsed(f) \in Configs \cup {None}
  /\ Parsed(Truncated) = None /\ Parsed(NoFile) = None
  /\ \A c \in Configs : Parsed(Overwritten(Truncated, c)) = c
  <1>1. \A f \in [head : Configs \cup {None}, size : Nat \cup {-1}] :
          Parsed(f) \in Configs \cup {None}
    BY DEF Parsed
  <1>2. Parsed(Truncated) = None /\ Parsed(NoFile) = None
    BY DEF Parsed, Truncated, NoFile
  <1>3. ASSUME NEW c \in Configs
        PROVE  Parsed(Overwritten(Truncated, c)) = c
    <2>1. Overwritten(Truncated, c) = [head |-> c, size |-> Size[c]]
      BY Assumptions DEF Overwritten, Truncated
    <2> QED
      BY <2>1, Assumptions DEF Parsed
  <1> QED
    BY <1>1, <1>2, <1>3

LEMMA FileType ==
  ASSUME NEW f \in [head : Configs \cup {None}, size : Nat \cup {-1}], NEW c \in Configs
  PROVE  /\ Truncated \in [head : Configs \cup {None}, size : Nat \cup {-1}]
         /\ Overwritten(f, c) \in [head : Configs \cup {None}, size : Nat \cup {-1}]
         /\ PartlyWritten(f, c) \subseteq [head : Configs \cup {None}, size : Nat \cup {-1}]
  BY Assumptions DEF Truncated, Overwritten, PartlyWritten

LEMMA NetIdleType ==
  ASSUME NetIdle
  PROVE  net' \in NetCommand \cup {"idle"} /\ target' \in SSIDs
  BY Assumptions DEF NetIdle

LEMMA TypeInit ==
  ASSUME Init
  PROVE  TypeOK /\ ArgInv
  <1>1. NetTypeOK
    BY Assumptions DEF Init, NetInit, NetTypeOK
  <1>2. ArgInv
    BY DEF Init, ArgInv, OnFile
  <1>3. file \in [head : Configs \cup {None}, size : Nat \cup {-1}]
    BY DEF Init, NoFile
  <1> QED
    BY <1>1, <1>2, <1>3, Assumptions DEF Init, TypeOK, Status, Pc

\* A step that moves one request keeps the types of pc and arg.
LEMMA GoesType ==
  ASSUME TypeOK, ArgInv, NEW r \in Requests, NEW to \in Pc, NEW c \in Configs \cup {None},
         Goes(r, to, c), to \in {"save", "flushed", "read"} => c \in Configs
  PROVE  /\ pc' \in [Requests -> Pc] /\ arg' \in [Requests -> Configs \cup {None}]
         /\ ArgInv'
  BY DEF TypeOK, ArgInv, OnFile, Goes

LEMMA EndsType ==
  ASSUME TypeOK, ArgInv, NEW r \in Requests, Ends(r)
  PROVE  /\ pc' \in [Requests -> Pc] /\ arg' \in [Requests -> Configs \cup {None}]
         /\ ArgInv'
  BY GoesType DEF Ends, Pc

LEMMA TypeStep ==
  ASSUME TypeOK, ArgInv, [Next]_vars
  PROVE  TypeOK' /\ ArgInv'
  <1> USE DEF wizard, history, netVars
  <1>1. ASSUME NEW r \in Requests, SaveOpens(r)
        PROVE  TypeOK' /\ ArgInv'
    <2>1. PICK c \in Configs : Goes(r, "save", c)
      BY <1>1 DEF SaveOpens
    <2> QED
      BY <1>1, <2>1, GoesType, FileType DEF SaveOpens, TypeOK, NetTypeOK, Pc
  <1>2. ASSUME NEW r \in Requests, SaveFlushes(r)
        PROVE  TypeOK' /\ ArgInv'
    <2>1. arg[r] \in Configs /\ "flushed" \in Pc
      BY <1>2 DEF SaveFlushes, ArgInv, OnFile, Pc
    <2> QED
      BY <1>2, <2>1, GoesType, FileType DEF SaveFlushes, TypeOK, NetTypeOK
  <1>3. ASSUME NEW r \in Requests, SaveFails(r)
        PROVE  TypeOK' /\ ArgInv'
    <2>1. arg[r] \in Configs
      BY <1>3 DEF SaveFails, ArgInv, OnFile
    <2>2. {file, disk}' \subseteq [head : Configs \cup {None}, size : Nat \cup {-1}]
      BY <1>3, <2>1, FileType DEF SaveFails, TypeOK
    <2> QED
      BY <1>3, <2>2, EndsType DEF SaveFails, TypeOK, NetTypeOK
  <1>4. ASSUME NEW r \in Requests, SaveEnds(r)
        PROVE  TypeOK' /\ ArgInv'
    <2>1. arg[r] \in Configs
      BY <1>4 DEF SaveEnds, ArgInv, OnFile
    <2> QED
      BY <1>4, <2>1, EndsType DEF SaveEnds, Accept, TypeOK, NetTypeOK, Status
  <1>5. ASSUME NEW r \in Requests, LoadReads(r)
        PROVE  TypeOK' /\ ArgInv'
    <2>1. Parsed(file) \in Configs /\ "read" \in Pc
      BY <1>5, ParsedFile DEF LoadReads, TypeOK, Pc
    <2> QED
      BY <1>5, <2>1, GoesType DEF LoadReads, TypeOK, NetTypeOK
  <1>6. ASSUME NEW r \in Requests, LoadEnds(r)
        PROVE  TypeOK' /\ ArgInv'
    <2>1. arg[r] \in Configs
      BY <1>6 DEF LoadEnds, ArgInv, OnFile
    <2> QED
      BY <1>6, <2>1, EndsType DEF LoadEnds, TypeOK, NetTypeOK
  <1>7. ASSUME NEW r \in Requests, ConnectBegins(r)
        PROVE  TypeOK' /\ ArgInv'
    <2>1. Goes(r, "net", None) /\ "net" \in Pc
      BY <1>7 DEF ConnectBegins, Pc
    <2> QED
      BY <1>7, <2>1, GoesType DEF ConnectBegins, NetBegins, TypeOK, NetTypeOK, NetCommand, Rest
  <1>8. ASSUME NEW r \in Requests, ConnectGoesOn(r)
        PROVE  TypeOK' /\ ArgInv'
    <2>1. NetTypeOK'
      <3>1. CASE NmDeletes \/ NmRefused
        BY <3>1 DEF NmDeletes, NmRefused, TypeOK, NetTypeOK, NetCommand
      <3>2. CASE NetAnswers
        BY <3>2, NetIdleType DEF NetAnswers, NmConnects, WpaConnects, TypeOK, NetTypeOK
      <3> QED
        BY <1>8, <3>1, <3>2 DEF ConnectGoesOn
    <2>2. CASE UNCHANGED <<pc, arg>>
      BY <1>8, <2>1, <2>2 DEF ConnectGoesOn, Rest, TypeOK, ArgInv, OnFile
    <2>3. CASE Ends(r)
      BY <1>8, <2>1, <2>3, EndsType DEF ConnectGoesOn, Rest, TypeOK
    <2> QED
      BY <1>8, <2>2, <2>3 DEF ConnectGoesOn
  <1>9. CASE NextStep
    BY <1>9, Assumptions DEF NextStep, TypeOK, NetTypeOK, ArgInv, OnFile, Status
  <1>10. CASE Reset
    BY <1>10, Assumptions DEF Reset, FreshWizard, TypeOK, NetTypeOK, ArgInv, OnFile, Status
  <1>11. CASE Restart \/ PowerLoss
    <2>1. NetTypeOK'
      BY <1>11, NetIdleType DEF Restart, PowerLoss, Stops, NetStops, TypeOK, NetTypeOK
    <2>2. {file, disk}' \subseteq [head : Configs \cup {None}, size : Nat \cup {-1}]
      BY <1>11 DEF Restart, PowerLoss, Stops, TypeOK
    <2> QED
      BY <1>11, <2>1, <2>2, Assumptions
         DEF Restart, PowerLoss, Stops, FreshWizard, TypeOK, ArgInv, OnFile, Status, Pc
  <1>12. CASE WriteBack
    BY <1>12 DEF WriteBack, TypeOK, NetTypeOK, ArgInv, OnFile
  <1>13. CASE UNCHANGED vars
    BY <1>13 DEF vars, TypeOK, NetTypeOK, ArgInv, OnFile
  <1> QED
    BY <1>1, <1>2, <1>3, <1>4, <1>5, <1>6, <1>7, <1>8, <1>9, <1>10, <1>11, <1>12, <1>13
       DEF Next, Serves

\* TypeOK: the wizard never steps past its end, and what is put into memory is
\* a configuration some page has sent.
THEOREM TypeCorrect == Spec => []TypeOK
  <1>1. Init => TypeOK /\ ArgInv
    BY TypeInit
  <1>2. TypeOK /\ ArgInv /\ [Next]_vars => (TypeOK /\ ArgInv)'
    BY TypeStep
  <1> QED
    BY <1>1, <1>2, PTL DEF Spec

-----------------------------------------------------------------------------
(* Agreement *)

LEMMA AgreeInit ==
  ASSUME Init
  PROVE  AgreeInv
  BY DEF Init, AgreeInv, AloneInv, SafeInv

\* Steps that leave the file, and who is on it, alone.
LEMMA AgreeKept ==
  ASSUME AgreeInv, UNCHANGED <<file, history>>,
         memory' \in {memory, None},
         OnFile' = OnFile, \A r \in OnFile : pc'[r] = pc[r] /\ arg'[r] = arg[r]
  PROVE  AgreeInv'
  <1>1. AloneInv'
    BY DEF AgreeInv, AloneInv, history, OnFile, Saving
  <1>2. SafeInv'
    BY DEF AgreeInv, SafeInv, history
  <1> QED
    BY <1>1, <1>2 DEF AgreeInv

LEMMA AgreeStep ==
  ASSUME TypeOK, ArgInv, AgreeInv, [Next]_vars
  PROVE  AgreeInv'
  <1> USE DEF wizard, history
  <1>1. ASSUME NEW r \in Requests, SaveOpens(r)
        PROVE  AgreeInv'
    <2>1. PICK c \in Configs : Goes(r, "save", c)
      BY <1>1 DEF SaveOpens
    <2>2. pc' = [pc EXCEPT ![r] = "save"] /\ pc[r] = "idle"
      BY <1>1, <2>1 DEF SaveOpens, Goes
    <2>3. OnFile = {} => OnFile' = {r} /\ r \in Saving'
      BY <2>2 DEF TypeOK, OnFile, Saving
    <2>4. pc'[r] = "save"
      BY <2>2 DEF TypeOK
    <2>5. AloneInv'
      BY <1>1, <2>3, <2>4 DEF SaveOpens, AloneInv
    <2>6. SafeInv'
      BY <1>1 DEF SaveOpens, SafeInv
    <2> QED
      BY <2>5, <2>6 DEF AgreeInv
  <1>2. ASSUME NEW r \in Requests, SaveFlushes(r)
        PROVE  AgreeInv'
    <2>1. /\ pc[r] = "save" /\ r \in OnFile /\ pc' = [pc EXCEPT ![r] = "flushed"]
          /\ arg' = arg
      BY <1>2 DEF SaveFlushes, Goes, OnFile, TypeOK
    <2>2. safe' = None
      BY <1>2, <2>1 DEF SaveFlushes, AgreeInv, SafeInv
    <2>3. ASSUME alone
          PROVE  /\ file = Truncated /\ OnFile = {r}
      BY <2>1, <2>3 DEF AgreeInv, AloneInv
    <2>4. ASSUME alone
          PROVE  Parsed(file') = arg[r] /\ OnFile' = {r} /\ r \in Saving' /\ pc'[r] = "flushed"
      <3>1. arg[r] \in Configs
        BY <2>1 DEF ArgInv
      <3>2. Parsed(file') = arg[r]
        BY <1>2, <2>3, <2>4, <3>1, ParsedFile DEF SaveFlushes
      <3> QED
        BY <2>1, <2>3, <2>4, <3>2 DEF OnFile, Saving, TypeOK
    <2>5. AloneInv'
      <3> SUFFICES ASSUME alone' PROVE AloneInv'
        BY DEF AloneInv
      <3>1. alone
        BY <1>2 DEF SaveFlushes
      <3>2. Parsed(file)' = arg'[r]
        BY <2>1, <2>4, <3>1 DEF Parsed
      <3> QED
        BY <2>4, <3>1, <3>2 DEF AloneInv
    <2> QED
      BY <2>2, <2>5 DEF AgreeInv, SafeInv
  <1>3. ASSUME NEW r \in Requests, SaveFails(r)
        PROVE  AgreeInv'
    <2>1. safe' = None /\ ~alone'
      BY <1>3 DEF SaveFails, AgreeInv, SafeInv, OnFile
    <2> QED
      BY <2>1 DEF AgreeInv, AloneInv, SafeInv
  <1>4. ASSUME NEW r \in Requests, SaveEnds(r)
        PROVE  AgreeInv'
    <2>1. /\ pc[r] = "flushed" /\ memory' = arg[r] /\ ~alone' /\ file' = file
          /\ safe' = IF alone THEN arg[r] ELSE None
          /\ pc' = [pc EXCEPT ![r] = "idle"] /\ arg' = [arg EXCEPT ![r] = None]
      BY <1>4 DEF SaveEnds, Accept, Ends, Goes
    <2>2. ASSUME alone
          PROVE  /\ Parsed(file) = arg[r]
                 /\ \A o \in OnFile \ {r} : pc[o] = "read" /\ arg[o] = arg[r]
      <3>1. PICK s \in Saving :
              /\ pc[s] = "flushed" => Parsed(file) = arg[s]
              /\ \A o \in OnFile \ {s} : pc[o] = "read" /\ arg[o] = arg[s]
        BY <2>2 DEF AgreeInv, AloneInv
      <3>2. s = r
        BY <2>1, <3>1 DEF OnFile
      <3> QED
        BY <2>1, <3>1, <3>2
    <2>3. OnFile' = OnFile \ {r} /\ \A o \in OnFile \ {r} : pc'[o] = pc[o] /\ arg'[o] = arg[o]
      BY <2>1 DEF OnFile, TypeOK
    <2>4. SafeInv'
      <3> SUFFICES ASSUME safe' # None PROVE SafeInv'
        BY DEF SafeInv
      <3>1. alone /\ safe' = arg[r]
        BY <2>1
      <3>2. Parsed(file)' = safe'
        BY <2>1, <2>2, <3>1 DEF Parsed
      <3> QED
        BY <2>1, <2>2, <2>3, <3>1, <3>2 DEF SafeInv
    <2> QED
      BY <2>1, <2>4 DEF AgreeInv, AloneInv
  <1>5. ASSUME NEW r \in Requests, LoadReads(r)
        PROVE  AgreeInv'
    <2>1. /\ pc[r] = "idle" /\ Parsed(file) # None /\ UNCHANGED <<file, memory, history>>
          /\ pc' = [pc EXCEPT ![r] = "read"] /\ arg' = [arg EXCEPT ![r] = Parsed(file)]
      BY <1>5 DEF LoadReads, Goes
    <2>2. /\ OnFile' = OnFile \cup {r} /\ r \notin OnFile
          /\ \A o \in OnFile : pc'[o] = pc[o] /\ arg'[o] = arg[o]
          /\ pc'[r] = "read" /\ arg'[r] = Parsed(file)
      BY <2>1 DEF OnFile, TypeOK
    <2>3. Parsed(file)' = Parsed(file)
      BY <2>1 DEF Parsed
    <2>4. AloneInv'
      <3> SUFFICES ASSUME alone' PROVE AloneInv'
        BY DEF AloneInv
      <3>1. PICK s \in Saving :
              /\ pc[s] = "save" => file = Truncated /\ OnFile = {s}
              /\ pc[s] = "flushed" => Parsed(file) = arg[s]
              /\ \A o \in OnFile \ {s} : pc[o] = "read" /\ arg[o] = arg[s]
        BY <2>1 DEF AgreeInv, AloneInv
      <3>2. pc[s] = "flushed" /\ s \in OnFile
        BY <2>1, <3>1, ParsedFile DEF Saving, OnFile
      <3>3. s \in Saving' /\ pc'[s] = "flushed" /\ arg'[s] = arg[s]
        BY <2>2, <3>1, <3>2 DEF Saving
      <3>4. \A o \in OnFile' \ {s} : pc'[o] = "read" /\ arg'[o] = arg'[s]
        BY <2>2, <3>1, <3>2, <3>3
      <3> QED
        BY <2>3, <3>1, <3>2, <3>3, <3>4 DEF AloneInv
    <2>5. SafeInv'
      BY <2>1, <2>2, <2>3 DEF AgreeInv, SafeInv
    <2> QED
      BY <2>4, <2>5 DEF AgreeInv
  <1>6. ASSUME NEW r \in Requests, LoadEnds(r)
        PROVE  AgreeInv'
    <2>1. /\ pc[r] = "read" /\ r \in OnFile /\ memory' = arg[r] /\ UNCHANGED <<file, history>>
          /\ pc' = [pc EXCEPT ![r] = "idle"] /\ arg' = [arg EXCEPT ![r] = None]
      BY <1>6 DEF LoadEnds, Ends, Goes, OnFile
    <2>2. OnFile' = OnFile \ {r} /\ \A o \in OnFile \ {r} : pc'[o] = pc[o] /\ arg'[o] = arg[o]
      BY <2>1 DEF OnFile, TypeOK
    <2>3. Parsed(file)' = Parsed(file)
      BY <2>1 DEF Parsed
    <2>4. AloneInv'
      <3> SUFFICES ASSUME alone' PROVE AloneInv'
        BY DEF AloneInv
      <3>1. PICK s \in Saving :
              /\ pc[s] = "save" => file = Truncated /\ OnFile = {s}
              /\ pc[s] = "flushed" => Parsed(file) = arg[s]
              /\ \A o \in OnFile \ {s} : pc[o] = "read" /\ arg[o] = arg[s]
        BY <2>1 DEF AgreeInv, AloneInv
      <3>2. s # r /\ pc[s] = "flushed" /\ s \in OnFile
        BY <2>1, <3>1 DEF Saving, OnFile
      <3>3. s \in Saving' /\ pc'[s] = "flushed" /\ arg'[s] = arg[s]
        BY <2>2, <3>1, <3>2 DEF Saving
      <3>4. \A o \in OnFile' \ {s} : pc'[o] = "read" /\ arg'[o] = arg'[s]
        BY <2>2, <3>1, <3>2, <3>3
      <3> QED
        BY <2>3, <3>1, <3>2, <3>3, <3>4 DEF AloneInv
    <2>5. SafeInv'
      BY <2>1, <2>2, <2>3 DEF AgreeInv, SafeInv
    <2> QED
      BY <2>4, <2>5 DEF AgreeInv
  <1>7. ASSUME NEW r \in Requests, ConnectBegins(r) \/ ConnectGoesOn(r)
        PROVE  AgreeInv'
    <2>1. /\ r \notin OnFile /\ \A o \in Requests \ {r} : pc'[o] = pc[o] /\ arg'[o] = arg[o]
          /\ pc'[r] \in {"net", "idle"}
      BY <1>7 DEF ConnectBegins, ConnectGoesOn, Goes, Ends, OnFile, TypeOK
    <2>2. OnFile' = OnFile
      BY <2>1 DEF OnFile
    <2> QED
      BY <1>7, <2>1, <2>2, AgreeKept DEF ConnectBegins, ConnectGoesOn, Rest, OnFile
  <1>8. CASE NextStep \/ Reset
    BY <1>8, AgreeKept DEF NextStep, Reset, OnFile
  <1>9. CASE Restart \/ PowerLoss
    <2>1. OnFile' = {} /\ memory' = None /\ alone' = FALSE
      BY <1>9 DEF Restart, PowerLoss, Stops, OnFile
    <2>2. safe' # None => safe' = safe /\ Parsed(file)' = Parsed(file)
      BY <1>9 DEF Restart, PowerLoss, Parsed
    <2> QED
      BY <2>1, <2>2 DEF AgreeInv, AloneInv, SafeInv
  <1>10. CASE WriteBack
    BY <1>10, AgreeKept DEF WriteBack, OnFile
  <1>11. CASE UNCHANGED vars
    BY <1>11, AgreeKept DEF vars, OnFile
  <1> QED
    BY <1>1, <1>2, <1>3, <1>4, <1>5, <1>6, <1>7, <1>8, <1>9, <1>10, <1>11 DEF Next, Serves

\* Agreement: a configuration acknowledged by a save that met no other request
\* is in the file and is what is served until the next save begins, through
\* readers and restarts of the process at any point, and through every power
\* cut that comes after the kernel wrote it back.
THEOREM AcknowledgedIsServed == Spec => []Agreement
  <1> DEFINE IInv == TypeOK /\ ArgInv /\ AgreeInv
  <1>1. Init => IInv
    BY TypeInit, AgreeInit
  <1>2. IInv /\ [Next]_vars => IInv'
    BY TypeStep, AgreeStep
  <1>3. IInv => Agreement
    BY DEF AgreeInv, SafeInv, Agreement
  <1> QED
    BY <1>1, <1>2, <1>3, PTL DEF Spec

-----------------------------------------------------------------------------
(* The wizard *)

LEMMA WizardStep ==
  ASSUME TypeOK, ArgInv, WizardConsistent, [Next]_vars
  PROVE  WizardConsistent'
  <1> USE DEF WizardConsistent, wizard
  <1>1. ASSUME NEW r \in Requests, SaveEnds(r)
        PROVE  WizardConsistent'
    <2>1. arg[r] \in Configs
      BY <1>1 DEF SaveEnds, ArgInv, OnFile
    <2> QED
      BY <1>1, <2>1, Assumptions DEF SaveEnds, Accept
  <1>2. ASSUME NEW r \in Requests, LoadEnds(r)
        PROVE  WizardConsistent'
    <2>1. arg[r] \in Configs
      BY <1>2 DEF LoadEnds, ArgInv, OnFile
    <2> QED
      BY <1>2, <2>1, Assumptions DEF LoadEnds
  <1>3. CASE NextStep
    BY <1>3, Assumptions DEF NextStep, TypeOK
  <1>4. CASE Reset \/ Restart \/ PowerLoss
    BY <1>4 DEF Reset, Restart, PowerLoss, Stops, FreshWizard
  <1>5. CASE UNCHANGED <<memory, status, step, named>>
    BY <1>5
  <1> QED
    BY <1>1, <1>2, <1>3, <1>4, <1>5
       DEF Next, Serves, SaveOpens, SaveFlushes, SaveFails, LoadReads, ConnectBegins,
           ConnectGoesOn, WriteBack, Rest, vars

\* WizardConsistent: through every order of saves, steps, resets and restarts
\* the provisioning state never contradicts itself or the configuration.
THEOREM WizardIsConsistent == Spec => []WizardConsistent
  <1> DEFINE IInv == TypeOK /\ ArgInv /\ WizardConsistent
  <1>1. Init => IInv
    BY TypeInit DEF Init, WizardConsistent
  <1>2. IInv /\ [Next]_vars => IInv'
    BY TypeStep, WizardStep
  <1>3. IInv => WizardConsistent
    OBVIOUS
  <1> QED
    BY <1>1, <1>2, <1>3, PTL DEF Spec

-----------------------------------------------------------------------------
(* Networks *)

\* Only the commands of a connect request touch what NetworkManager keeps.
LEMMA NetSteps ==
  ASSUME [Next]_vars
  PROVE  UNCHANGED netVars \/ NetBegins \/ NetCommandEnds \/ (Stops /\ NetStops)
  BY DEF Next, Serves, SaveOpens, SaveFlushes, SaveFails, SaveEnds, LoadReads, LoadEnds,
         ConnectBegins, ConnectGoesOn, NetAnswers, NetCommandEnds, NextStep, Reset, Restart,
         PowerLoss, Stops, WriteBack, vars

\* NmTrueIsSaved: what nmcli answers True to is saved.
THEOREM NmTrueMeansSaved == Spec => NmTrueIsSaved
  <1>1. [Next]_vars =>
          [net = "connect" /\ net' = "idle" /\ ~Stops => target \in saved']_vars
    <2> SUFFICES ASSUME [Next]_vars, net = "connect", net' = "idle", ~Stops
                 PROVE  target \in saved'
      OBVIOUS
    <2> QED
      BY NetSteps DEF netVars, NetBegins, NetCommandEnds, NmDeletes, NmConnects, NmRefused,
                      WpaConnects
  <1> QED
    BY <1>1, PTL DEF Spec, NmTrueIsSaved

-----------------------------------------------------------------------------
(* What a scan says *)

\* Every channel of the bands comes out of its frequency, in MHz or in GHz.
LEMMA ChannelsDecoded ==
  /\ \A ch \in 1 .. 13 : FreqToChannel(FrequencyMhz(2407 + 5 * ch)) = ch
  /\ \A ch \in 32 .. 177 : FreqToChannel(FrequencyMhz((5000 + 5 * ch) * 1000)) = ch
  <1>1. ASSUME NEW ch \in Int, 1 <= ch, ch <= 13
        PROVE  FreqToChannel(FrequencyMhz(2407 + 5 * ch)) = ch
    <2>1. FrequencyMhz(2407 + 5 * ch) = 2407 + 5 * ch
      BY <1>1 DEF FrequencyMhz
    <2>2. FreqToChannel(2407 + 5 * ch) = ((2407 + 5 * ch) - 2407) \div 5
      BY <1>1 DEF FreqToChannel
    <2>3. ((2407 + 5 * ch) - 2407) \div 5 = ch
      BY <1>1
    <2> QED
      BY <2>1, <2>2, <2>3
  <1>2. ASSUME NEW ch \in Int, 32 <= ch, ch <= 177
        PROVE  FreqToChannel(FrequencyMhz((5000 + 5 * ch) * 1000)) = ch
    <2>1. ((5000 + 5 * ch) * 1000) \div 1000 = 5000 + 5 * ch
      BY <1>2
    <2>2. FrequencyMhz((5000 + 5 * ch) * 1000) = 5000 + 5 * ch
      BY <1>2, <2>1 DEF FrequencyMhz
    <2>3. FreqToChannel(5000 + 5 * ch) = ((5000 + 5 * ch) - 5000) \div 5
      BY <1>2 DEF FreqToChannel
    <2>4. ((5000 + 5 * ch) - 5000) \div 5 = ch
      BY <1>2
    <2> QED
      BY <2>2, <2>3, <2>4
  <1>3. (\A ch \in 1 .. 13 : ch \in Int /\ 1 <= ch /\ ch <= 13)
        /\ (\A ch \in 32 .. 177 : ch \in Int /\ 32 <= ch /\ ch <= 177)
    OBVIOUS
  <1> QED
    BY <1>1, <1>2, <1>3

\* A strength is a percentage that grows with the signal, for every value of
\* either unit.
LEMMA StrengthsDecoded ==
  ASSUME NEW v \in Int
  PROVE  /\ SignalStrength(v) \in 0 .. 100
         /\ v # -1 => SignalStrength(v) <= SignalStrength(v + 1)
  BY DEF SignalStrength, Clamp

\* A ratio of 70 grows with its numerator, from 0 to 100 per cent.
LEMMA RatiosDecoded ==
  /\ \A n \in 0 .. 69 : SignalRatio(n, 70) <= SignalRatio(n + 1, 70)
  /\ SignalRatio(0, 70) = 0 /\ SignalRatio(70, 70) = 100
  <1>1. \A n \in Int : SignalRatio(n, 70) = Clamp((200 * n + 70) \div 140)
    BY DEF SignalRatio
  <1>2. ASSUME NEW n \in 0 .. 69
        PROVE  SignalRatio(n, 70) <= SignalRatio(n + 1, 70)
    BY <1>1 DEF Clamp
  <1>3. SignalRatio(0, 70) = 0 /\ SignalRatio(70, 70) = 100
    BY <1>1 DEF Clamp
  <1> QED
    BY <1>2, <1>3

\* WifiDecoded, for every state and, by StrengthsDecoded, every reading.
THEOREM WifiIsDecoded == Spec => []WifiDecoded
  <1>1. ChannelsInOrder
    BY ChannelsDecoded DEF ChannelsInOrder
  <1>2. StrengthsInOrder
    <2>1. \A v \in -120 .. 120 : v \in Int
      OBVIOUS
    <2> QED
      BY <2>1, StrengthsDecoded, RatiosDecoded DEF StrengthsInOrder
  <1>3. WifiDecoded
    BY <1>1, <1>2 DEF WifiDecoded
  <1> QED
    BY <1>3, PTL

\* ScanListsCells, for every state; CellsAreListed says it of any number of
\* cells, with any names and numbers.
THEOREM ScannedCellsListed == Spec => []ScanListsCells
  <1>1. \A n \in 0 .. 2 : [1 .. n -> PrintedOf(SSIDs, {-60, 5180})] \subseteq Seq(PrintedOf(SSIDs, Int))
    <2>1. PrintedOf(SSIDs, {-60, 5180}) \subseteq PrintedOf(SSIDs, Int)
      BY DEF PrintedOf
    <2> QED
      BY <2>1
  <1>2. CellsInOrder
    BY <1>1, CellsAreListed DEF CellsInOrder
  <1>3. ScanListsCells
    BY <1>2 DEF ScanListsCells
  <1> QED
    BY <1>3, PTL
=============================================================================
