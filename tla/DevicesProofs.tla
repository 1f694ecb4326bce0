----------------------------- MODULE DevicesProofs -----------------------------
(***************************************************************************)
(* Theorems about what is kept on a device (Devices).                      *)
(*                                                                         *)
(* AgentInstall: what runs, and what the service manager would start, is   *)
(* whole (InstalledIsWhole).  SlotInv follows an installer from the slot   *)
(* it takes to the unit file that names it; AloneInv says what an overlap  *)
(* of installers or of one with an agent's cleanup is recorded as.         *)
(*                                                                         *)
(* Certificates: what the server stored it accepts until it expires        *)
(* (StoredIsAccepted), and what fails fails for a reason that clocks,      *)
(* expiry or other blocks give (RefusedForAReason).  BlocksInv says how    *)
(* the stored blocks were judged when they came, WorkInv what a node has   *)
(* made by its own clock, KeysInv that every key has one certificate.      *)
(*                                                                         *)
(* MlsGroups: the members and the server agree about a group (GroupsAgree).*)
(* GroupsInv follows every message from the outbox of its author over the  *)
(* server's store to the members it is owed to, and says of every member   *)
(* that its log is a beginning of the server's, then entries of its own.   *)
(*                                                                         *)
(* ClientStore: a client shows what it was told (ShowsWhatItWasTold).      *)
(* KeptInv follows the updates of a kind from the log over the channel to  *)
(* the row and the screen, as long as nothing excuses the kind.            *)
(*                                                                         *)
(* MlsStorage: the two storages answer alike (BackendsAgree).  StorageInv  *)
(* says it of every item, and of every proposal of a queue on its own.     *)
(*                                                                         *)
(* All parts: DevicesTypeOK.  UpdatesInv says who holds the mutex of an    *)
(* update, ClocksInv that clocks stay together, TurnsInv that no ratchet   *)
(* passes the number of messages that were sent.                           *)
(***************************************************************************)
EXTENDS Devices, WellFoundedInduction, SequenceTheorems, TLAPS

-----------------------------------------------------------------------------
(* The installer.                                                          *)

InstallTypes ==
    /\ disk \in [Install!SlotSet -> {"free", "torn", "ok"}]
    /\ unit \in Install!SlotSet \cup {"none", "torn"}
    /\ loaded \in Install!SlotSet \cup {"none", "bad"}
    /\ service \in [at : {"off", "cleanup", "run", "failed"},
                    slot : Install!SlotSet \cup {"none"}, next : 1 .. Len(Slots)]
    /\ Install!Active => service.slot \in Install!SlotSet
    /\ installer \in [{"update", "manual"} ->
                        [at : Install!Busy \cup {"off", "done", "failed"},
                         slot : Install!SlotSet \cup {"none"}]]
    /\ \A p \in {"update", "manual"} :
          installer[p].at \in Install!Busy \ {"pick"} => installer[p].slot \in Install!SlotSet
    /\ removal \in {"off", "base", "stop", "unit", "done", "cut"}
    /\ raced \in BOOLEAN

\* RunningIsWhole, also while the agent is being removed, up to the step that stops it.
RunsWhole == Install!Active /\ removal # "stop" => disk[service.slot] = "ok"

\* Nobody installs by hand while the agent is being removed.
ByHandInv == removal \in {"base", "stop", "unit"} => installer["manual"].at \notin Install!Busy

\* One installer at a time, and none while an agent cleans up.
AloneInv ==
    ~raced =>
        /\ installer["update"].at \notin Install!Busy \/ installer["manual"].at \notin Install!Busy
        /\ service.at = "cleanup" =>
              \A p \in {"update", "manual"} : installer[p].at \notin Install!Busy

\* What an installer has done to its slot, and to the unit file.
SlotInv ==
    ~raced /\ removal # "stop" =>
        \A p \in {"update", "manual"} :
            /\ installer[p].at = "create" => disk[installer[p].slot] = "free"
            /\ installer[p].at = "copy" => disk[installer[p].slot] = "torn"
            /\ installer[p].at \in {"unit", "write", "reload", "check", "restart"} =>
                  disk[installer[p].slot] = "ok"
            /\ installer[p].at = "reload" => unit \in {installer[p].slot, "none"}

\* What systemd would start, now or after it has read the unit file again.
UnitInv ==
    ~raced /\ removal \in {"off", "done"} =>
        /\ loaded \in Install!SlotSet => disk[loaded] = "ok"
        /\ unit \in Install!SlotSet => disk[unit] = "ok"
        /\ (\A p \in {"update", "manual"} : installer[p].at \notin {"write", "reload"}) =>
              loaded = unit
        /\ service.at = "cleanup" /\ loaded \in Install!SlotSet => service.slot = loaded

\* The inductive invariant.
InstallInv == InstallTypes /\ RunsWhole /\ ByHandInv /\ AloneInv /\ SlotInv /\ UnitInv

LEMMA SlotFacts ==
    ASSUME Install!InstallAssumption
    PROVE  /\ "none" \notin Install!SlotSet /\ "torn" \notin Install!SlotSet
           /\ "bad" \notin Install!SlotSet
           /\ Len(Slots) \in Nat /\ 1 \in 1 .. Len(Slots) /\ Len(Slots) \in 1 .. Len(Slots)
           /\ DOMAIN Slots = 1 .. Len(Slots)
           /\ \A i \in 1 .. Len(Slots) : Slots[i] \in Install!SlotSet
<1>1. Slots \in Seq(Install!SlotSet) /\ Slots # << >>
  BY DEF Install!InstallAssumption
<1>2. Len(Slots) \in Nat /\ Len(Slots) # 0
  BY <1>1
<1> QED BY <1>1, <1>2 DEF Install!InstallAssumption

LEMMA StartedFacts ==
    ASSUME Install!InstallAssumption, InstallTypes, NEW s,
           s = Install!Off \/ s = Install!Started
    PROVE  /\ s \in [at : {"off", "cleanup", "run", "failed"},
                     slot : Install!SlotSet \cup {"none"}, next : 1 .. Len(Slots)]
           /\ s.at \in {"off", "failed", "cleanup"}
           /\ s.at = "cleanup" =>
                 /\ s.slot = loaded /\ loaded \in Install!SlotSet /\ disk[loaded] = "ok"
BY SlotFacts DEF Install!Off, Install!Started

\* One installer takes a step.
LEMMA InstallerMoves ==
    ASSUME InstallTypes, NEW p \in {"update", "manual"},
           NEW a \in Install!Busy \cup {"off", "done", "failed"},
           NEW s \in Install!SlotSet \cup {"none"},
           \/ installer' = [installer EXCEPT ![p] = [at |-> a, slot |-> s]]
           \/ s = installer[p].slot /\ installer' = [installer EXCEPT ![p].at = a]
    PROVE  /\ installer' \in [{"update", "manual"} ->
                                [at : Install!Busy \cup {"off", "done", "failed"},
                                 slot : Install!SlotSet \cup {"none"}]]
           /\ installer'[p].at = a /\ installer'[p].slot = s
           /\ \A q \in {"update", "manual"} : q # p => installer'[q] = installer[q]
<1>1. installer \in [{"update", "manual"} ->
                       [at : Install!Busy \cup {"off", "done", "failed"},
                        slot : Install!SlotSet \cup {"none"}]]
  BY DEF InstallTypes
<1>2. PICK B : B = Install!Busy \cup {"off", "done", "failed"}
  OBVIOUS
<1>3. PICK T : T = Install!SlotSet \cup {"none"}
  OBVIOUS
<1>4. installer \in [{"update", "manual"} -> [at : B, slot : T]] /\ a \in B /\ s \in T
  BY <1>1, <1>2, <1>3
<1>5. CASE installer' = [installer EXCEPT ![p] = [at |-> a, slot |-> s]]
  BY <1>2, <1>3, <1>4, <1>5
<1>6. CASE s = installer[p].slot /\ installer' = [installer EXCEPT ![p].at = a]
  BY <1>2, <1>3, <1>4, <1>6
<1> QED BY <1>5, <1>6

\* Installers are cut off.
LEMMA CutFacts ==
    ASSUME Install!InstallAssumption, InstallTypes, NEW ps \in SUBSET {"update", "manual"},
           Install!CutOff(ps)
    PROVE  /\ installer' \in [{"update", "manual"} ->
                                [at : Install!Busy \cup {"off", "done", "failed"},
                                 slot : Install!SlotSet \cup {"none"}]]
           /\ \A p \in {"update", "manual"} :
                 /\ p \in ps => installer'[p].at = "off"
                 /\ p \notin ps => installer'[p] = installer[p]
           /\ raced' \in BOOLEAN
           /\ ~raced' =>
                 /\ ~raced
                 /\ \A p \in ps : installer[p].at \notin {"write", "reload"}
                 /\ service'.at = "cleanup" =>
                       \A p \in {"update", "manual"} \ ps : installer[p].at \notin Install!Busy
<1>1. /\ installer' = [p \in {"update", "manual"} |->
                         IF p \in ps THEN [at |-> "off", slot |-> "none"] ELSE installer[p]]
      /\ raced' = \/ raced
                  \/ \E p \in ps : installer[p].at \in {"write", "reload"}
                  \/ /\ service'.at = "cleanup"
                     /\ \E p \in {"update", "manual"} \ ps : installer[p].at \in Install!Busy
  BY DEF Install!CutOff, Install!Installers, Install!NoInstaller
<1>2. installer \in [{"update", "manual"} ->
                       [at : Install!Busy \cup {"off", "done", "failed"},
                        slot : Install!SlotSet \cup {"none"}]]
  BY DEF InstallTypes
<1>3. raced \in BOOLEAN
  BY DEF InstallTypes
<1>4. \A p \in {"update", "manual"} :
          /\ p \in ps => installer'[p] = [at |-> "off", slot |-> "none"]
          /\ p \notin ps => installer'[p] = installer[p]
  BY <1>1
<1>5. installer' \in [{"update", "manual"} ->
                        [at : Install!Busy \cup {"off", "done", "failed"},
                         slot : Install!SlotSet \cup {"none"}]]
  <2>1. PICK B : B = Install!Busy \cup {"off", "done", "failed"}
    OBVIOUS
  <2>2. PICK T : T = Install!SlotSet \cup {"none"}
    OBVIOUS
  <2>3. [at |-> "off", slot |-> "none"] \in [at : B, slot : T]
    BY <2>1, <2>2
  <2>4. \A p \in {"update", "manual"} : installer[p] \in [at : B, slot : T]
    BY <1>2, <2>1, <2>2
  <2> QED BY <1>1, <2>1, <2>2, <2>3, <2>4
<1> QED BY <1>1, <1>3, <1>4, <1>5

\* The service starts or stops, and takes installers with it.
LEMMA ServiceChanges ==
    ASSUME Install!InstallAssumption, InstallInv, NEW ps \in SUBSET {"update", "manual"},
           Install!CutOff(ps), service' = Install!Off \/ service' = Install!Started,
           UNCHANGED <<disk, unit, loaded, removal>>
    PROVE  InstallInv'
<1>1. InstallTypes
  BY DEF InstallInv
<1>2. PICK s : s = service'
  OBVIOUS
<1>3. /\ s \in [at : {"off", "cleanup", "run", "failed"},
                slot : Install!SlotSet \cup {"none"}, next : 1 .. Len(Slots)]
      /\ s.at \in {"off", "failed", "cleanup"}
      /\ s.at = "cleanup" => s.slot = loaded /\ loaded \in Install!SlotSet /\ disk[loaded] = "ok"
  BY <1>1, <1>2, StartedFacts
<1>4. /\ installer' \in [{"update", "manual"} ->
                           [at : Install!Busy \cup {"off", "done", "failed"},
                            slot : Install!SlotSet \cup {"none"}]]
      /\ \A p \in {"update", "manual"} :
            /\ p \in ps => installer'[p].at = "off"
            /\ p \notin ps => installer'[p] = installer[p]
      /\ raced' \in BOOLEAN
      /\ ~raced' =>
            /\ ~raced
            /\ \A p \in ps : installer[p].at \notin {"write", "reload"}
            /\ service'.at = "cleanup" =>
                  \A p \in {"update", "manual"} \ ps : installer[p].at \notin Install!Busy
  BY <1>1, CutFacts
<1>5. "off" \notin Install!Busy
  BY DEF Install!Busy
<1>6. InstallTypes'
  BY <1>1, <1>2, <1>3, <1>4, <1>5 DEF InstallTypes, Install!Active
<1>7. RunsWhole'
  BY <1>2, <1>3 DEF RunsWhole, Install!Active
<1>8. ByHandInv' /\ AloneInv'
  BY <1>4, <1>5 DEF InstallInv, ByHandInv, AloneInv
<1>9. SlotInv'
  BY <1>4 DEF InstallInv, SlotInv
<1>10. UnitInv'
  BY <1>2, <1>3, <1>4 DEF InstallInv, UnitInv
<1> QED BY <1>6, <1>7, <1>8, <1>9, <1>10 DEF InstallInv

LEMMA PowerLossStep ==
    ASSUME Install!InstallAssumption, InstallInv, Install!PowerLoss
    PROVE  InstallInv'
<1>1. InstallTypes
  BY DEF InstallInv
<1>2. /\ service' = Install!Off /\ UNCHANGED <<disk, unit>>
      /\ loaded' = IF unit = "torn" THEN "bad" ELSE unit
      /\ Install!CutOff({"update", "manual"})
      /\ removal' = IF removal \in {"off", "done"} THEN removal ELSE "cut"
  BY DEF Install!PowerLoss, Install!Installers
<1>3. PICK s : s = service'
  OBVIOUS
<1>4. /\ s \in [at : {"off", "cleanup", "run", "failed"},
                slot : Install!SlotSet \cup {"none"}, next : 1 .. Len(Slots)]
      /\ s.at = "off"
  BY <1>1, <1>2, <1>3, StartedFacts DEF Install!Off
<1>5. /\ installer' \in [{"update", "manual"} ->
                           [at : Install!Busy \cup {"off", "done", "failed"},
                            slot : Install!SlotSet \cup {"none"}]]
      /\ \A p \in {"update", "manual"} : installer'[p].at = "off"
      /\ raced' \in BOOLEAN
      /\ ~raced' => /\ ~raced
                    /\ \A p \in {"update", "manual"} : installer[p].at \notin {"write", "reload"}
  BY <1>1, <1>2, CutFacts
<1>6. "off" \notin Install!Busy
  BY DEF Install!Busy
<1>7. InstallTypes'
  BY <1>1, <1>2, <1>3, <1>4, <1>5, <1>6 DEF InstallTypes, Install!Active
<1>8. RunsWhole' /\ ByHandInv' /\ AloneInv' /\ SlotInv'
  BY <1>3, <1>4, <1>5, <1>6 DEF RunsWhole, ByHandInv, AloneInv, SlotInv, Install!Active
<1>9. UnitInv'
  BY <1>1, <1>2, <1>3, <1>4, <1>5, SlotFacts DEF InstallInv, InstallTypes, UnitInv
<1> QED BY <1>7, <1>8, <1>9 DEF InstallInv

LEMMA DisableStep ==
    ASSUME Install!InstallAssumption, InstallInv, Install!DisableService
    PROVE  InstallInv'
<1>1. InstallTypes
  BY DEF InstallInv
<1>2. /\ service' = Install!Off /\ UNCHANGED <<disk, unit, loaded>>
      /\ Install!CutOff({"update"}) /\ removal = "stop" /\ removal' = "unit"
  BY DEF Install!DisableService
<1>3. PICK s : s = service'
  OBVIOUS
<1>4. /\ s \in [at : {"off", "cleanup", "run", "failed"},
                slot : Install!SlotSet \cup {"none"}, next : 1 .. Len(Slots)]
      /\ s.at = "off"
  BY <1>1, <1>2, <1>3, StartedFacts DEF Install!Off
<1>5. /\ installer' \in [{"update", "manual"} ->
                           [at : Install!Busy \cup {"off", "done", "failed"},
                            slot : Install!SlotSet \cup {"none"}]]
      /\ installer'["update"].at = "off" /\ installer'["manual"] = installer["manual"]
      /\ raced' \in BOOLEAN
  BY <1>1, <1>2, CutFacts
<1>6. installer["manual"].at \notin Install!Busy /\ "off" \notin Install!Busy
  BY <1>2 DEF InstallInv, ByHandInv, Install!Busy
<1>7. InstallTypes'
  BY <1>1, <1>2, <1>3, <1>4, <1>5, <1>6 DEF InstallTypes, Install!Active
<1>8. RunsWhole' /\ ByHandInv' /\ AloneInv'
  BY <1>2, <1>3, <1>4, <1>5, <1>6 DEF RunsWhole, ByHandInv, AloneInv, Install!Active
<1>9. SlotInv'
  BY <1>5, <1>6 DEF SlotInv, Install!Busy
<1>10. UnitInv'
  BY <1>2 DEF UnitInv
<1> QED BY <1>7, <1>8, <1>9, <1>10 DEF InstallInv

\* cleanup_old_installations never removes what runs or would be started.
LEMMA CleanupStep ==
    ASSUME Install!InstallAssumption, InstallInv, Install!Cleanup
    PROVE  InstallInv'
<1>1. /\ InstallTypes /\ service.at = "cleanup"
      /\ UNCHANGED <<unit, loaded, installer, removal, raced>>
  BY DEF InstallInv, Install!Cleanup
<1>2. PICK x \in Install!SlotSet : x = Slots[service.next]
  BY <1>1, SlotFacts DEF InstallTypes
<1>3. /\ disk' \in [Install!SlotSet -> {"free", "torn", "ok"}]
      /\ disk'[service.slot] = disk[service.slot]
  <2>1. service.slot \in Install!SlotSet /\ disk \in [Install!SlotSet -> {"free", "torn", "ok"}]
    BY <1>1 DEF InstallTypes, Install!Active
  <2>2. disk' = IF x = service.slot THEN disk ELSE [disk EXCEPT ![x] = "free"]
    BY <1>2 DEF Install!Cleanup
  <2> QED BY <1>2, <2>1, <2>2
<1>4. /\ service' \in [at : {"off", "cleanup", "run", "failed"},
                       slot : Install!SlotSet \cup {"none"}, next : 1 .. Len(Slots)]
      /\ service'.slot = service.slot
  <2>1. PICK T : T = Install!SlotSet \cup {"none"}
    OBVIOUS
  <2>a. Len(Slots) \in Nat
    BY SlotFacts
  <2>2. PICK n \in Nat : n = Len(Slots)
    BY <2>a
  <2>3. service \in [at : {"off", "cleanup", "run", "failed"}, slot : T, next : 1 .. n]
    BY <1>1, <2>1, <2>2 DEF InstallTypes
  <2>4. service' = IF service.next = n THEN [service EXCEPT !.at = "run"]
                   ELSE [service EXCEPT !.next = service.next + 1]
    BY <2>2 DEF Install!Cleanup
  <2>5. service.next # n => service.next + 1 \in 1 .. n
    BY <2>3
  <2> QED BY <2>1, <2>2, <2>3, <2>4, <2>5
<1>5. InstallTypes'
  BY <1>1, <1>3, <1>4 DEF InstallTypes, Install!Active
<1>6. RunsWhole'
  BY <1>1, <1>3, <1>4 DEF InstallInv, RunsWhole, Install!Active
<1>7. ByHandInv' /\ AloneInv'
  BY <1>1 DEF InstallInv, ByHandInv, AloneInv
<1>8. ~raced => \A p \in {"update", "manual"} : installer[p].at \notin Install!Busy
  BY <1>1 DEF InstallInv, AloneInv
<1>9. SlotInv'
  BY <1>1, <1>8 DEF SlotInv, Install!Busy
<1>10. UnitInv'
  <2> SUFFICES ASSUME ~raced, removal \in {"off", "done"}
               PROVE  /\ loaded = unit
                      /\ loaded \in Install!SlotSet =>
                            disk'[loaded] = "ok" /\ service'.slot = loaded
    BY <1>1 DEF UnitInv
  <2>1. loaded = unit
    BY <1>8 DEF InstallInv, UnitInv, Install!Busy
  <2> QED BY <1>1, <1>3, <1>4, <2>1 DEF InstallInv, UnitInv
<1> QED BY <1>5, <1>6, <1>7, <1>9, <1>10 DEF InstallInv

\* An installer is started, by hand or by the agent.
LEMMA SpawnStep ==
    ASSUME Install!InstallAssumption, InstallInv, NEW p \in {"update", "manual"},
           Install!Spawn(p), UNCHANGED <<disk, unit, loaded, service>>,
           removal' = removal \/ (removal = "done" /\ removal' = "off"),
           installer[p].at \notin Install!Busy,
           p = "manual" => removal' \notin {"base", "stop", "unit"}
    PROVE  InstallInv'
<1>1. InstallTypes
  BY DEF InstallInv
<1>2. /\ installer' = [installer EXCEPT ![p] = [at |-> "pick", slot |-> "none"]]
      /\ raced' = \/ raced
                  \/ service.at = "cleanup"
                  \/ \E q \in {"update", "manual"} \ {p} : installer[q].at \in Install!Busy
  BY DEF Install!Spawn, Install!Installers
<1>3. "pick" \in Install!Busy
  BY DEF Install!Busy
<1>4. /\ installer' \in [{"update", "manual"} ->
                           [at : Install!Busy \cup {"off", "done", "failed"},
                            slot : Install!SlotSet \cup {"none"}]]
      /\ installer'[p].at = "pick"
      /\ \A q \in {"update", "manual"} : q # p => installer'[q] = installer[q]
  BY <1>1, <1>2, <1>3, InstallerMoves
<1>5. raced' \in BOOLEAN /\ (~raced' => ~raced)
  BY <1>1, <1>2 DEF InstallTypes
<1>6. InstallTypes'
  BY <1>1, <1>4, <1>5 DEF InstallTypes, Install!Active
<1>7. RunsWhole'
  BY DEF InstallInv, RunsWhole, Install!Active
<1>8. ByHandInv'
  BY <1>4 DEF InstallInv, ByHandInv
<1>9. AloneInv'
  BY <1>2, <1>4, <1>5 DEF InstallInv, AloneInv
<1>10. SlotInv'
  BY <1>4, <1>5 DEF InstallInv, SlotInv
<1>11. UnitInv'
  <2>1. "pick" \notin {"write", "reload"} /\ installer[p].at \notin {"write", "reload"}
    BY DEF Install!Busy
  <2> QED BY <1>4, <1>5, <2>1 DEF InstallInv, UnitInv
<1> QED BY <1>6, <1>7, <1>8, <1>9, <1>10, <1>11 DEF InstallInv

\* The agent's handler, which only forgets an installer that has ended.
LEMMA AnswerStep ==
    ASSUME Install!InstallAssumption, InstallInv, NEW r, Install!Answer(r),
           installer["update"].at \notin Install!Busy
    PROVE  InstallInv'
<1>1. InstallTypes /\ UNCHANGED <<disk, unit, loaded, service, removal, raced>>
  BY DEF InstallInv, Install!Answer
<1>2. installer' = [installer EXCEPT !["update"] = [at |-> "off", slot |-> "none"]]
  BY DEF Install!Answer, Install!NoInstaller
<1>3. /\ installer' \in [{"update", "manual"} ->
                           [at : Install!Busy \cup {"off", "done", "failed"},
                            slot : Install!SlotSet \cup {"none"}]]
      /\ installer'["update"].at = "off"
      /\ installer'["manual"] = installer["manual"]
  BY <1>1, <1>2, InstallerMoves
<1>4. "off" \notin Install!Busy
  BY DEF Install!Busy
<1>5. InstallTypes'
  BY <1>1, <1>3, <1>4 DEF InstallTypes, Install!Active
<1>6. RunsWhole' /\ ByHandInv' /\ AloneInv'
  BY <1>1, <1>3, <1>4 DEF InstallInv, RunsWhole, ByHandInv, AloneInv, Install!Active
<1>7. SlotInv'
  BY <1>1, <1>3 DEF InstallInv, SlotInv
<1>8. UnitInv'
  <2>1. installer["update"].at \notin {"write", "reload"}
    BY DEF Install!Busy
  <2> QED BY <1>1, <1>3, <2>1 DEF InstallInv, UnitInv
<1> QED BY <1>5, <1>6, <1>7, <1>8 DEF InstallInv

\* Steps that leave the installation alone.
LEMMA InstallQuiet ==
    ASSUME InstallInv, UNCHANGED <<disk, unit, loaded, service, installer, removal, raced>>
    PROVE  InstallInv'
BY DEF InstallInv, InstallTypes, RunsWhole, ByHandInv, AloneInv, SlotInv, UnitInv, Install!Active

LEMMA UninstallSteps ==
    ASSUME Install!InstallAssumption, InstallInv,
           Install!Uninstall \/ Install!RemoveBase \/ Install!RemoveUnit
    PROVE  InstallInv'
<1>1. InstallTypes /\ UNCHANGED <<service, installer, raced>>
  BY DEF InstallInv, Install!Uninstall, Install!RemoveBase, Install!RemoveUnit
<1>2. CASE Install!Uninstall
  <2>1. /\ UNCHANGED <<disk, unit, loaded>> /\ removal' = "base" /\ removal # "stop"
        /\ installer["manual"].at \notin Install!Busy
    BY <1>2 DEF Install!Uninstall
  <2> QED BY <1>1, <2>1 DEF InstallInv, InstallTypes, RunsWhole, ByHandInv, AloneInv, SlotInv,
                            UnitInv, Install!Active
<1>3. CASE Install!RemoveBase
  <2>1. /\ UNCHANGED <<unit, loaded>> /\ removal' = "stop" /\ removal = "base"
        /\ disk' = [s \in Install!SlotSet |-> "free"]
    BY <1>3 DEF Install!RemoveBase
  <2> QED BY <1>1, <2>1 DEF InstallInv, InstallTypes, RunsWhole, ByHandInv, AloneInv, SlotInv,
                            UnitInv, Install!Active
<1>4. CASE Install!RemoveUnit
  <2>1. /\ UNCHANGED disk /\ removal' = "done" /\ removal = "unit"
        /\ unit' = "none" /\ loaded' = "none"
    BY <1>4 DEF Install!RemoveUnit
  <2> QED BY <1>1, <2>1, SlotFacts DEF InstallInv, InstallTypes, RunsWhole, ByHandInv, AloneInv,
                                       SlotInv, UnitInv, Install!Active
<1> QED BY <1>2, <1>3, <1>4

\* What the steps of an installer have in common.
LEMMA InstallerFrame ==
    ASSUME Install!InstallAssumption, InstallInv, NEW p \in {"update", "manual"},
           installer[p].at \in Install!Busy,
           NEW a \in Install!Busy \cup {"done", "failed"},
           NEW s \in Install!SlotSet \cup {"none"},
           \/ installer' = [installer EXCEPT ![p] = [at |-> a, slot |-> s]]
           \/ s = installer[p].slot /\ installer' = [installer EXCEPT ![p].at = a],
           a \in Install!Busy \ {"pick"} => s \in Install!SlotSet,
           UNCHANGED <<service, removal>>, raced' \in BOOLEAN, ~raced' => ~raced,
           disk' \in [Install!SlotSet -> {"free", "torn", "ok"}],
           unit' \in Install!SlotSet \cup {"none", "torn"},
           loaded' \in Install!SlotSet \cup {"none", "bad"},
           Install!Active /\ disk[service.slot] = "ok" => disk'[service.slot] = "ok",
           ~raced' /\ removal # "stop" =>
               /\ a = "create" => disk'[s] = "free"
               /\ a = "copy" => disk'[s] = "torn"
               /\ a \in {"unit", "write", "reload", "check", "restart"} => disk'[s] = "ok"
               /\ a = "reload" => unit' \in {s, "none"},
           ~raced' /\ removal \in {"off", "done"} =>
               /\ loaded' \in Install!SlotSet => disk'[loaded'] = "ok"
               /\ unit' \in Install!SlotSet => disk'[unit'] = "ok"
               /\ a \notin {"write", "reload"} => loaded' = unit'
    PROVE  InstallInv'
<1>1. InstallTypes /\ "off" \notin Install!Busy /\ "done" \notin Install!Busy
      /\ "failed" \notin Install!Busy
  BY DEF InstallInv, Install!Busy
<1>2. /\ installer' \in [{"update", "manual"} ->
                           [at : Install!Busy \cup {"off", "done", "failed"},
                            slot : Install!SlotSet \cup {"none"}]]
      /\ installer'[p].at = a /\ installer'[p].slot = s
      /\ \A q \in {"update", "manual"} : q # p => installer'[q] = installer[q]
  BY <1>1, InstallerMoves
<1>3. /\ ~raced' => \A q \in {"update", "manual"} : q # p => installer[q].at \notin Install!Busy
      /\ ~raced' => service.at # "cleanup"
  BY DEF InstallInv, AloneInv
<1>4. InstallTypes'
  BY <1>1, <1>2 DEF InstallTypes, Install!Active
<1>5. RunsWhole'
  BY DEF InstallInv, RunsWhole, Install!Active
<1>6. ByHandInv'
  BY <1>2 DEF InstallInv, ByHandInv
<1>7. AloneInv'
  BY <1>2, <1>3 DEF AloneInv
<1>8. SlotInv'
  <2> SUFFICES ASSUME ~raced', removal' # "stop", NEW q \in {"update", "manual"}
               PROVE  /\ installer'[q].at = "create" => disk'[installer'[q].slot] = "free"
                      /\ installer'[q].at = "copy" => disk'[installer'[q].slot] = "torn"
                      /\ installer'[q].at \in {"unit", "write", "reload", "check", "restart"} =>
                            disk'[installer'[q].slot] = "ok"
                      /\ installer'[q].at = "reload" => unit' \in {installer'[q].slot, "none"}
    BY DEF SlotInv
  <2>1. CASE q = p
    BY <1>2, <2>1
  <2>2. CASE q # p
    BY <1>2, <1>3, <2>2 DEF Install!Busy
  <2> QED BY <2>1, <2>2
<1>9. UnitInv'
  <2>1. (\A q \in {"update", "manual"} : installer'[q].at \notin {"write", "reload"}) =>
            a \notin {"write", "reload"}
    BY <1>2
  <2> QED BY <1>3, <2>1 DEF UnitInv
<1> QED BY <1>4, <1>5, <1>6, <1>7, <1>8, <1>9 DEF InstallInv

\* Facts of the state before a step of installer p.
LEMMA InstallerState ==
    ASSUME Install!InstallAssumption, InstallInv, NEW p \in {"update", "manual"},
           installer[p].at \in Install!Busy
    PROVE  /\ disk \in [Install!SlotSet -> {"free", "torn", "ok"}]
           /\ unit \in Install!SlotSet \cup {"none", "torn"}
           /\ loaded \in Install!SlotSet \cup {"none", "bad"}
           /\ raced \in BOOLEAN /\ installer[p].slot \in Install!SlotSet \cup {"none"}
           /\ installer[p].at # "pick" => installer[p].slot \in Install!SlotSet
           /\ ~raced /\ removal # "stop" =>
                 /\ installer[p].at = "create" => disk[installer[p].slot] = "free"
                 /\ installer[p].at = "copy" => disk[installer[p].slot] = "torn"
                 /\ installer[p].at \in {"unit", "write", "reload", "check", "restart"} =>
                       disk[installer[p].slot] = "ok"
                 /\ installer[p].at = "reload" => unit \in {installer[p].slot, "none"}
           /\ ~raced /\ removal \in {"off", "done"} =>
                 /\ loaded \in Install!SlotSet => disk[loaded] = "ok"
                 /\ unit \in Install!SlotSet => disk[unit] = "ok"
                 /\ installer[p].at \notin {"write", "reload"} => loaded = unit
<1>1. InstallTypes
  BY DEF InstallInv
<1>2. ~raced => \A q \in {"update", "manual"} : q # p => installer[q].at \notin {"write", "reload"}
  BY DEF InstallInv, AloneInv, Install!Busy
<1>3. ~raced /\ removal # "stop" =>
          /\ installer[p].at = "create" => disk[installer[p].slot] = "free"
          /\ installer[p].at = "copy" => disk[installer[p].slot] = "torn"
          /\ installer[p].at \in {"unit", "write", "reload", "check", "restart"} =>
                disk[installer[p].slot] = "ok"
          /\ installer[p].at = "reload" => unit \in {installer[p].slot, "none"}
  BY DEF InstallInv, SlotInv
<1>4. ~raced /\ removal \in {"off", "done"} =>
          /\ loaded \in Install!SlotSet => disk[loaded] = "ok"
          /\ unit \in Install!SlotSet => disk[unit] = "ok"
          /\ installer[p].at \notin {"write", "reload"} => loaded = unit
  BY <1>2 DEF InstallInv, UnitInv
<1>5. /\ disk \in [Install!SlotSet -> {"free", "torn", "ok"}]
      /\ unit \in Install!SlotSet \cup {"none", "torn"}
      /\ loaded \in Install!SlotSet \cup {"none", "bad"} /\ raced \in BOOLEAN
  BY <1>1 DEF InstallTypes
<1>6. /\ installer[p].slot \in Install!SlotSet \cup {"none"}
      /\ installer[p].at # "pick" => installer[p].slot \in Install!SlotSet
  BY <1>1 DEF InstallTypes
<1> QED BY <1>3, <1>4, <1>5, <1>6

\* The slot an installer takes is free, and stays its own.
LEMMA PickStep ==
    ASSUME Install!InstallAssumption, InstallInv, NEW p \in {"update", "manual"},
           Install!PickSlot(p)
    PROVE  InstallInv'
<1>1. /\ installer[p].at = "pick" /\ installer[p].at \in Install!Busy
      /\ UNCHANGED <<disk, unit, loaded, service, removal, raced>>
  BY DEF Install!PickSlot, Install!Busy
<1>2. CASE installer' = [installer EXCEPT ![p].at = "failed"]
  <2>1. "failed" \notin Install!Busy
    BY DEF Install!Busy
  <2> QED BY <1>1, <1>2, <2>1, InstallerState, InstallerFrame
<1>3. ASSUME NEW i \in Install!FreeSlots,
             installer' = [installer EXCEPT ![p] = [at |-> "create", slot |-> Slots[i]]]
      PROVE  InstallInv'
  <2>1. i \in 1 .. Len(Slots) /\ disk[Slots[i]] = "free"
    BY SlotFacts DEF Install!FreeSlots
  <2>2. PICK s \in Install!SlotSet : s = Slots[i]
    BY <2>1, SlotFacts
  <2>3. "create" \in Install!Busy
    BY DEF Install!Busy
  <2> QED BY <1>1, <1>3, <2>1, <2>2, <2>3, InstallerState, InstallerFrame
<1> QED BY <1>2, <1>3 DEF Install!PickSlot, Install!Goto

LEMMA CreateStep ==
    ASSUME Install!InstallAssumption, InstallInv, NEW p \in {"update", "manual"},
           Install!CreateSlot(p)
    PROVE  InstallInv'
<1>1. /\ installer[p].at = "create" /\ installer[p].at \in Install!Busy
      /\ UNCHANGED <<unit, loaded, service, removal, raced>>
  BY DEF Install!CreateSlot, Install!Busy
<1>2. CASE installer' = [installer EXCEPT ![p].at = "failed"] /\ disk' = disk
  <2>1. "failed" \notin Install!Busy
    BY DEF Install!Busy
  <2> QED BY <1>1, <1>2, <2>1, InstallerState, InstallerFrame
<1>3. CASE /\ ~(Install!Active /\ service.slot = installer[p].slot)
           /\ disk' = [disk EXCEPT ![installer[p].slot] = "torn"]
           /\ installer' = [installer EXCEPT ![p].at = "copy"]
  <2>1. "copy" \in Install!Busy
    BY DEF Install!Busy
  <2>2. PICK s \in Install!SlotSet : s = installer[p].slot
    BY <1>1, InstallerState
  <2>3. /\ disk \in [Install!SlotSet -> {"free", "torn", "ok"}]
        /\ Install!Active => service.slot \in Install!SlotSet
    BY DEF InstallInv, InstallTypes
  <2>4. /\ disk' \in [Install!SlotSet -> {"free", "torn", "ok"}] /\ disk'[s] = "torn"
        /\ \A t \in Install!SlotSet : t # s => disk'[t] = disk[t]
    BY <1>3, <2>2, <2>3
  <2>5. ~raced /\ removal \in {"off", "done"} =>
            /\ loaded \in Install!SlotSet => disk'[loaded] = "ok"
            /\ unit \in Install!SlotSet => disk'[unit] = "ok"
            /\ loaded = unit
    BY <1>1, <2>2, <2>4, InstallerState
  <2>6. Install!Active /\ disk[service.slot] = "ok" => disk'[service.slot] = "ok"
    BY <1>3, <2>2, <2>3, <2>4
  <2>7. /\ raced' \in BOOLEAN /\ unit' \in Install!SlotSet \cup {"none", "torn"}
        /\ loaded' \in Install!SlotSet \cup {"none", "bad"}
    BY <1>1, InstallerState
  <2> QED BY <1>1, <1>3, <2>1, <2>2, <2>4, <2>5, <2>6, <2>7, InstallerFrame
<1> QED BY <1>2, <1>3 DEF Install!CreateSlot, Install!Goto

LEMMA CopyStep ==
    ASSUME Install!InstallAssumption, InstallInv, NEW p \in {"update", "manual"},
           Install!Copy(p)
    PROVE  InstallInv'
<1>1. /\ installer[p].at = "copy" /\ installer[p].at \in Install!Busy
      /\ UNCHANGED <<unit, loaded, service, removal, raced>>
      /\ installer' = [installer EXCEPT ![p].at = "unit"] /\ "unit" \in Install!Busy
  BY DEF Install!Copy, Install!Goto, Install!Busy
<1>2. PICK s \in Install!SlotSet : s = installer[p].slot
  BY <1>1, InstallerState
<1>3. /\ disk \in [Install!SlotSet -> {"free", "torn", "ok"}]
      /\ Install!Active => service.slot \in Install!SlotSet
  BY DEF InstallInv, InstallTypes
<1>4. disk' = [disk EXCEPT ![s] = IF disk[s] = "free" THEN "free" ELSE "ok"]
  BY <1>2 DEF Install!Copy
<1>5. /\ disk' \in [Install!SlotSet -> {"free", "torn", "ok"}]
      /\ disk[s] # "free" => disk'[s] = "ok"
      /\ \A t \in Install!SlotSet : disk[t] = "ok" => disk'[t] = "ok"
  BY <1>2, <1>3, <1>4
<1>6. ~raced /\ removal \in {"off", "done"} =>
          /\ loaded \in Install!SlotSet => disk'[loaded] = "ok"
          /\ unit \in Install!SlotSet => disk'[unit] = "ok"
          /\ loaded = unit
  BY <1>1, <1>2, <1>5, InstallerState
<1> QED BY <1>1, <1>2, <1>3, <1>5, <1>6, InstallerState, InstallerFrame

\* create_systemd_service and daemon-reload.
LEMMA UnitSteps ==
    ASSUME Install!InstallAssumption, InstallInv, NEW p \in {"update", "manual"},
           Install!TruncateUnit(p) \/ Install!WriteUnit(p) \/ Install!DaemonReload(p)
    PROVE  InstallInv'
<1>1. /\ installer[p].at \in Install!Busy /\ installer[p].at \in {"unit", "write", "reload"}
      /\ UNCHANGED <<disk, service, removal, raced>>
  BY DEF Install!TruncateUnit, Install!WriteUnit, Install!DaemonReload, Install!Busy
<1>2. PICK s \in Install!SlotSet : s = installer[p].slot
  BY <1>1, InstallerState
<1>3. {"write", "reload", "check"} \subseteq Install!Busy /\ "torn" \notin Install!SlotSet
  BY SlotFacts DEF Install!Busy
<1>4. CASE Install!TruncateUnit(p)
  <2>1. /\ installer[p].at = "unit" /\ unit' = "torn" /\ UNCHANGED loaded
        /\ installer' = [installer EXCEPT ![p].at = "write"]
    BY <1>4 DEF Install!TruncateUnit, Install!Goto
  <2> QED BY <1>1, <1>2, <1>3, <2>1, InstallerState, InstallerFrame
<1>5. CASE Install!WriteUnit(p)
  <2>1. /\ installer[p].at = "write" /\ unit' = s /\ UNCHANGED loaded
        /\ installer' = [installer EXCEPT ![p].at = "reload"]
    BY <1>2, <1>5 DEF Install!WriteUnit, Install!Goto
  <2> QED BY <1>1, <1>2, <1>3, <2>1, InstallerState, InstallerFrame
<1>6. CASE Install!DaemonReload(p)
  <2>1. /\ installer[p].at = "reload" /\ UNCHANGED unit
        /\ loaded' = IF unit = "torn" THEN "bad" ELSE unit
        /\ installer' = [installer EXCEPT ![p].at = "check"]
    BY <1>6 DEF Install!DaemonReload, Install!Goto
  <2>2. loaded' \in Install!SlotSet \cup {"none", "bad"}
    BY <1>1, <2>1, InstallerState
  <2>3. ~raced /\ removal \in {"off", "done"} =>
            /\ loaded' = unit
            /\ unit \in Install!SlotSet => disk[unit] = "ok"
    BY <1>1, <1>2, <1>3, <2>1, InstallerState
  <2> QED BY <1>1, <1>2, <1>3, <2>1, <2>2, <2>3, InstallerState, InstallerFrame
<1> QED BY <1>4, <1>5, <1>6

LEMMA CheckAndFail ==
    ASSUME Install!InstallAssumption, InstallInv, NEW p \in {"update", "manual"},
           Install!CheckActive(p) \/ Install!InstallerFails(p)
    PROVE  InstallInv'
<1>1. "restart" \in Install!Busy /\ "done" \notin Install!Busy /\ "failed" \notin Install!Busy
  BY DEF Install!Busy
<1>2. CASE Install!CheckActive(p)
  <2>1. /\ installer[p].at = "check" /\ installer[p].at \in Install!Busy
        /\ UNCHANGED <<disk, unit, loaded, service, removal, raced>>
        /\ \/ installer' = [installer EXCEPT ![p].at = "restart"]
           \/ installer' = [installer EXCEPT ![p].at = "done"]
    BY <1>2 DEF Install!CheckActive, Install!Goto, Install!Busy
  <2>2. PICK s \in Install!SlotSet : s = installer[p].slot
    BY <2>1, InstallerState
  <2> QED BY <1>1, <2>1, <2>2, InstallerState, InstallerFrame
<1>3. CASE Install!InstallerFails(p)
  <2>1. /\ installer[p].at \in Install!Busy
        /\ UNCHANGED <<disk, unit, loaded, service, removal>>
        /\ raced' = (raced \/ installer[p].at \in {"write", "reload"})
        /\ installer' = [installer EXCEPT ![p].at = "failed"]
    BY <1>3 DEF Install!InstallerFails, Install!Goto
  <2>2. raced' \in BOOLEAN /\ (~raced' => ~raced /\ installer[p].at \notin {"write", "reload"})
    BY <2>1 DEF InstallInv, InstallTypes
  <2> QED BY <1>1, <2>1, <2>2, InstallerState, InstallerFrame
<1> QED BY <1>2, <1>3

LEMMA InstallStart ==
    ASSUME Install!InstallAssumption, Install!Init
    PROVE  InstallInv
<1>1. /\ installer = [p \in {"update", "manual"} |-> [at |-> "off", slot |-> "none"]]
      /\ removal = "off" /\ raced = FALSE
  BY DEF Install!Init, Install!Installers, Install!NoInstaller
<1>2. /\ \A p \in {"update", "manual"} : installer[p] = [at |-> "off", slot |-> "none"]
      /\ \A p \in {"update", "manual"} :
            installer[p].at = "off" /\ installer[p].at \notin Install!Busy
      /\ installer \in [{"update", "manual"} ->
                           [at : Install!Busy \cup {"off", "done", "failed"},
                            slot : Install!SlotSet \cup {"none"}]]
  BY <1>1 DEF Install!Busy
<1>3. CASE /\ disk = [s \in Install!SlotSet |-> "free"]
           /\ unit = "none" /\ loaded = "none" /\ service = Install!Off
  <2>1. InstallTypes
    BY <1>1, <1>2, <1>3, SlotFacts DEF InstallTypes, Install!Active, Install!Off
  <2> QED BY <1>1, <1>2, <1>3, <2>1, SlotFacts
          DEF InstallInv, RunsWhole, ByHandInv, AloneInv, SlotInv, UnitInv, Install!Active, Install!Off
<1>4. CASE /\ disk = [s \in Install!SlotSet |-> IF s = Slots[1] THEN "ok" ELSE "free"]
           /\ unit = Slots[1] /\ loaded = Slots[1]
           /\ service = [at |-> "run", slot |-> Slots[1], next |-> Len(Slots)]
  <2>1. PICK x \in Install!SlotSet : x = Slots[1]
    BY SlotFacts
  <2>2. InstallTypes
    BY <1>1, <1>2, <1>4, <2>1, SlotFacts DEF InstallTypes, Install!Active
  <2> QED BY <1>1, <1>2, <1>4, <2>1, <2>2
          DEF InstallInv, RunsWhole, ByHandInv, AloneInv, SlotInv, UnitInv, Install!Active
<1> QED BY <1>3, <1>4 DEF Install!Init

LEMMA InstallStep ==
    ASSUME Install!InstallAssumption, InstallInv, [Install!Next]_(Install!vars)
    PROVE  InstallInv'
<1>1. CASE UNCHANGED Install!vars
  BY <1>1, InstallQuiet DEF Install!vars
<1>2. CASE Install!StartService \/ Install!StopService \/ Install!AgentCrashes
  <2>1. PICK ps \in SUBSET {"update", "manual"} :
            /\ Install!CutOff(ps) /\ (service' = Install!Off \/ service' = Install!Started)
            /\ UNCHANGED <<disk, unit, loaded, removal>>
    BY <1>2 DEF Install!StartService, Install!StopService, Install!AgentCrashes
  <2> QED BY <2>1, ServiceChanges
<1>3. CASE Install!PowerLoss \/ Install!DisableService \/ Install!Cleanup
  BY <1>3, PowerLossStep, DisableStep, CleanupStep
<1>4. CASE \E r \in Requests : Install!AskUpdate(r)
  BY <1>4, InstallQuiet DEF Install!AskUpdate
<1>5. CASE Install!Downloaded
  <2>1. /\ Install!Spawn("update") /\ UNCHANGED <<disk, unit, loaded, service, removal>>
        /\ installer["update"].at \notin Install!Busy
    BY <1>5 DEF Install!Downloaded, Install!Busy
  <2> QED BY <2>1, SpawnStep
<1>6. CASE Install!DownloadFails \/ Install!InstallerExits
  <2>1. installer["update"].at \notin Install!Busy /\ \E r : Install!Answer(r)
    BY <1>6 DEF Install!DownloadFails, Install!InstallerExits, Install!Busy
  <2> QED BY <2>1, AnswerStep
<1>7. CASE Install!InstallByHand
  <2>1. /\ Install!Spawn("manual") /\ UNCHANGED <<disk, unit, loaded, service>>
        /\ installer["manual"].at \notin Install!Busy
        /\ removal \in {"off", "done", "cut"}
        /\ removal' = IF removal = "done" THEN "off" ELSE removal
    BY <1>7 DEF Install!InstallByHand
  <2>2. /\ removal' = removal \/ (removal = "done" /\ removal' = "off")
        /\ removal' \notin {"base", "stop", "unit"}
    BY <2>1
  <2> QED BY <2>1, <2>2, SpawnStep
<1>8. ASSUME NEW p \in {"update", "manual"}, Install!Step(p) \/ Install!InstallerFails(p)
      PROVE  InstallInv'
  <2>1. CASE Install!Restart(p)
    <3>1. /\ Install!CutOff({"update"} \cup {p}) /\ service' = Install!Started
          /\ UNCHANGED <<disk, unit, loaded, removal>>
      BY <2>1 DEF Install!Restart
    <3>2. {"update"} \cup {p} \in SUBSET {"update", "manual"}
      OBVIOUS
    <3> QED BY <3>1, <3>2, ServiceChanges
  <2> QED BY <1>8, <2>1, PickStep, CreateStep, CopyStep, UnitSteps, CheckAndFail DEF Install!Step
<1>9. CASE Install!Uninstall \/ Install!RemoveBase \/ Install!RemoveUnit
  BY <1>9, UninstallSteps
<1> QED BY <1>1, <1>2, <1>3, <1>4, <1>5, <1>6, <1>7, <1>8, <1>9 DEF Install!Next, Install!Installers

\* install_agent, the update and uninstall_agent, for any number of slots, requests
\* and crashes: what runs is whole until the agent is removed, and what systemd would
\* start is whole unless installers overlapped or one was cut off at the unit file.
THEOREM InstalledIsAlwaysWhole == DevicesSpec => []InstalledIsWhole
<1>1. DevicesInit => InstallInv
  BY InstallStart, InstallAssumption DEF DevicesInit
<1>2. InstallInv /\ [DevicesNext]_devicesVars => InstallInv'
  <2>1. [DevicesNext]_devicesVars => [Install!Next]_(Install!vars)
    BY DEF DevicesNext, devicesVars, installVars, Install!vars
  <2> QED BY <2>1, InstallStep, InstallAssumption
<1>3. InstallInv => InstalledIsWhole
  BY DEF InstallInv, RunsWhole, UnitInv, InstalledIsWhole, Install!InstalledIsWhole,
         Install!RunningIsWhole, Install!UnitIsRunnable
<1> QED BY <1>1, <1>2, <1>3, PTL DEF DevicesSpec

-----------------------------------------------------------------------------
(* Certificates.                                                           *)

CertKeys == SpkiHashes \cup {"root", "server"}
Certs == [spki : CertKeys, type : {"Root", "Server", "Agent", "UserSession"}, issuer : {"root"},
          before : Nat, after : Nat]
Works == {Pki!None}
         \cup [state : {"making"}, type : {"Agent", "UserSession"}, spki : CertKeys, before : Nat]
         \cup [state : {"made"}, spki : CertKeys, cert : Certs]
         \cup [state : {"packaged"}, spki : CertKeys, cert : Certs, time : Nat, sequence : Nat]

CertTypes ==
    /\ clock \in [Pki!Machines -> Nat]
    /\ rootCert = Pki!Cert("root", "Root", 0, ValidityDuration["Root"])
    /\ blocks \in Seq([cert : Certs, time : Nat]) /\ blocks # << >>
    /\ sessions \subseteq Certs
    /\ seen \in [Nodes -> Nat] /\ following \in [Nodes -> BOOLEAN]
    /\ \A n \in Nodes : 1 <= seen[n] /\ seen[n] <= Len(blocks)
    /\ work \in [Nodes -> Works]
    /\ outcome \in [Nodes -> {"none", "ok", "parse", "package", "refused", "behind"}]

\* What FinishCertificate makes.
Made(cert) ==
    /\ cert.type \in {"Agent", "UserSession"}
    /\ cert.after = cert.before + ValidityDuration[cert.type]

\* Every block was valid at its time, not in the server's future and not before the
\* one it follows.
BlocksInv ==
    /\ blocks[1].cert = Pki!Cert("server", "Server", 0, ValidityDuration["Server"])
    /\ blocks[1].time = 0
    /\ \A i \in 2 .. Len(blocks) :
          /\ Made(blocks[i].cert) /\ blocks[i].cert.type = "Agent"
          /\ Pki!ValidAt(blocks[i].cert, blocks[i].time)
          /\ blocks[i].time <= clock["server"]
          /\ blocks[i - 1].time <= blocks[i].time

SessionsInv ==
    \A cert \in sessions :
        Made(cert) /\ cert.type = "UserSession" /\ cert.before <= clock["server"]

\* What a node has made, it made by its own clock.
WorkOk(n, w) ==
    /\ w.state = "making" => w.before <= clock[n]
    /\ w.state \in {"made", "packaged"} =>
          Made(w.cert) /\ w.cert.before <= clock[n] /\ w.cert.spki = w.spki
    /\ w.state = "packaged" =>
          /\ w.cert.type = "Agent" /\ Pki!ValidAt(w.cert, w.time)
          /\ w.sequence <= seen[n] + 1

WorkInv == \A n \in Nodes : WorkOk(n, work[n])

\* The key of what is still being made is nobody else's.
KeyOk(n, w) ==
    w.state # "none" =>
      /\ w.spki # "root"
      /\ \A c \in sessions : c.spki # w.spki
      /\ \A i \in 1 .. Len(blocks) : blocks[i].cert.spki # w.spki
      /\ \A k \in Nodes : k # n /\ work[k].state # "none" => work[k].spki # w.spki

\* Every key has one certificate.
KeysInv ==
    /\ \A cert \in sessions : cert.spki # "root"
    /\ \A i \in 1 .. Len(blocks) : blocks[i].cert.spki # "root"
    /\ \A i, j \in 1 .. Len(blocks) : blocks[i].cert.spki = blocks[j].cert.spki => i = j
    /\ \A c, d \in sessions : c.spki = d.spki => c = d
    /\ \A c \in sessions : \A i \in 1 .. Len(blocks) : c.spki # blocks[i].cert.spki
    /\ \A n \in Nodes : KeyOk(n, work[n])

\* The inductive invariant.
CertInv == CertTypes /\ BlocksInv /\ SessionsInv /\ WorkInv /\ KeysInv

LEMMA DurationFacts ==
    /\ ValidityDuration["Root"] \in Nat /\ ValidityDuration["Server"] \in Nat
    /\ ValidityDuration["Agent"] \in Nat /\ ValidityDuration["UserSession"] \in Nat
    /\ MaxParents \in Nat \ {0}
BY CertificatesAssumption DEF Pki!DurationsOrdered, Pki!ChainsBounded

LEMMA ConcatFacts ==
    ASSUME NEW S, NEW s \in Seq(S), NEW t \in Seq(S)
    PROVE  Len(t) \in Nat /\ Len(s) \in Nat /\ s \o t \in Seq(S) /\ Len(s \o t) = Len(s) + Len(t)
OBVIOUS

LEMMA PrependFacts ==
    ASSUME NEW S, NEW s \in Seq(S), NEW t \in Seq(S), Len(s) = 1
    PROVE  /\ s \o t \in Seq(S) /\ Len(s \o t) = Len(t) + 1 /\ (s \o t)[1] = s[1]
           /\ \A i \in 1 .. Len(t) : (s \o t)[i + 1] = t[i]
<1>1. Len(t) \in Nat /\ Len(s) \in Nat /\ s \o t \in Seq(S) /\ Len(s \o t) = Len(s) + Len(t)
  BY ConcatFacts
<1>2. \A i \in 1 .. Len(t) : (s \o t)[i + Len(s)] = t[i]
  BY <1>1
<1>3. 1 \in 1 .. Len(s)
  OBVIOUS
<1>4. (s \o t)[1] = s[1]
  BY <1>1, <1>3
<1> QED BY <1>1, <1>2, <1>4

LEMMA ElementFacts ==
    ASSUME NEW S, NEW s \in Seq(S)
    PROVE  Len(s) \in Nat /\ \A i \in 1 .. Len(s) : s[i] \in S
OBVIOUS

LEMMA SeqOfFunction ==
    ASSUME NEW S, NEW n \in Nat, NEW f \in [1 .. n -> S]
    PROVE  f \in Seq(S) /\ Len(f) = n
OBVIOUS

\* A chain of two.
IsPair(chain, leaf) ==
    chain # << >> /\ Len(chain) = 2 /\ chain[1] = leaf /\ chain[2] = rootCert

\* The chain of a certificate that the root user has issued.
LEMMA ChainToRoot ==
    ASSUME NEW bs, NEW leaf, NEW C, C = Pki!Certificates(bs), rootCert \in C,
           rootCert.spki = "root", rootCert.type = "Root",
           \A c \in C : c.spki = "root" => c = rootCert,
           leaf.type # "Root", leaf.issuer = "root", leaf.spki # "root"
    PROVE  IsPair(Pki!CompleteChain(bs, leaf), leaf)
<1> DEFINE Complete(chain) ==
               /\ \A i \in 1 .. Len(chain) - 1 :
                     Pki!MayPushParent(SubSeq(chain, 1, i), chain[i + 1])
               /\ chain[Len(chain)].type = "Root"
           chains == { <<leaf>> \o parents :
                         parents \in UNION { [1 .. n -> C] : n \in 0 .. MaxParents } }
<1>1. PICK one : one = <<leaf>>
  OBVIOUS
<1>2. one \in Seq({leaf} \cup C) /\ Len(one) = 1 /\ one[1] = leaf
  BY <1>1
<1>3. PICK pair : pair \in chains /\ Complete(pair)
  <2>1. PICK above : above = <<rootCert>>
    OBVIOUS
  <2>2. above \in [1 .. 1 -> C] /\ above \in Seq({leaf} \cup C) /\ Len(above) = 1
        /\ above[1] = rootCert
    BY <2>1
  <2>3. 1 \in 0 .. MaxParents
    BY DurationFacts
  <2>4. above \in UNION { [1 .. n -> C] : n \in 0 .. MaxParents }
    BY <2>2, <2>3, Zenon
  <2>5. one \o above \in chains
    BY <1>1, <2>4, Zenon
  <2>6. PICK p : p = one \o above
    OBVIOUS
  <2>7. p \in Seq({leaf} \cup C) /\ Len(p) = 2 /\ p[1] = leaf /\ p[2] = rootCert
    BY <1>2, <2>2, <2>6, PrependFacts
  <2>8. SubSeq(p, 1, 1) \in Seq({leaf} \cup C) /\ Len(SubSeq(p, 1, 1)) = 1
        /\ SubSeq(p, 1, 1)[1] = leaf
    BY <2>7
  <2>9. Pki!MayPushParent(SubSeq(p, 1, 1), rootCert)
    <3>1. \A i \in 1 .. 1 : i = 1
      OBVIOUS
    <3> QED BY <2>8, <3>1 DEF Pki!MayPushParent
  <2>10. \A i \in 1 .. Len(p) - 1 : i = 1 /\ p[i + 1] = rootCert
    BY <2>7
  <2>11. Complete(p)
    BY <2>7, <2>9, <2>10
  <2> HIDE DEF Complete, chains
  <2> QED BY <2>5, <2>6, <2>11, Zenon
<1>4. ASSUME NEW chain \in chains, Complete(chain)
      PROVE  IsPair(chain, leaf)
  <2>1. PICK n \in 0 .. MaxParents : \E parents \in [1 .. n -> C] : chain = one \o parents
    BY <1>1, <1>4, Zenon
  <2>2. PICK parents \in [1 .. n -> C] : chain = one \o parents
    BY <2>1, Zenon
  <2>3. n \in Nat
    BY DurationFacts
  <2>4. parents \in Seq(C) /\ Len(parents) = n /\ parents \in Seq({leaf} \cup C)
    <3>1. PICK B : B = {leaf} \cup C
      OBVIOUS
    <3>2. parents \in [1 .. n -> B]
      BY <3>1
    <3> QED BY <2>3, <3>1, <3>2, SeqOfFunction
  <2>5. /\ chain \in Seq({leaf} \cup C) /\ Len(chain) = n + 1 /\ chain[1] = leaf
        /\ \A i \in 1 .. n : chain[i + 1] = parents[i]
    BY <1>2, <2>2, <2>4, PrependFacts
  <2>6. /\ \A i \in 1 .. Len(chain) - 1 :
              Pki!MayPushParent(SubSeq(chain, 1, i), chain[i + 1])
        /\ chain[Len(chain)].type = "Root"
    BY <1>4
  <2> HIDE DEF chains
  <2>7. n # 0
    BY <2>5, <2>6
  <2>8. chain[2] = rootCert
    <3>1. Len(SubSeq(chain, 1, 1)) = 1 /\ SubSeq(chain, 1, 1)[1] = leaf
      BY <2>3, <2>5, <2>7
    <3>2. 1 \in 1 .. Len(chain) - 1 /\ chain[1 + 1] = parents[1] /\ parents[1] \in C
      BY <2>3, <2>5, <2>7
    <3>3. Pki!MayPushParent(SubSeq(chain, 1, 1), parents[1])
      BY <2>6, <3>2
    <3>4. parents[1].spki = "root"
      BY <3>1, <3>3 DEF Pki!MayPushParent
    <3> QED BY <3>2, <3>4
  <2>9. n = 1
    <3> SUFFICES ASSUME n # 1 PROVE FALSE
      OBVIOUS
    <3>1. 2 \in 1 .. Len(chain) - 1
      BY <2>3, <2>5, <2>7
    <3>2. Pki!MayPushParent(SubSeq(chain, 1, 2), chain[2 + 1])
      BY <2>6, <3>1
    <3>3. Len(SubSeq(chain, 1, 2)) = 2 /\ SubSeq(chain, 1, 2)[2] = chain[2]
      BY <2>5, <3>1
    <3> QED BY <2>8, <3>2, <3>3 DEF Pki!MayPushParent
  <2> QED BY <2>5, <2>8, <2>9 DEF IsPair
<1>5. Pki!CompleteChain(bs, leaf) =
        IF \E chain \in chains : Complete(chain)
        THEN CHOOSE chain \in chains : Complete(chain) ELSE << >>
  BY Zenon DEF Pki!CompleteChain
<1> HIDE DEF Complete, chains
<1>6. PICK chosen : chosen = CHOOSE chain \in chains : Complete(chain)
  OBVIOUS
<1>7. chosen \in chains /\ Complete(chosen)
  BY <1>3, <1>6, Zenon
<1> QED BY <1>3, <1>4, <1>5, <1>6, <1>7, Zenon

LEMMA ChainVerifies ==
    ASSUME NEW chain, NEW leaf, NEW time, IsPair(chain, leaf)
    PROVE  Pki!VerifyChain(chain, time) <=> Pki!VerifySignature(leaf, rootCert, time)
<1>1. \A i \in 1 .. Len(chain) - 1 : i = 1 /\ i + 1 = 2
  BY DEF IsPair
<1>2. 1 \in 1 .. Len(chain) - 1 /\ 1 + 1 = 2
  BY DEF IsPair
<1> QED BY <1>1, <1>2 DEF Pki!VerifyChain, IsPair

LEMMA RootFacts ==
    ASSUME CertInv
    PROVE  /\ rootCert \in Certs /\ rootCert.spki = "root" /\ rootCert.type = "Root"
           /\ rootCert.issuer = "root" /\ rootCert.before = 0 /\ rootCert.after \in Nat
           /\ Len(blocks) \in Nat /\ Len(blocks) >= 1
           /\ \A i \in 1 .. Len(blocks) : blocks[i] \in [cert : Certs, time : Nat]
           /\ clock["server"] \in Nat
<1>1. blocks \in Seq([cert : Certs, time : Nat]) /\ blocks # << >>
  BY DEF CertInv, CertTypes
<1>2. Len(blocks) \in Nat /\ Len(blocks) >= 1
  BY <1>1
<1>3. \A i \in 1 .. Len(blocks) : blocks[i] \in [cert : Certs, time : Nat]
  BY <1>1, ElementFacts
<1>4. rootCert = Pki!Cert("root", "Root", 0, ValidityDuration["Root"])
  BY DEF CertInv, CertTypes
<1>5. PICK d \in Nat : d = ValidityDuration["Root"]
  BY DurationFacts
<1>6. /\ rootCert \in Certs /\ rootCert.spki = "root" /\ rootCert.type = "Root"
      /\ rootCert.issuer = "root" /\ rootCert.before = 0 /\ rootCert.after \in Nat
  BY <1>4, <1>5 DEF Pki!Cert, Certs, CertKeys
<1>7. clock["server"] \in Nat
  BY DEF CertInv, CertTypes, Pki!Machines, Pki!Server
<1> QED BY <1>2, <1>3, <1>6, <1>7

LEMMA WorkTypes ==
    ASSUME CertInv, NEW n \in Nodes
    PROVE  /\ work[n] \in Works /\ clock[n] \in Nat /\ seen[n] \in Nat
           /\ 1 <= seen[n] /\ seen[n] <= Len(blocks)
           /\ work[n].state = "none" => work[n] = Pki!None
           /\ work[n].state = "making" =>
                 /\ work[n] \in [state : {"making"}, type : {"Agent", "UserSession"},
                                  spki : CertKeys, before : Nat]
                 /\ work[n].type \in {"Agent", "UserSession"} /\ work[n].before \in Nat
           /\ work[n].state = "made" =>
                 work[n] \in [state : {"made"}, spki : CertKeys, cert : Certs]
           /\ work[n].state = "packaged" =>
                 work[n] \in [state : {"packaged"}, spki : CertKeys, cert : Certs, time : Nat,
                              sequence : Nat]
           /\ work[n].state \in {"made", "packaged"} => work[n].cert \in Certs
           /\ work[n].state \in {"none", "making", "made", "packaged"}
           /\ work[n].state # "none" => work[n].spki \in CertKeys
           /\ WorkOk(n, work[n]) /\ KeyOk(n, work[n])
<1>1. /\ work[n] \in Works /\ clock[n] \in Nat /\ seen[n] \in Nat
      /\ 1 <= seen[n] /\ seen[n] <= Len(blocks)
  BY DEF CertInv, CertTypes, Pki!Machines
<1>2. WorkOk(n, work[n]) /\ KeyOk(n, work[n])
  BY DEF CertInv, WorkInv, KeysInv
<1>3. PICK K, C, w : K = CertKeys /\ C = Certs /\ w = work[n]
  OBVIOUS
<1>4. \/ w = [state |-> "none"]
      \/ w \in [state : {"making"}, type : {"Agent", "UserSession"}, spki : K, before : Nat]
      \/ w \in [state : {"made"}, spki : K, cert : C]
      \/ w \in [state : {"packaged"}, spki : K, cert : C, time : Nat, sequence : Nat]
  BY <1>1, <1>3 DEF Works, Pki!None
<1>5. /\ w.state = "none" => w = [state |-> "none"]
      /\ w.state = "making" =>
            /\ w \in [state : {"making"}, type : {"Agent", "UserSession"}, spki : K, before : Nat]
            /\ w.type \in {"Agent", "UserSession"} /\ w.before \in Nat
      /\ w.state = "made" => w \in [state : {"made"}, spki : K, cert : C]
      /\ w.state = "packaged" =>
            w \in [state : {"packaged"}, spki : K, cert : C, time : Nat, sequence : Nat]
      /\ w.state \in {"made", "packaged"} => w.cert \in C
      /\ w.state \in {"none", "making", "made", "packaged"}
      /\ w.state # "none" => w.spki \in K
  BY <1>4
<1> QED BY <1>1, <1>2, <1>3, <1>5 DEF Pki!None

LEMMA WorkFrame ==
    ASSUME CertInv, NEW n \in Nodes, NEW w \in Works, work' = [work EXCEPT ![n] = w],
           UNCHANGED <<clock, rootCert, blocks, sessions, seen>>,
           following' \in [Nodes -> BOOLEAN],
           outcome' \in [Nodes -> {"none", "ok", "parse", "package", "refused", "behind"}],
           WorkOk(n, w), KeyOk(n, w)
    PROVE  CertInv'
<1>1. CertTypes'
  BY DEF CertInv, CertTypes
<1>2. BlocksInv' /\ SessionsInv'
  BY DEF CertInv, BlocksInv, SessionsInv
<1>3. work \in [Nodes -> Works] /\ work'[n] = w /\ \A k \in Nodes : k # n => work'[k] = work[k]
  BY DEF CertInv, CertTypes
<1>4. WorkInv'
  BY <1>3 DEF CertInv, WorkInv, WorkOk
<1>5. ASSUME NEW k \in Nodes PROVE KeyOk(k, work[k])'
  <2>1. CASE k = n
    BY <1>3, <2>1 DEF KeyOk
  <2>2. CASE k # n
    <3>1. KeyOk(k, work[k])
      BY DEF CertInv, KeysInv
    <3> QED BY <1>3, <2>2, <3>1 DEF KeyOk
  <2> QED BY <2>1, <2>2
<1>6. KeysInv'
  BY <1>5 DEF CertInv, KeysInv
<1> QED BY <1>1, <1>2, <1>4, <1>6 DEF CertInv

\* A piece of work that is over leaves nothing behind.
LEMMA EndStep ==
    ASSUME CertInv, NEW n \in Nodes, NEW how \in {"none", "parse", "package", "refused"},
           Pki!End(n, how), UNCHANGED <<clock, rootCert, blocks, sessions, seen>>,
           following' \in [Nodes -> BOOLEAN]
    PROVE  CertInv'
<1>1. Pki!None \in Works /\ Pki!None.state = "none"
  BY DEF Works, Pki!None
<1>2. WorkOk(n, Pki!None) /\ KeyOk(n, Pki!None)
  BY <1>1 DEF WorkOk, KeyOk
<1>3. outcome' \in [Nodes -> {"none", "ok", "parse", "package", "refused", "behind"}]
  BY DEF Pki!End, CertInv, CertTypes
<1> QED BY <1>1, <1>2, <1>3, WorkFrame DEF Pki!End

LEMMA TickStep ==
    ASSUME CertInv, NEW m \in Pki!Machines, Pki!Tick(m)
    PROVE  CertInv'
<1>1. clock' \in [Pki!Machines -> Nat] /\ \A k \in Pki!Machines : clock[k] <= clock'[k]
  BY DEF CertInv, CertTypes, Pki!Tick
<1>2. UNCHANGED <<rootCert, blocks, sessions, seen, following, work, outcome>>
  BY DEF Pki!Tick
<1>3. CertTypes'
  BY <1>1, <1>2 DEF CertInv, CertTypes
<1>4. clock["server"] \in Nat /\ clock'["server"] \in Nat /\ clock["server"] <= clock'["server"]
  BY <1>1 DEF CertInv, CertTypes, Pki!Machines, Pki!Server
<1>5. BlocksInv'
  <2> SUFFICES ASSUME NEW i \in 2 .. Len(blocks) PROVE blocks[i].time <= clock'["server"]
    BY <1>2 DEF CertInv, BlocksInv
  <2>1. i \in 1 .. Len(blocks) /\ blocks[i] \in [cert : Certs, time : Nat]
    BY RootFacts
  <2>2. blocks[i].time \in Nat /\ blocks[i].time <= clock["server"]
    BY <2>1 DEF CertInv, BlocksInv
  <2> QED BY <1>4, <2>2
<1>6. SessionsInv'
  <2> SUFFICES ASSUME NEW cert \in sessions PROVE cert.before <= clock'["server"]
    BY <1>2 DEF CertInv, SessionsInv
  <2>1. cert.before \in Nat /\ cert.before <= clock["server"]
    BY DEF CertInv, CertTypes, SessionsInv, Certs
  <2> QED BY <1>4, <2>1
<1>7. ASSUME NEW n \in Nodes PROVE WorkOk(n, work[n])'
  <2>1. clock[n] \in Nat /\ clock'[n] \in Nat /\ clock[n] <= clock'[n]
    BY <1>1 DEF CertInv, CertTypes, Pki!Machines
  <2>2. work'[n] = work[n] /\ seen'[n] = seen[n]
    BY <1>2
  <2>3. work[n].state \in {"made", "packaged"} => work[n].cert.before \in Nat
    BY WorkTypes DEF Certs
  <2>4. work[n].state = "making" => work[n].before \in Nat
    BY WorkTypes
  <2> QED BY <2>1, <2>2, <2>3, <2>4, WorkTypes DEF WorkOk
<1>8. KeysInv'
  BY <1>2 DEF CertInv, KeysInv, KeyOk
<1> QED BY <1>3, <1>5, <1>6, <1>7, <1>8 DEF CertInv, WorkInv

\* KeyPair::generate: a key that nobody has.
LEMMA FreshKey ==
    ASSUME CertInv, SpkiHashes \ Pki!Taken # {}
    PROVE  /\ Pki!NewKey \in CertKeys /\ Pki!NewKey # "root"
           /\ \A c \in sessions : c.spki # Pki!NewKey
           /\ \A i \in 1 .. Len(blocks) : blocks[i].cert.spki # Pki!NewKey
           /\ \A k \in Nodes : work[k].state # "none" => work[k].spki # Pki!NewKey
<1>1. Pki!NewKey \in SpkiHashes /\ Pki!NewKey \notin Pki!Taken
  <2>1. PICK spki \in SpkiHashes : spki \notin Pki!Taken
    OBVIOUS
  <2> QED BY <2>1, Zenon DEF Pki!NewKey
<1>2. \A c \in sessions \cup Pki!Certificates(blocks) : c.spki \in Pki!Taken
  BY Zenon DEF Pki!Taken
<1>3. \A k \in Nodes : work[k] # Pki!None => work[k].spki \in Pki!Taken
  BY Zenon DEF Pki!Taken
<1>4. rootCert \in Pki!Certificates(blocks)
      /\ \A i \in 1 .. Len(blocks) : blocks[i].cert \in Pki!Certificates(blocks)
  BY DEF Pki!Certificates
<1>5. \A k \in Nodes : work[k].state # "none" => work[k] # Pki!None
  BY DEF Pki!None
<1>6. rootCert.spki = "root"
  BY RootFacts
<1> QED BY <1>1, <1>2, <1>3, <1>4, <1>5, <1>6, Zenon DEF CertKeys

LEMMA StartStep ==
    ASSUME CertInv, NEW n \in Nodes, NEW type \in {"Agent", "UserSession"},
           Pki!StartCertificate(n, type)
    PROVE  CertInv'
<1>1. PICK key : key = Pki!NewKey
  OBVIOUS
<1>2. key \in CertKeys /\ KeyOk(n, [state |-> "making", type |-> type, spki |-> key,
                                    before |-> clock[n]])
  BY <1>1, FreshKey DEF Pki!StartCertificate, KeyOk
<1>3. PICK w : w = [state |-> "making", type |-> type, spki |-> key, before |-> clock[n]]
  OBVIOUS
<1>4. w \in Works
  <2>1. clock[n] \in Nat
    BY WorkTypes
  <2>2. PICK K : K = CertKeys
    OBVIOUS
  <2>3. w \in [state : {"making"}, type : {"Agent", "UserSession"}, spki : K, before : Nat]
    BY <1>2, <1>3, <2>1, <2>2
  <2> QED BY <2>2, <2>3 DEF Works
<1>5. WorkOk(n, w)
  BY <1>3, WorkTypes DEF WorkOk
<1>6. work' = [work EXCEPT ![n] = w]
  BY <1>1, <1>3 DEF Pki!StartCertificate
<1>7. /\ UNCHANGED <<clock, rootCert, blocks, sessions, seen>>
      /\ following' \in [Nodes -> BOOLEAN]
      /\ outcome' \in [Nodes -> {"none", "ok", "parse", "package", "refused", "behind"}]
  BY DEF Pki!StartCertificate, CertInv, CertTypes
<1>8. KeyOk(n, w)
  BY <1>2, <1>3
<1> QED BY <1>4, <1>5, <1>6, <1>7, <1>8, WorkFrame

LEMMA FinishStep ==
    ASSUME CertInv, NEW n \in Nodes, Pki!FinishCertificate(n)
    PROVE  CertInv'
<1>1. /\ work[n].state = "making" /\ work[n].type \in {"Agent", "UserSession"}
      /\ work[n].before \in Nat /\ work[n].spki \in CertKeys /\ clock[n] \in Nat
      /\ work[n].before <= clock[n]
  BY WorkTypes DEF Pki!FinishCertificate, WorkOk
<1>2. PICK spki, type, before, after :
        /\ spki = work[n].spki /\ type = work[n].type /\ before = work[n].before
        /\ after = clock[n] + ValidityDuration[work[n].type]
  OBVIOUS
<1>3. PICK cert : cert = Pki!Cert(spki, type, before, after)
  OBVIOUS
<1>4. /\ IF Pki!FromDer(cert)
         THEN /\ work' = [work EXCEPT ![n] =
                              [state |-> "made", spki |-> cert.spki, cert |-> cert]]
              /\ UNCHANGED outcome
         ELSE Pki!End(n, "parse")
      /\ UNCHANGED <<clock, rootCert, blocks, sessions, seen, following>>
  BY <1>2, <1>3 DEF Pki!FinishCertificate
<1>5. following \in [Nodes -> BOOLEAN]
      /\ outcome \in [Nodes -> {"none", "ok", "parse", "package", "refused", "behind"}]
  BY DEF CertInv, CertTypes
<1>6. CASE ~Pki!FromDer(cert)
  BY <1>4, <1>5, <1>6, EndStep
<1>7. CASE Pki!FromDer(cert)
  <2>1. cert.spki = spki /\ cert.type = type /\ cert.before = before /\ cert.after = after
    BY <1>3 DEF Pki!Cert
  <2>2. PICK d \in Nat : d = ValidityDuration[type]
    BY <1>1, <1>2, DurationFacts
  <2>3. after = before + d /\ after \in Nat
    BY <1>1, <1>2, <1>7, <2>1, <2>2 DEF Pki!FromDer
  <2>4. cert \in Certs
    <3>1. PICK K : K = CertKeys
      OBVIOUS
    <3> QED BY <1>1, <1>2, <1>3, <2>3, <3>1 DEF Pki!Cert, Certs
  <2>5. Made(cert)
    BY <1>1, <1>2, <2>1, <2>2, <2>3 DEF Made
  <2>6. PICK w : w = [state |-> "made", spki |-> cert.spki, cert |-> cert]
    OBVIOUS
  <2>7. w.state = "made" /\ w.spki = spki /\ w.cert = cert
    BY <2>1, <2>6
  <2>8. w \in Works
    <3>1. PICK K, C : K = CertKeys /\ C = Certs
      OBVIOUS
    <3>2. w \in [state : {"made"}, spki : K, cert : C]
      BY <1>1, <1>2, <2>1, <2>4, <2>6, <3>1
    <3> QED BY <3>1, <3>2 DEF Works
  <2>9. WorkOk(n, w)
    BY <1>1, <1>2, <2>1, <2>5, <2>7 DEF WorkOk
  <2>10. KeyOk(n, w)
    <3>1. KeyOk(n, work[n])
      BY WorkTypes
    <3> QED BY <1>1, <1>2, <2>7, <3>1 DEF KeyOk
  <2> QED BY <1>4, <1>5, <1>7, <2>6, <2>8, <2>9, <2>10, WorkFrame
<1> QED BY <1>6, <1>7

\* The certificates of a prefix of the blocks.
LEMMA PrefixFacts ==
    ASSUME CertInv, NEW k \in 1 .. Len(blocks), NEW prefix, prefix = SubSeq(blocks, 1, k)
    PROVE  /\ prefix \in Seq([cert : Certs, time : Nat]) /\ Len(prefix) = k /\ prefix # << >>
           /\ \A i \in 1 .. k : prefix[i] = blocks[i]
           /\ Pki!Certificates(prefix) = {rootCert} \cup { blocks[i].cert : i \in 1 .. k }
<1>1. PICK B : B = [cert : Certs, time : Nat]
  OBVIOUS
<1>2. blocks \in Seq(B)
  BY <1>1 DEF CertInv, CertTypes
<1>3. k \in Nat /\ 1 <= k /\ k <= Len(blocks) /\ Len(blocks) \in Nat
  BY RootFacts
<1>4. prefix \in Seq(B) /\ Len(prefix) = k /\ \A i \in 1 .. k : prefix[i] = blocks[i]
  BY <1>2, <1>3
<1>5. prefix # << >>
  BY <1>3, <1>4
<1>6. Pki!Certificates(prefix) = {rootCert} \cup { blocks[i].cert : i \in 1 .. k }
  BY <1>4 DEF Pki!Certificates
<1> QED BY <1>1, <1>4, <1>5, <1>6

\* Signed by the root user, a certificate is judged by its validity alone.
LEMMA SignatureFacts ==
    ASSUME CertInv, NEW cert \in Certs, NEW time, cert.type # "Root"
    PROVE  Pki!VerifySignature(cert, rootCert, time) <=> Pki!ValidAt(cert, time)
<1>1. cert.type \in {"Server", "Agent", "UserSession"} /\ cert.issuer = "root"
  BY DEF Certs
<1> QED BY <1>1, RootFacts DEF Pki!VerifySignature, Pki!MayBeParentOf

LEMMA StateCheckFacts ==
    ASSUME CertInv, NEW k \in 1 .. Len(blocks), NEW prefix, NEW cert \in Certs, NEW time,
           prefix = SubSeq(blocks, 1, k) \/ (prefix = blocks /\ k = Len(blocks)),
           cert.type # "Root", cert.spki # "root",
           \A i \in 1 .. k : blocks[i].cert.spki # cert.spki
    PROVE  Pki!StateCheck(prefix, time, cert) <=> Pki!ValidAt(cert, time)
<1>1. Pki!Certificates(prefix) = {rootCert} \cup { blocks[i].cert : i \in 1 .. k }
  <2>1. CASE prefix = SubSeq(blocks, 1, k)
    BY <2>1, PrefixFacts
  <2>2. CASE prefix = blocks /\ k = Len(blocks)
    BY <2>2 DEF Pki!Certificates
  <2> QED BY <2>1, <2>2
<1>2. Pki!Get(prefix, cert.spki) = {}
  <2> SUFFICES ASSUME NEW c \in Pki!Certificates(prefix), c.spki = cert.spki PROVE FALSE
    BY DEF Pki!Get
  <2> QED BY <1>1, RootFacts
<1>3. cert.issuer = rootCert.spki
  BY RootFacts DEF Certs
<1> QED BY <1>2, <1>3, SignatureFacts DEF Pki!StateCheck

\* The chain of what the root user issued ends at the root, so that it verifies
\* whenever the certificate is valid.
LEMMA LeafFacts ==
    ASSUME CertInv, NEW cert \in Certs, NEW time, cert.type # "Root", cert.spki # "root"
    PROVE  Pki!VerifyChain(Pki!CompleteChain(blocks, cert), time) <=> Pki!ValidAt(cert, time)
<1>1. PICK C : C = Pki!Certificates(blocks)
  OBVIOUS
<1>2. rootCert \in C /\ \A c \in C : c = rootCert \/ \E i \in 1 .. Len(blocks) : c = blocks[i].cert
  BY <1>1 DEF Pki!Certificates
<1>3. \A c \in C : c.spki = "root" => c = rootCert
  BY <1>2 DEF CertInv, KeysInv
<1>4. cert.issuer = "root"
  BY DEF Certs
<1>5. IsPair(Pki!CompleteChain(blocks, cert), cert)
  BY <1>1, <1>2, <1>3, <1>4, RootFacts, ChainToRoot
<1> QED BY <1>5, ChainVerifies, SignatureFacts

LEMMA PushRoot ==
    ASSUME CertInv, NEW cert \in Certs, cert.type # "Root", cert.spki # "root"
    PROVE  Pki!MayPushParent(<<cert>>, rootCert)
<1>1. PICK one : one = <<cert>>
  OBVIOUS
<1>2. Len(one) = 1 /\ one[1] = cert /\ \A i \in 1 .. Len(one) : one[i] = cert
  BY <1>1
<1>3. cert.issuer = "root"
  BY DEF Certs
<1>4. Pki!MayPushParent(one, rootCert)
  BY <1>2, <1>3, RootFacts DEF Pki!MayPushParent
<1> QED BY <1>1, <1>4

\* A certificate that a node has made.
LEMMA MadeFacts ==
    ASSUME CertInv, NEW n \in Nodes, work[n].state \in {"made", "packaged"}
    PROVE  /\ work[n].cert \in Certs /\ Made(work[n].cert)
           /\ work[n].cert.before \in Nat /\ work[n].cert.after \in Nat
           /\ work[n].cert.type \in {"Agent", "UserSession"} /\ work[n].cert.type # "Root"
           /\ work[n].cert.spki # "root" /\ work[n].cert.spki = work[n].spki
           /\ work[n].cert.before <= clock[n] /\ clock[n] \in Nat
           /\ \A i \in 1 .. Len(blocks) : blocks[i].cert.spki # work[n].cert.spki
           /\ \A c \in sessions : c.spki # work[n].cert.spki
<1>1. /\ work[n].cert \in Certs /\ WorkOk(n, work[n]) /\ KeyOk(n, work[n]) /\ clock[n] \in Nat
  BY WorkTypes
<1>2. work[n].cert.before \in Nat /\ work[n].cert.after \in Nat
  BY <1>1 DEF Certs
<1> QED BY <1>1, <1>2 DEF WorkOk, KeyOk, Made

LEMMA LoginStep ==
    ASSUME CertInv, NEW n \in Nodes, Pki!Login(n)
    PROVE  CertInv'
<1>1. work[n].state = "made" /\ work[n].cert.type = "UserSession"
  BY DEF Pki!Login
<1>2. PICK cert : cert = work[n].cert
  OBVIOUS
<1>3. /\ \/ Pki!ValidAt(cert, clock["server"]) /\ sessions' = sessions \cup {cert} /\ Pki!End(n, "ok")
         \/ Pki!End(n, "refused") /\ UNCHANGED sessions
      /\ UNCHANGED <<clock, rootCert, blocks, seen, following>>
  BY <1>1, <1>2, MadeFacts, LeafFacts DEF Pki!Login, Pki!Server
<1>4. following \in [Nodes -> BOOLEAN]
  BY DEF CertInv, CertTypes
<1>5. CASE Pki!End(n, "refused") /\ UNCHANGED sessions
  BY <1>3, <1>4, <1>5, EndStep
<1>6. CASE Pki!ValidAt(cert, clock["server"]) /\ sessions' = sessions \cup {cert} /\ Pki!End(n, "ok")
  <2>1. work \in [Nodes -> Works] /\ Pki!None \in Works /\ Pki!None.state = "none"
    BY DEF CertInv, CertTypes, Works, Pki!None
  <2>2. work'[n] = Pki!None /\ \A k \in Nodes : k # n => work'[k] = work[k]
    BY <1>6, <2>1 DEF Pki!End
  <2>3. CertTypes'
    BY <1>1, <1>2, <1>3, <1>6, <2>1, MadeFacts DEF CertInv, CertTypes, Pki!End
  <2>4. BlocksInv'
    BY <1>3 DEF CertInv, BlocksInv
  <2>5. SessionsInv'
    BY <1>1, <1>2, <1>3, <1>6, MadeFacts DEF CertInv, SessionsInv, Pki!ValidAt
  <2>6. WorkInv'
    BY <1>3, <2>1, <2>2 DEF CertInv, WorkInv, WorkOk
  <2>7. ASSUME NEW k \in Nodes PROVE KeyOk(k, work[k])'
    <3>1. CASE k = n
      BY <2>1, <2>2, <3>1 DEF KeyOk
    <3>2. CASE k # n
      <4>1. KeyOk(k, work[k])
        BY WorkTypes
      <4>2. work'[k] = work[k] /\ (work[k].state # "none" => cert.spki # work[k].spki)
        BY <1>1, <1>2, <2>2, <3>2, <4>1, MadeFacts DEF KeyOk
      <4> QED BY <1>3, <1>6, <2>1, <2>2, <4>1, <4>2 DEF KeyOk
    <3> QED BY <3>1, <3>2
  <2>8. KeysInv'
    BY <1>1, <1>2, <1>3, <1>6, <2>7, MadeFacts DEF CertInv, KeysInv
  <2> QED BY <2>3, <2>4, <2>5, <2>6, <2>8 DEF CertInv
<1> QED BY <1>3, <1>5, <1>6

LEMMA PackageStep ==
    ASSUME CertInv, NEW n \in Nodes, Pki!Package(n)
    PROVE  CertInv'
<1>1. work[n].state = "made" /\ work[n].cert.type = "Agent"
  BY DEF Pki!Package
<1>2. PICK cert, spki, time, sequence :
        cert = work[n].cert /\ spki = work[n].spki /\ time = clock[n] /\ sequence = seen[n] + 1
  OBVIOUS
<1>3. PICK w : w = [state |-> "packaged", spki |-> spki, cert |-> cert, time |-> time,
                    sequence |-> sequence]
  OBVIOUS
<1>4. seen[n] \in 1 .. Len(blocks) /\ sequence \in Nat /\ time \in Nat /\ spki \in CertKeys
  BY <1>1, <1>2, WorkTypes, RootFacts
<1>5. \A i \in 1 .. seen[n] : i \in 1 .. Len(blocks)
  BY <1>4, RootFacts
<1>6. /\ \/ Pki!ValidAt(cert, time) /\ work' = [work EXCEPT ![n] = w] /\ UNCHANGED outcome
         \/ Pki!End(n, "package")
      /\ UNCHANGED <<clock, rootCert, blocks, sessions, seen, following>>
  BY <1>1, <1>2, <1>3, <1>4, <1>5, MadeFacts, StateCheckFacts DEF Pki!Package
<1>7. following \in [Nodes -> BOOLEAN]
      /\ outcome \in [Nodes -> {"none", "ok", "parse", "package", "refused", "behind"}]
  BY DEF CertInv, CertTypes
<1>8. CASE Pki!End(n, "package")
  BY <1>6, <1>7, <1>8, EndStep
<1>9. CASE Pki!ValidAt(cert, time) /\ work' = [work EXCEPT ![n] = w] /\ UNCHANGED outcome
  <2>1. /\ w.state = "packaged" /\ w.spki = spki /\ w.cert = cert /\ w.time = time
        /\ w.sequence = sequence
    BY <1>3
  <2>2. w \in Works
    <3>1. PICK K, C : K = CertKeys /\ C = Certs
      OBVIOUS
    <3>2. w \in [state : {"packaged"}, spki : K, cert : C, time : Nat, sequence : Nat]
      BY <1>1, <1>2, <1>3, <1>4, <3>1, MadeFacts
    <3> QED BY <3>1, <3>2 DEF Works
  <2>3. WorkOk(n, w)
    BY <1>1, <1>2, <1>4, <1>9, <2>1, MadeFacts, WorkTypes DEF WorkOk
  <2>4. KeyOk(n, w)
    <3>1. KeyOk(n, work[n])
      BY WorkTypes
    <3> QED BY <1>1, <1>2, <2>1, <3>1 DEF KeyOk
  <2> QED BY <1>6, <1>7, <1>9, <2>2, <2>3, <2>4, WorkFrame
<1> QED BY <1>6, <1>8, <1>9

LEMMA AppendFacts ==
    ASSUME NEW S, NEW s \in Seq(S), NEW e \in S
    PROVE  /\ Append(s, e) \in Seq(S) /\ Append(s, e) # << >> /\ Len(s) \in Nat
           /\ Len(Append(s, e)) = Len(s) + 1 /\ Append(s, e)[Len(s) + 1] = e
           /\ \A i \in 1 .. Len(s) : Append(s, e)[i] = s[i]
OBVIOUS

LEMMA UploadStep ==
    ASSUME CertInv, NEW n \in Nodes, Pki!Upload(n)
    PROVE  CertInv'
<1>1. work[n].state = "packaged"
  BY DEF Pki!Upload
<1>2. PICK cert, time, sequence :
        cert = work[n].cert /\ time = work[n].time /\ sequence = work[n].sequence
  OBVIOUS
<1>3. time \in Nat /\ sequence \in Nat /\ cert \in Certs /\ cert.type = "Agent"
      /\ Pki!ValidAt(cert, time) /\ Made(cert)
  BY <1>1, <1>2, WorkTypes, MadeFacts DEF WorkOk
<1>4. PICK b : b = [cert |-> cert, time |-> time]
  OBVIOUS
<1>5. b.cert = cert /\ b.time = time /\ b \in [cert : Certs, time : Nat]
  BY <1>3, <1>4
<1>6. /\ \/ /\ sequence = Len(blocks) + 1 /\ blocks[Len(blocks)].time <= time
            /\ time <= clock["server"]
            /\ blocks' = Append(blocks, b) /\ seen' = [seen EXCEPT ![n] = sequence]
            /\ Pki!End(n, "ok")
         \/ Pki!End(n, "refused") /\ UNCHANGED <<blocks, seen>>
      /\ UNCHANGED <<clock, rootCert, sessions, following>>
  <2>1. blocks # << >>
    BY DEF CertInv, CertTypes
  <2> QED BY <1>2, <1>4, <2>1 DEF Pki!Upload, Pki!Check, Pki!Server
<1>7. following \in [Nodes -> BOOLEAN]
  BY DEF CertInv, CertTypes
<1>8. CASE Pki!End(n, "refused") /\ UNCHANGED <<blocks, seen>>
  BY <1>6, <1>7, <1>8, EndStep
<1>9. CASE /\ sequence = Len(blocks) + 1 /\ blocks[Len(blocks)].time <= time
           /\ time <= clock["server"]
           /\ blocks' = Append(blocks, b) /\ seen' = [seen EXCEPT ![n] = sequence]
           /\ Pki!End(n, "ok")
  <2>1. work \in [Nodes -> Works] /\ Pki!None \in Works /\ Pki!None.state = "none"
    BY DEF CertInv, CertTypes, Works, Pki!None
  <2>2. work'[n] = Pki!None /\ \A k \in Nodes : k # n => work'[k] = work[k]
    BY <1>9, <2>1 DEF Pki!End
  <2>3. PICK B : B = [cert : Certs, time : Nat]
    OBVIOUS
  <2>4. blocks \in Seq(B) /\ b \in B
    BY <1>5, <2>3 DEF CertInv, CertTypes
  <2>5. /\ blocks' \in Seq(B) /\ blocks' # << >> /\ Len(blocks) \in Nat
        /\ Len(blocks') = Len(blocks) + 1 /\ blocks'[Len(blocks) + 1] = b
        /\ \A i \in 1 .. Len(blocks) : blocks'[i] = blocks[i]
    BY <1>9, <2>4, AppendFacts
  <2>6. Len(blocks) >= 1
    BY RootFacts
  <2>7. seen \in [Nodes -> Nat] /\ \A k \in Nodes : 1 <= seen[k] /\ seen[k] <= Len(blocks)
    BY DEF CertInv, CertTypes
  <2>8. /\ seen' \in [Nodes -> Nat]
        /\ \A k \in Nodes : /\ 1 <= seen'[k] /\ seen'[k] <= Len(blocks')
                            /\ k # n => seen'[k] = seen[k]
    BY <1>3, <1>9, <2>5, <2>6, <2>7
  <2>9. /\ clock' \in [Pki!Machines -> Nat]
        /\ rootCert' = Pki!Cert("root", "Root", 0, ValidityDuration["Root"])
        /\ sessions' \subseteq Certs /\ following' \in [Nodes -> BOOLEAN]
        /\ work' \in [Nodes -> Works]
        /\ outcome' \in [Nodes -> {"none", "ok", "parse", "package", "refused", "behind"}]
    BY <1>6, <1>9, <2>1 DEF CertInv, CertTypes, Pki!End
  <2>10. CertTypes'
    BY <2>3, <2>5, <2>8, <2>9 DEF CertTypes, Pki!Machines, Pki!Server
  <2>11. \A i \in 1 .. Len(blocks') : i = Len(blocks) + 1 \/ i \in 1 .. Len(blocks)
    BY <2>5
  <2>12. BlocksInv'
    <3>1. blocks'[1] = blocks[1] /\ clock' = clock
      BY <1>6, <2>5, <2>6
    <3>2. ASSUME NEW i \in 2 .. Len(blocks')
          PROVE  /\ Made(blocks'[i].cert) /\ blocks'[i].cert.type = "Agent"
                 /\ Pki!ValidAt(blocks'[i].cert, blocks'[i].time)
                 /\ blocks'[i].time <= clock["server"]
                 /\ blocks'[i - 1].time <= blocks'[i].time
      <4>1. CASE i = Len(blocks) + 1
        <5>1. i - 1 = Len(blocks) /\ Len(blocks) \in 1 .. Len(blocks)
          BY <2>5, <2>6, <4>1
        <5>2. blocks'[i] = b /\ blocks'[i - 1] = blocks[Len(blocks)]
          BY <2>5, <4>1, <5>1
        <5> QED BY <1>3, <1>5, <1>9, <5>2
      <4>2. CASE i # Len(blocks) + 1
        <5>1. i \in 2 .. Len(blocks) /\ i - 1 \in 1 .. Len(blocks) /\ i \in 1 .. Len(blocks)
          BY <2>5, <4>2
        <5>2. blocks'[i] = blocks[i] /\ blocks'[i - 1] = blocks[i - 1]
          BY <2>5, <5>1
        <5> QED BY <5>1, <5>2 DEF CertInv, BlocksInv
      <4> QED BY <4>1, <4>2
    <3> QED BY <3>1, <3>2 DEF CertInv, BlocksInv, Made, Pki!ValidAt
  <2>13. SessionsInv'
    BY <1>6 DEF CertInv, SessionsInv
  <2>14. ASSUME NEW k \in Nodes PROVE WorkOk(k, work[k])'
    BY <1>6, <2>1, <2>2, <2>8, WorkTypes DEF WorkOk
  <2>15. /\ cert.spki # "root" /\ \A i \in 1 .. Len(blocks) : blocks[i].cert.spki # cert.spki
         /\ \A c \in sessions : c.spki # cert.spki
         /\ cert.spki = work[n].spki
    BY <1>1, <1>2, MadeFacts
  <2>16. ASSUME NEW k \in Nodes PROVE KeyOk(k, work[k])'
    <3>1. CASE k = n
      BY <2>1, <2>2, <3>1 DEF KeyOk
    <3>2. CASE k # n
      <4>1. KeyOk(k, work[k])
        BY WorkTypes
      <4>2. work'[k] = work[k] /\ (work[k].state # "none" => cert.spki # work[k].spki)
        BY <1>1, <2>2, <2>15, <3>2, <4>1 DEF KeyOk
      <4>3. ASSUME work[k].state # "none", NEW i \in 1 .. Len(blocks')
            PROVE  blocks'[i].cert.spki # work[k].spki
        BY <1>5, <2>5, <2>11, <4>1, <4>2, <4>3 DEF KeyOk
      <4> QED BY <1>6, <2>1, <2>2, <4>1, <4>2, <4>3 DEF KeyOk
    <3> QED BY <3>1, <3>2
  <2>17. KeysInv'
    <3>1. \A i \in 1 .. Len(blocks') : blocks'[i].cert.spki # "root"
      BY <1>5, <2>5, <2>11, <2>15 DEF CertInv, KeysInv
    <3>2. ASSUME NEW i \in 1 .. Len(blocks'), NEW j \in 1 .. Len(blocks'),
                 blocks'[i].cert.spki = blocks'[j].cert.spki
          PROVE  i = j
      <4>1. \A l, m \in 1 .. Len(blocks) : blocks[l].cert.spki = blocks[m].cert.spki => l = m
        BY DEF CertInv, KeysInv
      <4> QED BY <1>5, <2>5, <2>11, <2>15, <3>2, <4>1
    <3>3. \A c \in sessions : \A i \in 1 .. Len(blocks') : c.spki # blocks'[i].cert.spki
      BY <1>5, <2>5, <2>11, <2>15 DEF CertInv, KeysInv
    <3> QED BY <1>6, <2>16, <3>1, <3>2, <3>3 DEF CertInv, KeysInv
  <2> QED BY <2>10, <2>12, <2>13, <2>14, <2>17 DEF CertInv, WorkInv
<1> QED BY <1>6, <1>8, <1>9

LEMMA FollowStep ==
    ASSUME CertInv, NEW n \in Nodes, Pki!Follow(n)
    PROVE  CertInv'
<1>1. /\ seen[n] < Len(blocks) /\ UNCHANGED <<clock, rootCert, blocks, sessions, work>>
      /\ \/ seen' = [seen EXCEPT ![n] = @ + 1] /\ UNCHANGED <<following, outcome>>
         \/ /\ following' = [following EXCEPT ![n] = FALSE]
            /\ outcome' = [outcome EXCEPT ![n] = "behind"] /\ UNCHANGED seen
  BY DEF Pki!Follow
<1>2. seen \in [Nodes -> Nat] /\ \A k \in Nodes : 1 <= seen[k] /\ seen[k] <= Len(blocks)
  BY DEF CertInv, CertTypes
<1>3. seen' \in [Nodes -> Nat] /\ \A k \in Nodes : seen[k] <= seen'[k] /\ seen'[k] <= Len(blocks)
  <2>1. PICK length \in Nat : length = Len(blocks)
    BY RootFacts
  <2>2. CASE seen' = [seen EXCEPT ![n] = seen[n] + 1]
    BY <1>1, <1>2, <2>1, <2>2
  <2>3. CASE UNCHANGED seen
    BY <1>2, <2>1, <2>3
  <2> QED BY <1>1, <2>2, <2>3
<1>4. CertTypes'
  <2>1. /\ following' \in [Nodes -> BOOLEAN]
        /\ outcome' \in [Nodes -> {"none", "ok", "parse", "package", "refused", "behind"}]
    BY <1>1 DEF CertInv, CertTypes
  <2>2. \A k \in Nodes : 1 <= seen'[k] /\ seen'[k] <= Len(blocks)
    BY <1>2, <1>3
  <2> QED BY <1>1, <1>3, <2>1, <2>2 DEF CertInv, CertTypes
<1>5. ASSUME NEW k \in Nodes PROVE WorkOk(k, work[k])'
  <2>1. work[k].state = "packaged" => work[k].sequence \in Nat
    BY WorkTypes
  <2> QED BY <1>1, <1>2, <1>3, <2>1, WorkTypes DEF WorkOk
<1>6. BlocksInv' /\ SessionsInv' /\ KeysInv'
  BY <1>1 DEF CertInv, BlocksInv, SessionsInv, KeysInv, KeyOk
<1> QED BY <1>4, <1>5, <1>6 DEF CertInv, WorkInv

LEMMA CertStart ==
    ASSUME Pki!Init
    PROVE  CertInv
<1>1. PICK c : c = Pki!Cert("server", "Server", 0, ValidityDuration["Server"])
  OBVIOUS
<1>2. PICK b : b = [cert |-> c, time |-> 0]
  OBVIOUS
<1>3. c \in Certs /\ c.spki = "server"
  <2>1. PICK d \in Nat : d = ValidityDuration["Server"]
    BY DurationFacts
  <2> QED BY <1>1, <2>1 DEF Pki!Cert, Certs, CertKeys
<1>4. b.cert = c /\ b.time = 0 /\ b \in [cert : Certs, time : Nat]
  BY <1>2, <1>3
<1>5. blocks = <<b>>
  BY <1>1, <1>2 DEF Pki!Init
<1>6. blocks \in Seq([cert : Certs, time : Nat]) /\ Len(blocks) = 1 /\ blocks[1] = b
  <2>1. PICK B : B = [cert : Certs, time : Nat]
    OBVIOUS
  <2> QED BY <1>4, <1>5, <2>1
<1>7. blocks # << >> /\ \A i \in 1 .. Len(blocks) : i = 1
  BY <1>6
<1>8. Pki!None \in Works /\ Pki!None.state = "none"
  BY DEF Works, Pki!None
<1>9. work = [n \in Nodes |-> Pki!None] /\ seen = [n \in Nodes |-> 1] /\ sessions = {}
  BY DEF Pki!Init
<1>10. clock \in [Pki!Machines -> Nat]
  BY DEF Pki!Init
<1>11. CertTypes
  BY <1>6, <1>7, <1>8, <1>9, <1>10 DEF Pki!Init, CertTypes
<1>12. BlocksInv
  BY <1>1, <1>4, <1>6 DEF BlocksInv
<1>13. SessionsInv /\ WorkInv
  BY <1>8, <1>9 DEF SessionsInv, WorkInv, WorkOk
<1>14. KeysInv
  BY <1>3, <1>4, <1>6, <1>7, <1>8, <1>9 DEF KeysInv, KeyOk
<1> QED BY <1>11, <1>12, <1>13, <1>14 DEF CertInv

LEMMA CertStep ==
    ASSUME CertInv, [Pki!Next]_(Pki!vars)
    PROVE  CertInv'
<1>1. CASE UNCHANGED Pki!vars
  BY <1>1 DEF Pki!vars, CertInv, CertTypes, BlocksInv, SessionsInv, WorkInv, WorkOk, KeysInv, KeyOk
<1>2. ASSUME NEW n \in Nodes, Pki!Restart(n) PROVE CertInv'
  <2>1. following' \in [Nodes -> BOOLEAN]
    BY <1>2 DEF Pki!Restart, CertInv, CertTypes
  <2> QED BY <1>2, <2>1, EndStep DEF Pki!Restart
<1> QED BY <1>1, <1>2, TickStep, StartStep, FinishStep, LoginStep, PackageStep, UploadStep,
           FollowStep DEF Pki!Next

\* TrustStoreVerifier::verify_known_certificate at any time, for what the server has.
LEMMA VerifierFacts ==
    ASSUME CertInv, NEW cert, NEW time \in Nat,
           cert \in sessions \/ \E i \in 1 .. Len(blocks) : cert = blocks[i].cert
    PROVE  /\ cert \in Certs /\ cert.type # "Root" /\ cert.spki # "root" /\ cert # rootCert
           /\ Pki!TrustStoreAccepts(blocks, cert, time)
                <=> /\ Pki!ValidAt(cert, time)
                    /\ cert.type = "UserSession" => Pki!ValidAt(rootCert, time)
<1>1. \A c \in Pki!Certificates(blocks) :
          c = rootCert \/ \E i \in 1 .. Len(blocks) : c = blocks[i].cert
  BY DEF Pki!Certificates
<1>2. rootCert \in Pki!Certificates(blocks)
      /\ \A i \in 1 .. Len(blocks) : blocks[i].cert \in Pki!Certificates(blocks)
  BY DEF Pki!Certificates
<1>3. CASE cert \in sessions
  <2>1. cert \in Certs /\ cert.type = "UserSession" /\ cert.spki # "root" /\ cert.issuer = "root"
    BY <1>3 DEF CertInv, CertTypes, SessionsInv, KeysInv, Certs
  <2>2. \A c \in Pki!Certificates(blocks) : c.spki = "root" <=> c = rootCert
    BY <1>1, RootFacts DEF CertInv, KeysInv
  <2>3. \A c : c \in Pki!VerifySpkiHash(blocks, "root", time)
                 <=> c = rootCert /\ Pki!ValidAt(rootCert, time)
    BY <1>2, <2>2 DEF Pki!VerifySpkiHash, Pki!Get
  <2>4. Pki!VerifySignature(cert, rootCert, time) <=> Pki!ValidAt(cert, time)
    BY <2>1, SignatureFacts
  <2> QED BY <2>1, <2>3, <2>4, RootFacts DEF Pki!TrustStoreAccepts
<1>4. CASE \E i \in 1 .. Len(blocks) : cert = blocks[i].cert
  <2>1. PICK i \in 1 .. Len(blocks) : cert = blocks[i].cert
    BY <1>4
  <2>2. cert \in Certs /\ cert.spki # "root"
    BY <2>1, RootFacts DEF CertInv, KeysInv
  <2>3. cert.type \in {"Server", "Agent"}
    <3>1. CASE i = 1
      BY <2>1, <3>1 DEF CertInv, BlocksInv, Pki!Cert
    <3>2. CASE i # 1
      <4>1. i \in 2 .. Len(blocks)
        BY <3>2
      <4> QED BY <2>1, <4>1 DEF CertInv, BlocksInv
    <3> QED BY <3>1, <3>2
  <2>4. cert \in Pki!VerifySpkiHash(blocks, cert.spki, time) <=> Pki!ValidAt(cert, time)
    BY <1>2, <2>1 DEF Pki!VerifySpkiHash, Pki!Get
  <2> QED BY <2>2, <2>3, <2>4, RootFacts DEF Pki!TrustStoreAccepts
<1> QED BY <1>3, <1>4

\* What the server stored, for any number of nodes, keys and blocks, any durations in
\* their order and clocks any distance apart: it accepts it until it expires, and the
\* trust-store verifier and a verified chain to the root agree about it at every time.
THEOREM StoredIsAlwaysAccepted == DevicesSpec => []StoredIsAccepted
<1>1. DevicesInit => CertInv
  BY CertStart DEF DevicesInit
<1>2. CertInv /\ [DevicesNext]_devicesVars => CertInv'
  <2>1. [DevicesNext]_devicesVars => [Pki!Next]_(Pki!vars)
    BY DEF DevicesNext, devicesVars, certificateVars, Pki!vars
  <2> QED BY <2>1, CertStep
<1>3. CertInv => StoredIsAccepted
  <2> SUFFICES ASSUME CertInv PROVE Pki!AcceptedUntilExpiry /\ Pki!VerifiersAgree
    BY DEF StoredIsAccepted
  <2>1. ASSUME NEW cert \in sessions \cup { blocks[i].cert : i \in 2 .. Len(blocks) },
               clock["server"] <= cert.after,
               cert.type = "UserSession" => clock["server"] <= rootCert.after
        PROVE  Pki!TrustStoreAccepts(blocks, cert, clock["server"])
    <3>1. cert \in sessions \/ \E i \in 1 .. Len(blocks) : cert = blocks[i].cert
      BY RootFacts
    <3>2. clock["server"] \in Nat
      BY RootFacts
    <3>3. cert.before <= clock["server"]
      <4>1. CASE cert \in sessions
        BY <4>1 DEF CertInv, SessionsInv
      <4>2. CASE \E i \in 2 .. Len(blocks) : cert = blocks[i].cert
        <5>1. PICK i \in 2 .. Len(blocks) : cert = blocks[i].cert
          BY <4>2
        <5>2. i \in 1 .. Len(blocks) /\ blocks[i] \in [cert : Certs, time : Nat]
          BY RootFacts
        <5>3. cert.before \in Nat /\ blocks[i].time \in Nat
          BY <5>1, <5>2 DEF Certs
        <5>4. cert.before <= blocks[i].time /\ blocks[i].time <= clock["server"]
          BY <5>1 DEF CertInv, BlocksInv, Pki!ValidAt
        <5> QED BY <3>2, <5>3, <5>4
      <4> QED BY <4>1, <4>2
    <3>4. Pki!ValidAt(cert, clock["server"])
      BY <2>1, <3>3 DEF Pki!ValidAt
    <3>5. cert.type = "UserSession" => Pki!ValidAt(rootCert, clock["server"])
      BY <2>1, <3>2, RootFacts DEF Pki!ValidAt
    <3> QED BY <3>1, <3>2, <3>4, <3>5, VerifierFacts
  <2>2. Pki!AcceptedUntilExpiry
    BY <2>1 DEF Pki!AcceptedUntilExpiry, Pki!Server
  <2>3. ASSUME NEW cert \in sessions \cup Pki!Certificates(blocks), NEW time \in 0 .. MaxTime,
               cert # rootCert
        PROVE  Pki!TrustStoreAccepts(blocks, cert, time)
                 <=> /\ Pki!ChainAccepts(cert, time)
                     /\ cert.type = "UserSession" => Pki!ValidAt(rootCert, time)
    <3>1. cert \in sessions \/ \E i \in 1 .. Len(blocks) : cert = blocks[i].cert
      BY <2>3 DEF Pki!Certificates
    <3>2. time \in Nat
      OBVIOUS
    <3>3. cert \in Certs /\ cert.type # "Root" /\ cert.spki # "root"
      BY <3>1, <3>2, VerifierFacts
    <3>4. Pki!ChainAccepts(cert, time) <=> Pki!ValidAt(cert, time)
      BY <3>3, LeafFacts DEF Pki!ChainAccepts
    <3> QED BY <3>1, <3>2, <3>4, VerifierFacts
  <2>4. Pki!VerifiersAgree
    BY <2>3, Zenon DEF Pki!VerifiersAgree
  <2> QED BY <2>2, <2>4
<1> QED BY <1>1, <1>2, <1>3, PTL DEF DevicesSpec

\* The reasons that RefusedForAReason allows node n.
Reason(n) ==
    /\ outcome'[n] = "parse" => clock[n] > work[n].before
    /\ outcome'[n] = "package" => clock[n] > work[n].cert.after
    /\ outcome'[n] = "behind" => blocks[seen[n] + 1].time > clock[n]
    /\ outcome'[n] = "refused" /\ work[n].state = "made" =>
          ~Pki!ValidAt(work[n].cert, clock["server"])
    /\ outcome'[n] = "refused" /\ work[n].state = "packaged" =>
          \/ Len(blocks) >= work[n].sequence
          \/ work[n].time > clock["server"]
          \/ work[n].time < blocks[Len(blocks)].time

\* Only the node that acts learns of an outcome.
LEMMA OutcomeFrame ==
    ASSUME CertInv, NEW n \in Nodes, NEW k \in Nodes, NEW how,
           outcome' = [outcome EXCEPT ![k] = how], outcome'[n] # outcome[n]
    PROVE  n = k /\ outcome'[n] = how
<1>1. outcome \in [Nodes -> {"none", "ok", "parse", "package", "refused", "behind"}]
  BY DEF CertInv, CertTypes
<1> QED BY <1>1

LEMMA ParseReason ==
    ASSUME CertInv, NEW n \in Nodes, Pki!FinishCertificate(n), outcome'[n] # outcome[n]
    PROVE  Reason(n)
<1>1. /\ work[n].state = "making" /\ work[n].type \in {"Agent", "UserSession"}
      /\ work[n].before \in Nat /\ clock[n] \in Nat /\ work[n].before <= clock[n]
      /\ work[n].spki # "root"
  BY WorkTypes DEF Pki!FinishCertificate, WorkOk, KeyOk
<1>2. PICK spki, type, before, after :
        /\ spki = work[n].spki /\ type = work[n].type /\ before = work[n].before
        /\ after = clock[n] + ValidityDuration[work[n].type]
  OBVIOUS
<1>3. PICK cert : cert = Pki!Cert(spki, type, before, after)
  OBVIOUS
<1>4. ~Pki!FromDer(cert) /\ Pki!End(n, "parse")
  BY <1>2, <1>3 DEF Pki!FinishCertificate
<1>5. /\ cert.spki = spki /\ cert.type = type /\ cert.before = before /\ cert.after = after
      /\ cert.issuer = "root"
  BY <1>3 DEF Pki!Cert
<1>6. PICK d \in Nat : d = ValidityDuration[type]
  BY <1>1, <1>2, DurationFacts
<1>7. clock[n] > work[n].before
  BY <1>1, <1>2, <1>4, <1>5, <1>6 DEF Pki!FromDer
<1>8. outcome'[n] = "parse"
  BY <1>4, OutcomeFrame DEF Pki!End
<1> QED BY <1>7, <1>8 DEF Reason

LEMMA LoginReason ==
    ASSUME CertInv, NEW n \in Nodes, Pki!Login(n), outcome'[n] # outcome[n]
    PROVE  Reason(n)
<1>1. work[n].state = "made"
  BY DEF Pki!Login
<1>2. /\ Pki!MayPushParent(<<work[n].cert>>, rootCert)
      /\ Pki!VerifyChain(Pki!CompleteChain(blocks, work[n].cert), clock["server"])
           <=> Pki!ValidAt(work[n].cert, clock["server"])
  BY <1>1, MadeFacts, LeafFacts, PushRoot
<1>3. Pki!End(n, "ok") \/ (Pki!End(n, "refused") /\ ~Pki!ValidAt(work[n].cert, clock["server"]))
  BY <1>2 DEF Pki!Login, Pki!Server
<1>4. CASE Pki!End(n, "ok")
  <2>1. outcome'[n] = "ok"
    BY <1>4, OutcomeFrame DEF Pki!End
  <2> QED BY <2>1 DEF Reason
<1>5. CASE Pki!End(n, "refused") /\ ~Pki!ValidAt(work[n].cert, clock["server"])
  <2>1. outcome'[n] = "refused"
    BY <1>5, OutcomeFrame DEF Pki!End
  <2> QED BY <1>1, <1>5, <2>1 DEF Reason
<1> QED BY <1>3, <1>4, <1>5

LEMMA PackageReason ==
    ASSUME CertInv, NEW n \in Nodes, Pki!Package(n), outcome'[n] # outcome[n]
    PROVE  Reason(n)
<1>1. work[n].state = "made"
  BY DEF Pki!Package
<1>2. seen[n] \in 1 .. Len(blocks) /\ \A i \in 1 .. seen[n] : i \in 1 .. Len(blocks)
  BY WorkTypes, RootFacts
<1>3. ~Pki!ValidAt(work[n].cert, clock[n]) /\ Pki!End(n, "package")
  BY <1>1, <1>2, MadeFacts, StateCheckFacts DEF Pki!Package
<1>4. clock[n] > work[n].cert.after
  BY <1>1, <1>3, MadeFacts DEF Pki!ValidAt
<1>5. outcome'[n] = "package"
  BY <1>3, OutcomeFrame DEF Pki!End
<1> QED BY <1>4, <1>5 DEF Reason

LEMMA UploadReason ==
    ASSUME CertInv, NEW n \in Nodes, Pki!Upload(n), outcome'[n] # outcome[n]
    PROVE  Reason(n)
<1>1. work[n].state = "packaged"
  BY DEF Pki!Upload
<1>2. /\ work[n].time \in Nat /\ work[n].sequence \in Nat /\ work[n].sequence <= seen[n] + 1
      /\ Pki!ValidAt(work[n].cert, work[n].time)
      /\ seen[n] \in Nat /\ seen[n] <= Len(blocks) /\ Len(blocks) \in Nat /\ Len(blocks) >= 1
      /\ clock["server"] \in Nat
  BY <1>1, WorkTypes, RootFacts DEF WorkOk
<1>3. Len(blocks) \in 1 .. Len(blocks) /\ blocks[Len(blocks)].time \in Nat
  <2>1. Len(blocks) \in 1 .. Len(blocks)
    BY <1>2
  <2>2. blocks[Len(blocks)] \in [cert : Certs, time : Nat]
    BY <2>1, RootFacts
  <2> QED BY <2>1, <2>2
<1>4. Pki!StateCheck(blocks, work[n].time, work[n].cert)
  BY <1>1, <1>2, <1>3, MadeFacts, StateCheckFacts
<1>5. Pki!End(n, "ok") \/ (Pki!End(n, "refused") /\ ~Pki!Check(blocks, work[n], clock["server"]))
  BY DEF Pki!Upload, Pki!Server
<1>6. CASE Pki!End(n, "ok")
  <2>1. outcome'[n] = "ok"
    BY <1>6, OutcomeFrame DEF Pki!End
  <2> QED BY <2>1 DEF Reason
<1>7. CASE Pki!End(n, "refused") /\ ~Pki!Check(blocks, work[n], clock["server"])
  <2>1. outcome'[n] = "refused"
    BY <1>7, OutcomeFrame DEF Pki!End
  <2>2. \/ work[n].sequence # Len(blocks) + 1
        \/ ~(blocks[Len(blocks)].time <= work[n].time)
        \/ ~(work[n].time <= clock["server"])
    BY <1>4, <1>7 DEF Pki!Check
  <2>3. \/ Len(blocks) >= work[n].sequence
        \/ work[n].time > clock["server"]
        \/ work[n].time < blocks[Len(blocks)].time
    <3>1. PICK sequence \in Nat, own \in Nat, length \in Nat, time \in Nat, last \in Nat, now \in Nat :
            /\ sequence = work[n].sequence /\ own = seen[n] /\ length = Len(blocks)
            /\ time = work[n].time /\ last = blocks[Len(blocks)].time /\ now = clock["server"]
      BY <1>2, <1>3
    <3>2. sequence <= own + 1 /\ own <= length
      BY <1>2, <3>1
    <3>3. sequence # length + 1 \/ ~(last <= time) \/ ~(time <= now)
      BY <2>2, <3>1
    <3>4. length >= sequence \/ time > now \/ time < last
      BY <3>2, <3>3
    <3> QED BY <3>1, <3>4
  <2> QED BY <1>1, <2>1, <2>3 DEF Reason
<1> QED BY <1>5, <1>6, <1>7

LEMMA FollowReason ==
    ASSUME CertInv, NEW n \in Nodes, Pki!Follow(n), outcome'[n] # outcome[n]
    PROVE  Reason(n)
<1>1. PICK k : k = seen[n]
  OBVIOUS
<1>2. k \in Nat /\ k >= 1 /\ k < Len(blocks) /\ Len(blocks) \in Nat
  BY <1>1, WorkTypes, RootFacts DEF Pki!Follow
<1>3. k \in 1 .. Len(blocks) /\ k + 1 \in 2 .. Len(blocks) /\ k + 1 \in 1 .. Len(blocks)
  BY <1>2
<1>4. PICK time, cert : time = blocks[k + 1].time /\ cert = blocks[k + 1].cert
  OBVIOUS
<1>5. PICK block : block = [sequence |-> k + 1, time |-> time, cert |-> cert]
  OBVIOUS
<1>6. block.sequence = k + 1 /\ block.time = time /\ block.cert = cert
  BY <1>5
<1>7. PICK prefix : prefix = SubSeq(blocks, 1, k)
  OBVIOUS
<1>8. /\ ~Pki!Check(prefix, block, clock[n])
      /\ outcome' = [outcome EXCEPT ![n] = "behind"]
  BY <1>1, <1>4, <1>5, <1>7 DEF Pki!Follow
<1>9. Len(prefix) = k /\ prefix[k] = blocks[k]
  BY <1>2, <1>3, <1>7, PrefixFacts
<1>10. /\ cert \in Certs /\ cert.type = "Agent" /\ cert.spki # "root"
       /\ Pki!ValidAt(cert, time) /\ blocks[k].time <= time
  <2>1. blocks[k + 1] \in [cert : Certs, time : Nat]
    BY <1>3, RootFacts
  <2>2. k + 1 - 1 = k
    BY <1>2
  <2>3. /\ blocks[k + 1].cert.type = "Agent"
        /\ Pki!ValidAt(blocks[k + 1].cert, blocks[k + 1].time)
        /\ blocks[k].time <= blocks[k + 1].time
    BY <1>3, <2>2 DEF CertInv, BlocksInv
  <2>4. blocks[k + 1].cert.spki # "root"
    BY <1>3 DEF CertInv, KeysInv
  <2> QED BY <1>4, <2>1, <2>3, <2>4
<1>11. \A i \in 1 .. k : blocks[i].cert.spki # cert.spki
  <2>1. \A i, j \in 1 .. Len(blocks) : blocks[i].cert.spki = blocks[j].cert.spki => i = j
    BY DEF CertInv, KeysInv
  <2> SUFFICES ASSUME NEW i \in 1 .. k PROVE blocks[i].cert.spki # cert.spki
    OBVIOUS
  <2>2. i \in 1 .. Len(blocks) /\ i # k + 1
    BY <1>2
  <2> QED BY <1>3, <1>4, <2>1, <2>2
<1>12. Pki!StateCheck(prefix, time, cert)
  BY <1>3, <1>7, <1>10, <1>11, StateCheckFacts
<1>13. ~(time <= clock[n])
  BY <1>6, <1>8, <1>9, <1>10, <1>12 DEF Pki!Check
<1>14. time \in Nat /\ clock[n] \in Nat
  <2>1. blocks[k + 1] \in [cert : Certs, time : Nat]
    BY <1>3, RootFacts
  <2> QED BY <1>4, <2>1, WorkTypes
<1>15. blocks[seen[n] + 1].time > clock[n]
  BY <1>1, <1>4, <1>13, <1>14
<1>16. outcome'[n] = "behind"
  BY <1>8, OutcomeFrame
<1> QED BY <1>15, <1>16 DEF Reason

LEMMA ReasonStep ==
    ASSUME CertInv, Pki!Next, NEW n \in Nodes, outcome'[n] # outcome[n]
    PROVE  Reason(n)
<1>1. ASSUME NEW m \in Pki!Machines, Pki!Tick(m) PROVE FALSE
  BY <1>1 DEF Pki!Tick
<1>2. ASSUME NEW k \in Nodes, NEW type \in {"Agent", "UserSession"}, Pki!StartCertificate(k, type)
      PROVE  Reason(n)
  <2>1. outcome'[n] = "none"
    BY <1>2, OutcomeFrame DEF Pki!StartCertificate
  <2> QED BY <2>1 DEF Reason
<1>3. ASSUME NEW k \in Nodes, Pki!Restart(k)
      PROVE  Reason(n)
  <2>1. outcome'[n] = "none"
    BY <1>3, OutcomeFrame DEF Pki!Restart, Pki!End
  <2> QED BY <2>1 DEF Reason
<1>4. ASSUME NEW k \in Nodes,
             Pki!FinishCertificate(k) \/ Pki!Login(k) \/ Pki!Package(k) \/ Pki!Upload(k) \/ Pki!Follow(k)
      PROVE  n = k
  <2>1. \/ UNCHANGED outcome
        \/ \E how \in {"parse", "ok", "refused", "package", "behind"} :
              outcome' = [outcome EXCEPT ![k] = how]
    BY <1>4 DEF Pki!FinishCertificate, Pki!Login, Pki!Package, Pki!Upload, Pki!Follow, Pki!End
  <2> QED BY <2>1, OutcomeFrame
<1> QED BY <1>1, <1>2, <1>3, <1>4, ParseReason, LoginReason, PackageReason, UploadReason,
           FollowReason DEF Pki!Next

\* A certificate, a login, a block or a node's following fails for no other reason than
\* RefusedForAReason names, for any number of nodes and clocks any distance apart.
THEOREM AlwaysRefusedForAReason == DevicesSpec => RefusedForAReason
<1>1. DevicesInit => CertInv
  BY CertStart DEF DevicesInit
<1>2. [DevicesNext]_devicesVars => [Pki!Next]_(Pki!vars)
  BY DEF DevicesNext, devicesVars, certificateVars, Pki!vars
<1>3. CertInv /\ [DevicesNext]_devicesVars => CertInv'
  BY <1>2, CertStep
<1>4. CertInv /\ [DevicesNext]_devicesVars =>
        [\A n \in Nodes : outcome'[n] # outcome[n] => Reason(n)]_(Pki!vars)
  BY <1>2, ReasonStep
<1>5. ([][\A n \in Nodes : outcome'[n] # outcome[n] => Reason(n)]_(Pki!vars)) => RefusedForAReason
  BY DEF RefusedForAReason, Pki!RefusedForAReason, Reason, Pki!Server
<1> QED BY <1>1, <1>3, <1>4, <1>5, PTL DEF DevicesSpec

-----------------------------------------------------------------------------
(* The groups of a device.                                                 *)

Items(s) == { s[i] : i \in 1 .. Len(s) }

Entries == [by : Members, new : SUBSET Members, nr : Nat]
Logs == Seq(Entries)
Commits == [type : {"NewDeviceGroup", "AddToGroup"}, group : Groups, by : Members, log : Logs]
Contents == [type : {"GroupMessage"}, group : Groups, by : Members, log : Logs,
             gen : Nat, content : Nat]
Welcomes == [type : {"Welcome"}, group : Groups, log : Logs]
Posts == Commits \cup Contents \cup Welcomes
Answers == [receivers : SUBSET Members, message : Posts]
Readings == [by : Members, content : Nat]

GroupTypes ==
    /\ group \in [Members -> [Groups -> Logs]]
    /\ gen \in [Members -> [Groups -> [Members -> Nat]]]
    /\ outbox \in [Members -> Seq(Posts)] /\ handling \in [Members -> Seq(Answers)]
    /\ stored \in [Groups -> Logs] /\ cached \in [Groups -> Logs]
    /\ owed \in [Members -> Seq(Posts)] /\ tried \in [Members -> Nat]
    /\ read \in [Members -> [Groups -> Seq(Readings)]]
    /\ operations \in Nat

\* Log a is the beginning of log b.
Begins(a, b) == Len(a) <= Len(b) /\ \A i \in 1 .. Len(a) : a[i] = b[i]

\* Who creates a group.
Founders(g) == IF g = "DeviceGroup" THEN {Device} ELSE MetaCreators

\* Every log of a group begins with the entry of its only creation.
Born(history, g) ==
    history # NoGroup =>
      \E c \in Founders(g) : /\ group[c][g] # NoGroup /\ history[1] = group[c][g][1]
                             /\ history[1].by = c /\ c \in history[1].new

\* Nobody adds itself but in a creation.
AddsOthers(history) == \A i \in 2 .. Len(history) : history[i].by \notin history[i].new

\* Member m's log is the server's up to some entry, and after that m's own.
OwnAfter(m, g, k) ==
    /\ k <= Len(group[m][g])
    /\ \A i \in 1 .. k : group[m][g][i] = stored[g][i]
    /\ \A i \in k + 1 .. Len(group[m][g]) : group[m][g][i].by = m

LogInv ==
    \A m \in Members, g \in Groups :
        /\ Born(group[m][g], g) /\ AddsOthers(group[m][g])
        /\ group[m][g] # NoGroup => m \in GroupMembers(group[m][g])
        /\ \E k \in 0 .. Len(stored[g]) : OwnAfter(m, g, k)

ServerInv ==
    /\ \A g \in Groups : /\ Born(stored[g], g) /\ AddsOthers(stored[g])
                         /\ cached[g] # NoGroup => cached[g] = stored[g]
    /\ Device \notin GroupMembers(stored["DeviceMetaGroup"])

\* What a member has sent and the server has not seen.
OutOk(m, message) ==
    /\ message.type # "Welcome" /\ message.by = m /\ message.log # NoGroup
    /\ message.type # "GroupMessage" => Begins(message.log, group[m][message.group])
    /\ message.type = "NewDeviceGroup" =>
          Len(message.log) = 1 /\ m \in Founders(message.group) /\ stored[message.group] = NoGroup
    /\ message.type = "AddToGroup" =>
          /\ Len(message.log) >= 2 /\ m \in GroupMembers(Front(message.log))
          /\ Last(message.log).new \cap GroupMembers(Front(message.log)) = {}
    /\ message.type = "GroupMessage" /\ message.group = "DeviceGroup" => m = Device

CreatesOnce(s) ==
    \A i, j \in 1 .. Len(s) :
        /\ s[i].type = "NewDeviceGroup" /\ s[j].type = "NewDeviceGroup"
        /\ s[i].group = s[j].group
        => i = j

OutInv ==
    \A m \in Members :
        (\A message \in Items(outbox[m]) : OutOk(m, message)) /\ CreatesOnce(outbox[m])

\* What the server holds for x: what it owes x and what it is about to store.
ForReceiver(s, x) == { a.message : a \in { b \in Items(s) : x \in b.receivers } }
Underway(x) == Items(owed[x]) \cup UNION { ForReceiver(handling[m], x) : m \in Members }

\* Members merge only what the server has merged before, and the agent is sent
\* neither welcomes nor contents.
ArrivesOk(x, message) ==
    /\ message.type # "NewDeviceGroup" /\ message.log # NoGroup
    /\ message.type = "Welcome" =>
          x # Device /\ x \in GroupMembers(message.log) /\ Begins(message.log, stored[message.group])
    /\ message.type = "AddToGroup" =>
          Len(message.log) >= 2 /\ (CheckCommit(message) => Begins(message.log, stored[message.group]))
    /\ message.type = "GroupMessage" => x # Device /\ message.by # x

ArriveInv == \A x \in Members : \A message \in Underway(x) : ArrivesOk(x, message)

\* Contents on their way.
Flying == { message \in UNION { Items(outbox[m]) \cup Underway(m) : m \in Members } :
              message.type = "GroupMessage" }

\* Of two messages of one sender, the one of a later epoch, or the later one of an
\* epoch, was sent later.
After(a, b) == Len(a.log) > Len(b.log) \/ (a.log = b.log /\ a.gen > b.gen)

\* Member r may still read it.
Ahead(r, message) ==
    \/ Len(message.log) > Len(group[r][message.group])
    \/ /\ message.log = group[r][message.group]
       /\ message.gen >= gen[r][message.group][message.by]

SentInOrder ==
    /\ \A message \in Flying :
          /\ message.content < operations
          /\ Len(message.log) <= Len(group[message.by][message.group])
          /\ message.log = group[message.by][message.group] =>
                message.gen < gen[message.by][message.group][message.by]
    /\ \A a, b \in Flying : a.by = b.by /\ a.group = b.group /\ After(a, b) => a.content > b.content

ReadBefore ==
    /\ \A r \in Members, g \in Groups : \A i \in 1 .. Len(read[r][g]) :
          read[r][g][i].content < operations
    /\ \A r \in Members : \A message \in Flying : Ahead(r, message) =>
          \A i \in 1 .. Len(read[r][message.group]) :
             read[r][message.group][i].by = message.by =>
                read[r][message.group][i].content < message.content

\* Entry j of member y's log is on its way to the server, entry j of the server's on
\* its way to y, and so is y's welcome.
Unsent(y, g, j) ==
    \E message \in Items(outbox[y]) :
        message.type # "GroupMessage" /\ message.group = g /\ Len(message.log) = j
Coming(y, g, j) ==
    \E message \in Underway(y) :
        message.type = "AddToGroup" /\ message.group = g /\ Len(message.log) = j
Welcomed(y, g) ==
    \E message \in Underway(y) : message.type = "Welcome" /\ message.group = g

\* As long as nothing was lost or refused, what y's log lacks is on its way to it, and
\* what it has beyond the server's log is on its way to the server.
SyncedFrom(y, g, b) ==
    /\ b <= Len(group[y][g]) /\ \A i \in 1 .. b : group[y][g][i] = stored[g][i]
    /\ \A j \in b + 1 .. Len(group[y][g]) : Unsent(y, g, j)
    /\ \A j \in b + 1 .. Len(stored[g]) :
          (\E i \in 1 .. j - 1 : y \in stored[g][i].new) => Coming(y, g, j)
    /\ group[y][g] = NoGroup /\ y \in GroupMembers(stored[g]) => Welcomed(y, g)

CleanInv ==
    clean => \A y \in Members, g \in Groups : \E b \in 0 .. Len(stored[g]) : SyncedFrom(y, g, b)

\* The inductive invariant.
GroupsInv ==
    /\ GroupTypes /\ LogInv /\ ServerInv /\ OutInv /\ ArriveInv
    /\ SentInOrder /\ ReadBefore /\ ReadInOrder /\ CleanInv

LEMMA ItemsAppend ==
    ASSUME NEW S, NEW s \in Seq(S), NEW e \in S
    PROVE  /\ Append(s, e) \in Seq(S) /\ Items(Append(s, e)) = Items(s) \cup {e}
           /\ Len(s) \in Nat /\ Len(Append(s, e)) = Len(s) + 1 /\ Append(s, e)[Len(s) + 1] = e
           /\ \A i \in 1 .. Len(s) : Append(s, e)[i] = s[i]
<1>1. /\ Append(s, e) \in Seq(S) /\ Len(s) \in Nat /\ Len(Append(s, e)) = Len(s) + 1
      /\ Append(s, e)[Len(s) + 1] = e /\ \A i \in 1 .. Len(s) : Append(s, e)[i] = s[i]
  BY AppendFacts
<1>2. PICK t : t = Append(s, e)
  OBVIOUS
<1>3. \A i : i \in 1 .. Len(t) <=> i \in 1 .. Len(s) \/ i = Len(s) + 1
  BY <1>1, <1>2
<1>4. Items(t) = Items(s) \cup {e}
  BY <1>1, <1>2, <1>3 DEF Items
<1> QED BY <1>1, <1>2, <1>4

LEMMA ItemsTail ==
    ASSUME NEW S, NEW s \in Seq(S), s # << >>
    PROVE  /\ Tail(s) \in Seq(S) /\ Head(s) \in S /\ Head(s) = s[1] /\ Len(s) \in Nat /\ Len(s) >= 1
           /\ Len(Tail(s)) = Len(s) - 1 /\ \A i \in 1 .. Len(s) - 1 : Tail(s)[i] = s[i + 1]
           /\ Items(s) = {Head(s)} \cup Items(Tail(s))
<1>1. /\ Tail(s) \in Seq(S) /\ Len(s) \in Nat /\ Len(s) >= 1 /\ Len(Tail(s)) = Len(s) - 1
      /\ \A i \in 1 .. Len(s) - 1 : Tail(s)[i] = s[i + 1]
  OBVIOUS
<1>2. Head(s) = s[1] /\ Head(s) \in S
  BY <1>1
<1>3. ASSUME NEW x \in Items(s) PROVE x \in {Head(s)} \cup Items(Tail(s))
  <2>1. PICK i \in 1 .. Len(s) : x = s[i]
    BY DEF Items
  <2>2. CASE i = 1
    BY <1>2, <2>1, <2>2
  <2>3. CASE i # 1
    <3>1. i - 1 \in 1 .. Len(s) - 1 /\ (i - 1) + 1 = i
      BY <1>1, <2>3
    <3>2. Tail(s)[i - 1] = x
      BY <1>1, <2>1, <3>1
    <3> QED BY <1>1, <3>1, <3>2 DEF Items
  <2> QED BY <2>2, <2>3
<1>4. ASSUME NEW x \in Items(Tail(s)) PROVE x \in Items(s)
  <2>1. PICK i \in 1 .. Len(s) - 1 : x = Tail(s)[i]
    BY <1>1 DEF Items
  <2>2. i + 1 \in 1 .. Len(s) /\ x = s[i + 1]
    BY <1>1, <2>1
  <2> QED BY <2>2 DEF Items
<1>5. Head(s) \in Items(s)
  BY <1>1, <1>2 DEF Items
<1>6. Items(s) = {Head(s)} \cup Items(Tail(s))
  BY <1>3, <1>4, <1>5
<1> QED BY <1>1, <1>2, <1>6

LEMMA PartFacts ==
    ASSUME NEW S, NEW s \in Seq(S), NEW m \in Nat, NEW n \in Nat, 1 <= m, m <= n + 1, n <= Len(s)
    PROVE  /\ SubSeq(s, m, n) \in Seq(S) /\ Len(SubSeq(s, m, n)) = n + 1 - m
           /\ \A i \in 1 .. n + 1 - m : SubSeq(s, m, n)[i] = s[m + i - 1]
<1>1. \A i \in m .. n : s[i] \in S
  BY ElementFacts
<1>2. /\ SubSeq(s, m, n) \in Seq(S)
      /\ Len(SubSeq(s, m, n)) = IF m <= n THEN n - m + 1 ELSE 0
      /\ \A i \in 1 .. n - m + 1 : SubSeq(s, m, n)[i] = s[m + i - 1]
  BY <1>1, SubSeqProperties
<1> QED BY <1>2

LEMMA ItemsRemove ==
    ASSUME NEW S, NEW s \in Seq(S), NEW k \in 1 .. Len(s)
    PROVE  /\ RemoveAt(s, k) \in Seq(S) /\ Items(RemoveAt(s, k)) \subseteq Items(s)
           /\ Items(s) \subseteq Items(RemoveAt(s, k)) \cup {s[k]}
<1>1. Len(s) \in Nat /\ k \in Nat /\ 1 <= k /\ k <= Len(s)
  OBVIOUS
<1>2. PICK a, b : a = SubSeq(s, 1, k - 1) /\ b = SubSeq(s, k + 1, Len(s))
  OBVIOUS
<1>3. a \in Seq(S) /\ Len(a) = k - 1 /\ \A i \in 1 .. k - 1 : a[i] = s[i]
  <2>1. k - 1 \in Nat /\ k - 1 <= Len(s) /\ 1 <= (k - 1) + 1 /\ (k - 1) + 1 - 1 = k - 1
        /\ \A i \in 1 .. k - 1 : 1 + i - 1 = i
    BY <1>1
  <2> QED BY <1>1, <1>2, <2>1, PartFacts
<1>4. b \in Seq(S) /\ Len(b) = Len(s) - k /\ \A i \in 1 .. Len(s) - k : b[i] = s[i + k]
  <2>1. k + 1 \in Nat /\ 1 <= k + 1 /\ k + 1 <= Len(s) + 1 /\ Len(s) + 1 - (k + 1) = Len(s) - k
        /\ \A i \in 1 .. Len(s) - k : (k + 1) + i - 1 = i + k
    BY <1>1
  <2> QED BY <1>1, <1>2, <2>1, PartFacts
<1>5. PICK t : t = a \o b
  OBVIOUS
<1>6. t = RemoveAt(s, k)
  BY <1>2, <1>5 DEF RemoveAt
<1>7. t \in Seq(S) /\ Len(t) = Len(a) + Len(b)
  BY <1>3, <1>4, <1>5, ConcatFacts
<1>8. Len(t) = Len(s) - 1
  BY <1>1, <1>3, <1>4, <1>7
<1>9. \A i \in 1 .. k - 1 : t[i] = s[i]
  <2>1. \A i \in 1 .. Len(a) : (a \o b)[i] = a[i]
    BY <1>3, <1>4
  <2> QED BY <1>3, <1>5, <2>1
<1>10. \A i \in k .. Len(s) - 1 : t[i] = s[i + 1]
  <2>1. \A i \in 1 .. Len(b) : (a \o b)[i + Len(a)] = b[i]
    BY <1>3, <1>4
  <2> SUFFICES ASSUME NEW i \in k .. Len(s) - 1 PROVE t[i] = s[i + 1]
    OBVIOUS
  <2>2. PICK j : j = i - (k - 1)
    OBVIOUS
  <2>3. j \in 1 .. Len(s) - k /\ j + (k - 1) = i /\ j + k = i + 1
    BY <1>1, <2>2
  <2> QED BY <1>3, <1>4, <1>5, <2>1, <2>3
<1>11. \A i \in 1 .. Len(t) : i \in 1 .. k - 1 \/ i \in k .. Len(s) - 1
  BY <1>1, <1>8
<1>12. ASSUME NEW x \in Items(t) PROVE x \in Items(s)
  <2>1. PICK i \in 1 .. Len(t) : x = t[i]
    BY DEF Items
  <2>2. CASE i \in 1 .. k - 1
    <3>1. i \in 1 .. Len(s) /\ x = s[i]
      BY <1>1, <1>9, <2>1, <2>2
    <3> QED BY <3>1 DEF Items
  <2>3. CASE i \in k .. Len(s) - 1
    <3>1. i + 1 \in 1 .. Len(s) /\ x = s[i + 1]
      BY <1>1, <1>10, <2>1, <2>3
    <3> QED BY <3>1 DEF Items
  <2> QED BY <1>11, <2>2, <2>3
<1>13. ASSUME NEW x \in Items(s), x # s[k] PROVE x \in Items(t)
  <2>1. PICK i \in 1 .. Len(s) : x = s[i]
    BY DEF Items
  <2>2. i # k
    BY <1>13, <2>1
  <2>3. CASE i < k
    <3>1. i \in 1 .. k - 1 /\ i \in 1 .. Len(t)
      BY <1>1, <1>8, <2>3
    <3> QED BY <1>9, <2>1, <3>1 DEF Items
  <2>4. CASE i > k
    <3>1. i - 1 \in k .. Len(s) - 1 /\ i - 1 \in 1 .. Len(t) /\ (i - 1) + 1 = i
      BY <1>1, <1>8, <2>4
    <3>2. t[i - 1] = x
      BY <1>10, <2>1, <3>1
    <3> QED BY <3>1, <3>2 DEF Items
  <2> QED BY <1>1, <2>2, <2>3, <2>4
<1> QED BY <1>6, <1>7, <1>12, <1>13

LEMMA ItemsAre ==
    ASSUME NEW S, NEW s \in Seq(S)
    PROVE  /\ Items(s) \subseteq S /\ (s = << >> <=> Items(s) = {})
           /\ \A i \in 1 .. Len(s) : s[i] \in Items(s)
<1>1. Items(s) \subseteq S
  BY ElementFacts DEF Items
<1>2. s # << >> => s[1] \in Items(s)
  BY DEF Items
<1>3. s = << >> => Items(s) = {}
  BY DEF Items
<1> QED BY <1>1, <1>2, <1>3 DEF Items

\* Logs.
LEMMA LogFacts ==
    ASSUME NEW l \in Logs
    PROVE  /\ Len(l) \in Nat /\ (l # NoGroup <=> Len(l) >= 1) /\ (l = NoGroup <=> Len(l) = 0)
           /\ \A i \in 1 .. Len(l) : l[i] \in Entries
           /\ \A x : x \in GroupMembers(l) <=> \E i \in 1 .. Len(l) : x \in l[i].new
<1>1. Len(l) \in Nat /\ (l # << >> <=> Len(l) >= 1) /\ (l = << >> <=> Len(l) = 0)
  BY DEF Logs
<1>2. \A i \in 1 .. Len(l) : l[i] \in Entries
  BY ElementFacts DEF Logs
<1>3. DOMAIN l = 1 .. Len(l)
  BY DEF Logs
<1>4. \A x : x \in GroupMembers(l) <=> \E i \in 1 .. Len(l) : x \in l[i].new
  BY <1>3 DEF GroupMembers
<1> QED BY <1>1, <1>2, <1>4 DEF NoGroup

LEMMA FrontFacts ==
    ASSUME NEW l \in Logs, Len(l) >= 1
    PROVE  /\ Front(l) \in Logs /\ Len(Front(l)) = Len(l) - 1 /\ Len(l) \in Nat
           /\ \A i \in 1 .. Len(l) - 1 : Front(l)[i] = l[i]
           /\ Last(l) = l[Len(l)] /\ Last(l) \in Entries
<1>1. Len(l) \in Nat /\ Len(l) \in 1 .. Len(l)
  BY DEF Logs
<1>2. SubSeq(l, 1, Len(l) - 1) \in Seq(Entries) /\ Len(SubSeq(l, 1, Len(l) - 1)) = Len(l) - 1
      /\ \A i \in 1 .. Len(l) - 1 : SubSeq(l, 1, Len(l) - 1)[i] = l[i]
  <2>1. Len(l) - 1 \in Nat /\ 1 <= (Len(l) - 1) + 1 /\ Len(l) - 1 <= Len(l)
        /\ (Len(l) - 1) + 1 - 1 = Len(l) - 1 /\ \A i \in 1 .. Len(l) - 1 : 1 + i - 1 = i
    BY <1>1
  <2> QED BY <1>1, <2>1, PartFacts DEF Logs
<1>3. l[Len(l)] \in Entries
  BY <1>1, LogFacts
<1> QED BY <1>1, <1>2, <1>3 DEF Front, Last, Logs

LEMMA EqualLogs ==
    ASSUME NEW a \in Logs, NEW b \in Logs, Len(a) = Len(b), \A i \in 1 .. Len(a) : a[i] = b[i]
    PROVE  a = b
BY DEF Logs

\* What is under way to x.
LEMMA ForReceiverAre ==
    ASSUME NEW s, NEW x, NEW message
    PROVE  message \in ForReceiver(s, x) <=>
             \E a \in Items(s) : x \in a.receivers /\ message = a.message
<1>1. PICK S : S = Items(s)
  OBVIOUS
<1>2. message \in { a.message : a \in { b \in S : x \in b.receivers } } <=>
        \E a \in S : x \in a.receivers /\ message = a.message
  OBVIOUS
<1> QED BY <1>1, <1>2 DEF ForReceiver

LEMMA UnderwayAre ==
    ASSUME NEW x \in Members, NEW message
    PROVE  message \in Underway(x) <=>
             \/ message \in Items(owed[x])
             \/ \E m \in Members : \E a \in Items(handling[m]) :
                   x \in a.receivers /\ message = a.message
<1>1. message \in Underway(x) <=>
        message \in Items(owed[x]) \/ \E m \in Members : message \in ForReceiver(handling[m], x)
  BY DEF Underway
<1>2. \A m \in Members : message \in ForReceiver(handling[m], x) <=>
        \E a \in Items(handling[m]) : x \in a.receivers /\ message = a.message
  BY ForReceiverAre
<1> QED BY <1>1, <1>2, Zenon

LEMMA UnderwayNow ==
    ASSUME NEW x \in Members, NEW message
    PROVE  message \in Underway(x)' <=>
             \/ message \in Items(owed'[x])
             \/ \E m \in Members : \E a \in Items(handling'[m]) :
                   x \in a.receivers /\ message = a.message
<1>1. Underway(x)' = Items(owed'[x]) \cup UNION { ForReceiver(handling'[m], x) : m \in Members }
  BY DEF Underway, Items, ForReceiver
<1>2. message \in Underway(x)' <=>
        message \in Items(owed'[x]) \/ \E m \in Members : message \in ForReceiver(handling'[m], x)
  BY <1>1
<1>3. \A m \in Members : message \in ForReceiver(handling'[m], x) <=>
        \E a \in Items(handling'[m]) : x \in a.receivers /\ message = a.message
  BY ForReceiverAre
<1> QED BY <1>2, <1>3, Zenon

LEMMA UnderwayTypes ==
    ASSUME GroupsInv, NEW x \in Members
    PROVE  Underway(x) \subseteq Posts /\ \A message \in Underway(x) : ArrivesOk(x, message)
<1>1. owed[x] \in Seq(Posts) /\ Items(owed[x]) \subseteq Posts
  BY ItemsAre DEF GroupsInv, GroupTypes
<1>2. \A m \in Members : handling[m] \in Seq(Answers) /\ Items(handling[m]) \subseteq Answers
  BY ItemsAre DEF GroupsInv, GroupTypes
<1>3. \A a \in Answers : a.message \in Posts
  BY DEF Answers
<1> QED BY <1>1, <1>2, <1>3, UnderwayAre DEF GroupsInv, ArriveInv

\* The fields of a message.
LEMMA PostFacts ==
    ASSUME NEW message \in Posts
    PROVE  /\ message.type \in {"NewDeviceGroup", "AddToGroup", "GroupMessage", "Welcome"}
           /\ message.group \in Groups /\ message.log \in Logs
           /\ message.type # "Welcome" => message.by \in Members
           /\ message.type = "GroupMessage" => message.gen \in Nat /\ message.content \in Nat
<1>1. PICK L : L = Logs
  OBVIOUS
<1>2. \/ message \in [type : {"NewDeviceGroup", "AddToGroup"}, group : Groups, by : Members, log : L]
      \/ message \in [type : {"GroupMessage"}, group : Groups, by : Members, log : L,
                      gen : Nat, content : Nat]
      \/ message \in [type : {"Welcome"}, group : Groups, log : L]
  BY <1>1 DEF Posts, Commits, Contents, Welcomes
<1> QED BY <1>1, <1>2

\* A member's log and the server's.
LEMMA GroupFacts ==
    ASSUME GroupsInv, NEW m \in Members, NEW g \in Groups
    PROVE  /\ group[m][g] \in Logs /\ stored[g] \in Logs /\ cached[g] \in Logs
           /\ Len(group[m][g]) \in Nat /\ Len(stored[g]) \in Nat
           /\ gen[m][g] \in [Members -> Nat] /\ read[m][g] \in Seq(Readings)
           /\ outbox[m] \in Seq(Posts) /\ owed[m] \in Seq(Posts) /\ handling[m] \in Seq(Answers)
           /\ Born(group[m][g], g) /\ AddsOthers(group[m][g])
           /\ group[m][g] # NoGroup => m \in GroupMembers(group[m][g])
           /\ \E k \in 0 .. Len(stored[g]) : OwnAfter(m, g, k)
           /\ Born(stored[g], g) /\ AddsOthers(stored[g])
           /\ cached[g] # NoGroup => cached[g] = stored[g]
           /\ ServerGroup(g) = stored[g]
<1>1. /\ group[m][g] \in Logs /\ stored[g] \in Logs /\ cached[g] \in Logs
      /\ gen[m][g] \in [Members -> Nat] /\ read[m][g] \in Seq(Readings)
      /\ outbox[m] \in Seq(Posts) /\ owed[m] \in Seq(Posts) /\ handling[m] \in Seq(Answers)
  BY DEF GroupsInv, GroupTypes
<1>2. Len(group[m][g]) \in Nat /\ Len(stored[g]) \in Nat
  BY <1>1, LogFacts
<1>3. /\ Born(group[m][g], g) /\ AddsOthers(group[m][g])
      /\ group[m][g] # NoGroup => m \in GroupMembers(group[m][g])
      /\ \E k \in 0 .. Len(stored[g]) : OwnAfter(m, g, k)
      /\ Born(stored[g], g) /\ AddsOthers(stored[g])
      /\ cached[g] # NoGroup => cached[g] = stored[g]
  BY Zenon DEF GroupsInv, LogInv, ServerInv
<1> QED BY <1>1, <1>2, <1>3 DEF ServerGroup

LEMMA FounderFacts ==
    ASSUME NEW g \in Groups
    PROVE  Founders(g) \subseteq Members /\ \A c, d \in Founders(g) : c = d
BY GroupsAssumption DEF Founders

-----------------------------------------------------------------------------
\* What the steps have in common.

\* One log grows, or none does.
Grows(m, g) ==
    \/ group'[m][g] = group[m][g] /\ gen'[m][g] = gen[m][g]
    \/ Len(group[m][g]) < Len(group'[m][g]) /\ Begins(group[m][g], group'[m][g])

NewTypes ==
    group' \in [Members -> [Groups -> Logs]] /\ gen' \in [Members -> [Groups -> [Members -> Nat]]]

LEMMA BornStays ==
    ASSUME GroupsInv, NewTypes, \A m \in Members, g \in Groups : Grows(m, g),
           NEW l, NEW h \in Groups, Born(l, h)
    PROVE  Born(l, h)'
<1> SUFFICES ASSUME l # NoGroup
             PROVE  \E c \in Founders(h) : /\ group'[c][h] # NoGroup /\ l[1] = group'[c][h][1]
                                           /\ l[1].by = c /\ c \in l[1].new
  BY Zenon DEF Born
<1>1. PICK c \in Founders(h) : /\ group[c][h] # NoGroup /\ l[1] = group[c][h][1]
                               /\ l[1].by = c /\ c \in l[1].new
  BY Zenon DEF Born
<1>2. c \in Members
  BY FounderFacts
<1>3. group[c][h] \in Logs /\ group'[c][h] \in Logs /\ Len(group[c][h]) >= 1
  BY <1>1, <1>2, GroupFacts, LogFacts DEF NewTypes
<1>4. Len(group'[c][h]) \in Nat /\ Len(group[c][h]) \in Nat
  BY <1>3, LogFacts
<1>5. Len(group'[c][h]) >= 1 /\ group'[c][h][1] = group[c][h][1]
  BY <1>2, <1>3, <1>4 DEF Grows, Begins
<1>6. group'[c][h] # NoGroup
  BY <1>3, <1>5, LogFacts
<1> QED BY <1>1, <1>5, <1>6

\* Contents that are on their way stay in order as logs grow.
LEMMA ContentStays ==
    ASSUME GroupsInv, NewTypes, \A m \in Members, g \in Groups : Grows(m, g),
           Flying' \subseteq Flying, Flying \subseteq Posts, UNCHANGED read,
           operations' \in Nat, operations <= operations'
    PROVE  SentInOrder' /\ ReadBefore' /\ ReadInOrder'
<1>1. ASSUME NEW message \in Flying
      PROVE  /\ message.type = "GroupMessage" /\ message.by \in Members /\ message.group \in Groups
             /\ message.log \in Logs /\ Len(message.log) \in Nat /\ message.gen \in Nat
             /\ message.content \in Nat
  <2>1. message \in Posts /\ message.type = "GroupMessage"
    BY DEF Flying
  <2> QED BY <2>1, PostFacts, LogFacts
<1>2. operations \in Nat
  BY DEF GroupsInv, GroupTypes
<1>3. ASSUME NEW message \in Flying'
      PROVE  /\ message.content < operations'
             /\ Len(message.log) <= Len(group'[message.by][message.group])
             /\ message.log = group'[message.by][message.group] =>
                   message.gen < gen'[message.by][message.group][message.by]
  <2>1. message \in Flying
    OBVIOUS
  <2>2. PICK s \in Members, g \in Groups : s = message.by /\ g = message.group
    BY <1>1, <2>1
  <2>3. /\ message.content < operations /\ Len(message.log) <= Len(group[s][g])
        /\ message.log = group[s][g] => message.gen < gen[s][g][s]
    BY <2>1, <2>2 DEF GroupsInv, SentInOrder
  <2>4. Len(group[s][g]) \in Nat /\ Len(group'[s][g]) \in Nat
    BY GroupFacts, LogFacts DEF NewTypes
  <2>5. Grows(s, g)
    OBVIOUS
  <2>6. CASE group'[s][g] = group[s][g] /\ gen'[s][g] = gen[s][g]
    BY <1>1, <1>2, <2>1, <2>2, <2>3, <2>6
  <2>7. CASE Len(group[s][g]) < Len(group'[s][g])
    <3>1. PICK a \in Nat, b \in Nat, c \in Nat :
            a = Len(message.log) /\ b = Len(group[s][g]) /\ c = Len(group'[s][g])
      BY <1>1, <2>1, <2>4
    <3>2. a <= b /\ b < c
      BY <2>3, <2>7, <3>1
    <3>3. a <= c /\ a # c
      BY <3>2
    <3>4. Len(message.log) <= Len(group'[s][g]) /\ message.log # group'[s][g]
      BY <3>1, <3>3
    <3>5. PICK d \in Nat : d = message.content
      BY <1>1, <2>1
    <3>6. d < operations'
      BY <1>2, <2>3, <3>5
    <3> QED BY <2>2, <3>4, <3>5, <3>6
  <2> QED BY <2>5, <2>6, <2>7 DEF Grows
<1>4. \A a, b \in Flying' : a.by = b.by /\ a.group = b.group /\ After(a, b) => a.content > b.content
  BY DEF GroupsInv, SentInOrder
<1>5. SentInOrder'
  <2>1. \A a, b : After(a, b)' <=> After(a, b)
    BY DEF After
  <2> QED BY <1>3, <1>4, <2>1, Zenon DEF SentInOrder
<1>6. ASSUME NEW r \in Members, NEW message \in Flying', Ahead(r, message)'
      PROVE  Ahead(r, message)
  <2>1. message \in Flying
    OBVIOUS
  <2>2. PICK s \in Members, g \in Groups : s = message.by /\ g = message.group
    BY <1>1, <2>1
  <2>3. Len(group[r][g]) \in Nat /\ Len(group'[r][g]) \in Nat /\ Len(message.log) \in Nat
    BY <1>1, <2>1, GroupFacts, LogFacts DEF NewTypes
  <2>4. \/ Len(message.log) > Len(group'[r][g])
        \/ message.log = group'[r][g] /\ message.gen >= gen'[r][g][s]
    BY <1>6, <2>2 DEF Ahead
  <2>5. Grows(r, g)
    OBVIOUS
  <2>6. CASE group'[r][g] = group[r][g] /\ gen'[r][g] = gen[r][g]
    BY <2>2, <2>4, <2>6 DEF Ahead
  <2>7. CASE Len(group[r][g]) < Len(group'[r][g])
    <3>1. Len(message.log) > Len(group[r][g])
      <4>1. PICK a \in Nat, b \in Nat, c \in Nat :
              a = Len(message.log) /\ b = Len(group[r][g]) /\ c = Len(group'[r][g])
        BY <2>3
      <4>2. (a > c \/ a = c) /\ b < c
        BY <2>4, <2>7, <4>1
      <4>3. a > b
        BY <4>2
      <4> QED BY <4>1, <4>3
    <3> QED BY <2>2, <3>1 DEF Ahead
  <2> QED BY <2>5, <2>6, <2>7 DEF Grows
<1>7. ReadBefore'
  <2>1. ASSUME NEW r \in Members, NEW g \in Groups, NEW i \in 1 .. Len(read[r][g])
        PROVE  read[r][g][i].content < operations'
    <3>1. read[r][g][i].content < operations
      BY DEF GroupsInv, ReadBefore
    <3>2. read[r][g][i] \in Readings
      BY GroupFacts, ElementFacts
    <3>3. read[r][g][i].content \in Nat
      BY <3>2 DEF Readings
    <3>4. PICK a \in Nat, b \in Nat, c \in Nat :
            a = read[r][g][i].content /\ b = operations /\ c = operations'
      BY <1>2, <3>3
    <3>5. a < b /\ b <= c
      BY <3>1, <3>4
    <3>6. a < c
      BY <3>5
    <3> QED BY <3>4, <3>6
  <2>2. ASSUME NEW r \in Members, NEW message \in Flying', Ahead(r, message)',
               NEW i \in 1 .. Len(read[r][message.group]),
               read[r][message.group][i].by = message.by
        PROVE  read[r][message.group][i].content < message.content
    BY <1>6, <2>2 DEF GroupsInv, ReadBefore
  <2> QED BY <2>1, <2>2, Zenon DEF ReadBefore
<1>8. ReadInOrder'
  BY DEF GroupsInv, ReadInOrder
<1> QED BY <1>5, <1>7, <1>8

\* Nothing happens to y's share of group g.
LEMMA SyncedStays ==
    ASSUME NEW y \in Members, NEW g \in Groups, NEW b, SyncedFrom(y, g, b),
           group'[y][g] = group[y][g], stored'[g] = stored[g],
           \A message \in Items(outbox[y]) :
               message.type # "GroupMessage" /\ message.group = g => message \in Items(outbox'[y]),
           \A message \in Underway(y) :
               message.type # "GroupMessage" /\ message.group = g => message \in Underway(y)'
    PROVE  SyncedFrom(y, g, b)'
<1>1. \A j : Unsent(y, g, j) => Unsent(y, g, j)'
  BY Zenon DEF Unsent, Items
<1>2. \A j : Coming(y, g, j) => Coming(y, g, j)'
  BY DEF Coming
<1>3. Welcomed(y, g) => Welcomed(y, g)'
  BY DEF Welcomed
<1> QED BY <1>1, <1>2, <1>3 DEF SyncedFrom

LEMMA BeginsFacts ==
    ASSUME NEW a \in Logs, NEW b \in Logs, NEW c \in Logs, Begins(a, b), Begins(b, c)
    PROVE  Begins(a, c)
<1>1. Len(a) \in Nat /\ Len(b) \in Nat /\ Len(c) \in Nat
  BY LogFacts
<1>2. Len(a) <= Len(b) /\ Len(b) <= Len(c)
  BY DEF Begins
<1>3. \A i \in 1 .. Len(a) : i \in 1 .. Len(b)
  BY <1>1, <1>2
<1> QED BY <1>1, <1>2, <1>3 DEF Begins

LEMMA OutStays ==
    ASSUME GroupsInv, NewTypes, \A k \in Members, h \in Groups : Grows(k, h),
           NEW m \in Members, NEW message \in Posts, OutOk(m, message),
           message.type = "NewDeviceGroup" => stored'[message.group] = NoGroup
    PROVE  OutOk(m, message)'
<1>1. message.group \in Groups /\ message.log \in Logs
  BY PostFacts
<1>2. group[m][message.group] \in Logs /\ group'[m][message.group] \in Logs
  BY <1>1, GroupFacts DEF NewTypes
<1>3. group[m][message.group] = group'[m][message.group]
      \/ Begins(group[m][message.group], group'[m][message.group])
  BY <1>1 DEF Grows
<1>4. message.type # "GroupMessage" => Begins(message.log, group'[m][message.group])
  BY <1>1, <1>2, <1>3, BeginsFacts DEF OutOk
<1> QED BY <1>4 DEF OutOk

\* The same of a log l of m and a log s of the server.
OwnFrom(l, m, s) ==
    \E k \in 0 .. Len(s) : /\ k <= Len(l) /\ \A i \in 1 .. k : l[i] = s[i]
                           /\ \A i \in k + 1 .. Len(l) : l[i].by = m

\* The log of m grows by an entry that m has not got from the server yet or that is
\* the server's.
LEMMA LogGrows ==
    ASSUME GroupsInv, NEW m \in Members, NEW g \in Groups, NEW l \in Logs, NewEpoch(m, g, l),
           Len(group[m][g]) < Len(l), Begins(group[m][g], l), Born(l, g)', AddsOthers(l),
           m \in GroupMembers(l), UNCHANGED <<stored, cached>>, OwnFrom(l, m, stored[g])
    PROVE  /\ NewTypes /\ \A k \in Members, h \in Groups : Grows(k, h)
           /\ LogInv' /\ ServerInv' /\ group'[m][g] = l
           /\ \A k \in Members, h \in Groups : k # m \/ h # g => group'[k][h] = group[k][h]
<1>1. FreshGen \in [Members -> Nat]
  BY DEF FreshGen
<1>2. group \in [Members -> [Groups -> Logs]] /\ gen \in [Members -> [Groups -> [Members -> Nat]]]
  BY DEF GroupsInv, GroupTypes
<1>3. NewTypes
  BY <1>1, <1>2 DEF NewEpoch, NewTypes
<1>4. /\ group'[m][g] = l
      /\ \A k \in Members, h \in Groups : k # m \/ h # g =>
            group'[k][h] = group[k][h] /\ gen'[k][h] = gen[k][h]
  <2>1. group'[m][g] = l /\ (\A h \in Groups : h # g => group'[m][h] = group[m][h])
        /\ \A k \in Members : k # m => group'[k] = group[k]
    BY <1>2 DEF NewEpoch
  <2>2. (\A h \in Groups : h # g => gen'[m][h] = gen[m][h])
        /\ \A k \in Members : k # m => gen'[k] = gen[k]
    BY <1>2 DEF NewEpoch
  <2> QED BY <2>1, <2>2
<1>5. \A k \in Members, h \in Groups : Grows(k, h)
  BY <1>4 DEF Grows
<1>6. ASSUME NEW k \in Members, NEW h \in Groups
      PROVE  /\ Born(group[k][h], h)' /\ AddsOthers(group'[k][h])
             /\ group'[k][h] # NoGroup => k \in GroupMembers(group'[k][h])
             /\ \E j \in 0 .. Len(stored[h]) : OwnAfter(k, h, j)'
  <2>1. CASE k = m /\ h = g
    <3>1. PICK j \in 0 .. Len(stored[g]) :
            /\ j <= Len(l) /\ \A i \in 1 .. j : l[i] = stored[g][i]
            /\ \A i \in j + 1 .. Len(l) : l[i].by = m
      BY DEF OwnFrom
    <3>2. OwnAfter(m, g, j)'
      BY <1>4, <3>1 DEF OwnAfter
    <3>3. Born(group[m][g], g)'
      BY <1>4 DEF Born
    <3> QED BY <1>4, <2>1, <3>2, <3>3
  <2>2. CASE k # m \/ h # g
    <3>1. group'[k][h] = group[k][h]
      BY <1>4, <2>2
    <3>2. PICK j \in 0 .. Len(stored[h]) : OwnAfter(k, h, j)
      BY GroupFacts
    <3>3. OwnAfter(k, h, j)'
      BY <3>1, <3>2 DEF OwnAfter
    <3>4. Born(group[k][h], h)'
      <4>1. PICK w : w = group[k][h]
        OBVIOUS
      <4>2. Born(w, h)
        BY <4>1, GroupFacts
      <4>3. Born(w, h)'
        BY <1>3, <1>5, <4>2, BornStays
      <4> QED BY <3>1, <4>1, <4>3 DEF Born
    <3> QED BY <3>1, <3>3, <3>4, GroupFacts
  <2> QED BY <2>1, <2>2
<1>7. LogInv'
  <2>1. \A k \in Members, h \in Groups : AddsOthers(group[k][h])' <=> AddsOthers(group'[k][h])
    BY DEF AddsOthers
  <2>2. \A k \in Members, h \in Groups : GroupMembers(group[k][h])' = GroupMembers(group'[k][h])
    BY DEF GroupMembers
  <2> QED BY <1>6, <2>1, <2>2, Zenon DEF LogInv
<1>8. ServerInv'
  <2>1. ASSUME NEW h \in Groups PROVE Born(stored[h], h)'
    <3>1. PICK w : w = stored[h]
      OBVIOUS
    <3>2. Born(w, h)
      BY <3>1 DEF GroupsInv, ServerInv
    <3>3. Born(w, h)'
      BY <1>3, <1>5, <3>2, BornStays
    <3> QED BY <3>1, <3>3 DEF Born
  <2> QED BY <2>1 DEF GroupsInv, ServerInv, AddsOthers, GroupMembers
<1> QED BY <1>3, <1>4, <1>5, <1>7, <1>8

LEMMA FlyingAre ==
    ASSUME NEW message
    PROVE  /\ message \in Flying <=>
                message.type = "GroupMessage"
                /\ \E m \in Members : message \in Items(outbox[m]) \/ message \in Underway(m)
           /\ message \in Flying' <=>
                message.type = "GroupMessage"
                /\ \E m \in Members : message \in Items(outbox'[m]) \/ message \in Underway(m)'
<1>1. \A x : x \in UNION { Items(outbox[m]) \cup Underway(m) : m \in Members } <=>
               \E m \in Members : x \in Items(outbox[m]) \/ x \in Underway(m)
  OBVIOUS
<1>2. \A x : x \in UNION { Items(outbox'[m]) \cup Underway(m)' : m \in Members } <=>
               \E m \in Members : x \in Items(outbox'[m]) \/ x \in Underway(m)'
  OBVIOUS
<1>3. Flying' = { w \in UNION { Items(outbox'[m]) \cup Underway(m)' : m \in Members } :
                    w.type = "GroupMessage" }
  BY DEF Flying, Items
<1> QED BY <1>1, <1>2, <1>3, Zenon DEF Flying

LEMMA FlyingTypes ==
    ASSUME GroupsInv
    PROVE  /\ Flying \subseteq Posts /\ \A m \in Members : Items(outbox[m]) \subseteq Posts
           /\ \A message \in Flying :
                 /\ message.by \in Members /\ message.group \in Groups /\ message.log \in Logs
                 /\ Len(message.log) \in Nat /\ message.gen \in Nat /\ message.content \in Nat
                 /\ message.type = "GroupMessage"
<1>1. \A m \in Members : Items(outbox[m]) \subseteq Posts
  BY ItemsAre DEF GroupsInv, GroupTypes
<1>2. \A message \in Flying : message \in Posts /\ message.type = "GroupMessage"
  BY <1>1, FlyingAre, UnderwayTypes
<1>3. ASSUME NEW message \in Flying
      PROVE  /\ message.by \in Members /\ message.group \in Groups /\ message.log \in Logs
             /\ Len(message.log) \in Nat /\ message.gen \in Nat /\ message.content \in Nat
  BY <1>2, PostFacts, LogFacts
<1> QED BY <1>1, <1>2, <1>3

\* What the server holds is not touched.
LEMMA UnderwaySame ==
    ASSUME UNCHANGED <<owed, handling>>
    PROVE  \A x \in Members : Underway(x)' = Underway(x)
BY DEF Underway

LEMMA ArriveSame ==
    ASSUME GroupsInv, UNCHANGED stored, \A x \in Members : Underway(x)' \subseteq Underway(x)
    PROVE  ArriveInv'
<1>1. \A x, w : ArrivesOk(x, w) => ArrivesOk(x, w)'
  BY DEF ArrivesOk, Begins, GroupMembers, CheckCommit, Last, MayEdit, MayBeAdded
<1> QED BY <1>1 DEF GroupsInv, ArriveInv

\* m tells the server about the entry its log has grown by.
LEMMA CommitSent ==
    ASSUME GroupsInv, NEW m \in Members, NEW g \in Groups, NEW l \in Logs, NEW w \in Posts,
           NewEpoch(m, g, l), Send(m, w), w.group = g, w.log = l, w.type # "GroupMessage",
           Len(l) = Len(group[m][g]) + 1, Begins(group[m][g], l), Born(l, g)', AddsOthers(l),
           m \in GroupMembers(l), l[Len(l)].by = m, OutOk(m, w)',
           w.type = "NewDeviceGroup" =>
               \A message \in Items(outbox[m]) :
                   message.type = "NewDeviceGroup" => message.group # g,
           operations' = operations + 1,
           UNCHANGED <<handling, stored, cached, owed, tried, read, clean>>
    PROVE  GroupsInv'
<1>1. group[m][g] \in Logs /\ Len(l) \in Nat /\ Len(group[m][g]) \in Nat /\ Len(stored[g]) \in Nat
  BY GroupFacts, LogFacts
<1>2. OwnFrom(l, m, stored[g])
  <2>1. PICK k \in 0 .. Len(stored[g]) : OwnAfter(m, g, k)
    BY GroupFacts
  <2>2. k <= Len(group[m][g]) /\ k <= Len(l) /\ k \in Nat
    BY <1>1, <2>1 DEF OwnAfter
  <2>3. \A i \in 1 .. k : i \in 1 .. Len(group[m][g])
    BY <1>1, <2>2
  <2>4. \A i \in 1 .. k : l[i] = stored[g][i]
    BY <2>1, <2>3 DEF OwnAfter, Begins
  <2>5. ASSUME NEW i \in k + 1 .. Len(l) PROVE l[i].by = m
    <3>1. CASE i = Len(l)
      BY <3>1
    <3>2. CASE i # Len(l)
      <4>1. i \in k + 1 .. Len(group[m][g]) /\ i \in 1 .. Len(group[m][g])
        <5>1. PICK a \in Nat, b \in Nat : a = Len(l) /\ b = Len(group[m][g]) /\ a = b + 1
          BY <1>1
        <5>2. i \in k + 1 .. b /\ i \in 1 .. b
          BY <2>2, <3>2, <5>1
        <5> QED BY <5>1, <5>2
      <4> QED BY <2>1, <4>1 DEF OwnAfter, Begins
    <3> QED BY <3>1, <3>2
  <2> QED BY <2>2, <2>4, <2>5 DEF OwnFrom
<1>3. /\ NewTypes /\ (\A k \in Members, h \in Groups : Grows(k, h))
      /\ LogInv' /\ ServerInv' /\ group'[m][g] = l
      /\ \A k \in Members, h \in Groups : k # m \/ h # g => group'[k][h] = group[k][h]
  <2>1. Len(group[m][g]) < Len(l) /\ UNCHANGED <<stored, cached>>
    BY <1>1
  <2> QED BY <1>2, <2>1, LogGrows
<1>4. outbox \in [Members -> Seq(Posts)] /\ operations \in Nat
  BY DEF GroupsInv, GroupTypes
<1>5. /\ outbox' \in [Members -> Seq(Posts)] /\ outbox'[m] = Append(outbox[m], w)
      /\ \A k \in Members : k # m => outbox'[k] = outbox[k]
  <2>1. Append(outbox[m], w) \in Seq(Posts)
    BY <1>4, ItemsAppend
  <2> QED BY <1>4, <2>1 DEF Send
<1>6. Items(outbox'[m]) = Items(outbox[m]) \cup {w}
  BY <1>4, <1>5, ItemsAppend
<1>7. GroupTypes'
  BY <1>3, <1>4, <1>5 DEF GroupsInv, GroupTypes, NewTypes
<1>8. OutInv'
  <2>1. ASSUME NEW k \in Members, NEW message \in Items(outbox[k]) PROVE OutOk(k, message)'
    <3>1. message \in Posts /\ OutOk(k, message)
      BY FlyingTypes DEF GroupsInv, OutInv
    <3>2. message.type = "NewDeviceGroup" => stored'[message.group] = NoGroup
      BY <3>1 DEF OutOk
    <3> QED BY <1>3, <3>1, <3>2, OutStays
  <2>2. ASSUME NEW k \in Members, NEW message \in Items(outbox'[k]) PROVE OutOk(k, message)'
    BY <1>5, <1>6, <2>1
  <2>3. ASSUME NEW k \in Members PROVE CreatesOnce(outbox'[k])
    <3>1. CreatesOnce(outbox[k])
      BY DEF GroupsInv, OutInv
    <3>2. CASE k # m
      BY <1>5, <3>1, <3>2
    <3>3. CASE k = m
      <4>1. PICK s, t : s = outbox[m] /\ t = outbox'[m]
        OBVIOUS
      <4>2. /\ s \in Seq(Posts) /\ Len(s) \in Nat /\ Len(t) = Len(s) + 1 /\ t[Len(s) + 1] = w
            /\ \A i \in 1 .. Len(s) : t[i] = s[i]
        BY <1>4, <1>5, <4>1, ItemsAppend
      <4>3. \A i \in 1 .. Len(s) : s[i] \in Items(s)
        BY DEF Items
      <4>4. \A i \in 1 .. Len(t) : i \in 1 .. Len(s) \/ i = Len(s) + 1
        BY <4>2
      <4>5. ASSUME NEW i \in 1 .. Len(t), NEW j \in 1 .. Len(t), t[i].type = "NewDeviceGroup",
                   t[j].type = "NewDeviceGroup", t[i].group = t[j].group
            PROVE  i = j
        <5>1. CASE i \in 1 .. Len(s) /\ j \in 1 .. Len(s)
          <6>1. CreatesOnce(s)
            BY <3>1, <3>3, <4>1
          <6>2. t[i] = s[i] /\ t[j] = s[j]
            BY <4>2, <5>1
          <6> QED BY <4>5, <5>1, <6>1, <6>2, Zenon DEF CreatesOnce
        <5>2. CASE i = Len(s) + 1 /\ j \in 1 .. Len(s)
          BY <4>1, <4>2, <4>3, <4>5, <5>2
        <5>3. CASE i \in 1 .. Len(s) /\ j = Len(s) + 1
          BY <4>1, <4>2, <4>3, <4>5, <5>3
        <5> QED BY <4>4, <5>1, <5>2, <5>3
      <4> QED BY <3>3, <4>1, <4>5 DEF CreatesOnce
    <3> QED BY <3>2, <3>3
  <2>4. \A k \in Members : CreatesOnce(outbox[k])' <=> CreatesOnce(outbox'[k])
    BY DEF CreatesOnce
  <2>5. \A k \in Members : Items(outbox[k])' = Items(outbox'[k])
    BY DEF Items
  <2> QED BY <2>2, <2>3, <2>4, <2>5, Zenon DEF OutInv
<1>9. \A x \in Members : Underway(x)' = Underway(x)
  BY UnderwaySame
<1>10. ArriveInv'
  BY <1>9, ArriveSame
<1>11. Flying' \subseteq Flying
  <2> SUFFICES ASSUME NEW message \in Flying' PROVE message \in Flying
    OBVIOUS
  <2>1. /\ message.type = "GroupMessage"
        /\ \E k \in Members : message \in Items(outbox'[k]) \/ message \in Underway(k)'
    BY FlyingAre
  <2>2. PICK k \in Members : message \in Items(outbox'[k]) \/ message \in Underway(k)'
    BY <2>1
  <2>3. message \in Items(outbox[k]) \/ message \in Underway(k)
    BY <1>5, <1>6, <1>9, <2>1, <2>2
  <2> QED BY <2>1, <2>3, FlyingAre
<1>12. SentInOrder' /\ ReadBefore' /\ ReadInOrder'
  <2>1. operations' \in Nat /\ operations <= operations'
    BY <1>4
  <2> QED BY <1>3, <1>11, <2>1, FlyingTypes, ContentStays
<1>13. CleanInv'
  <2> SUFFICES ASSUME clean, NEW y \in Members, NEW h \in Groups
               PROVE  \E b \in 0 .. Len(stored[h]) : SyncedFrom(y, h, b)'
    BY DEF CleanInv
  <2>1. PICK b \in 0 .. Len(stored[h]) : SyncedFrom(y, h, b)
    BY DEF GroupsInv, CleanInv
  <2>2. \A message \in Items(outbox[y]) : message \in Items(outbox'[y])
    BY <1>5, <1>6
  <2>3. \A message \in Underway(y) : message \in Underway(y)'
    BY <1>9
  <2>4. CASE y # m \/ h # g
    <3>1. group'[y][h] = group[y][h]
      BY <1>3, <2>4
    <3>2. SyncedFrom(y, h, b)'
      BY <2>1, <2>2, <2>3, <3>1, SyncedStays
    <3> QED BY <3>2
  <2>5. CASE y = m /\ h = g
    <3>1. b \in Nat /\ b <= Len(group[m][g]) /\ \A i \in 1 .. b : i \in 1 .. Len(group[m][g])
      BY <1>1, <2>1, <2>5 DEF SyncedFrom
    <3>2. b <= Len(l) /\ \A i \in 1 .. b : l[i] = stored[g][i]
      BY <1>1, <2>1, <2>5, <3>1 DEF SyncedFrom, Begins
    <3>3. \A j : Coming(m, g, j) => Coming(m, g, j)'
      BY <2>3, <2>5 DEF Coming
    <3>4. \A j : Unsent(m, g, j) => Unsent(m, g, j)'
      <4>1. \A message \in Items(outbox[m]) : message \in Items(outbox'[m])
        BY <1>6
      <4> QED BY <4>1, Zenon DEF Unsent, Items
    <3>5. Unsent(m, g, Len(l))'
      <4>1. w \in Items(outbox'[m])
        BY <1>6
      <4> QED BY <4>1, Zenon DEF Unsent, Items
    <3>6. \A j \in b + 1 .. Len(l) : j \in b + 1 .. Len(group[m][g]) \/ j = Len(l)
      BY <1>1, <3>1
    <3>7. \A j \in b + 1 .. Len(l) : Unsent(m, g, j)'
      BY <2>1, <2>5, <3>4, <3>5, <3>6 DEF SyncedFrom
    <3>8. \A j \in b + 1 .. Len(stored[g]) :
            (\E i \in 1 .. j - 1 : m \in stored[g][i].new) => Coming(m, g, j)'
      BY <2>1, <2>5, <3>3 DEF SyncedFrom
    <3>9. l # NoGroup
      BY <1>1, LogFacts
    <3>10. SyncedFrom(m, g, b)'
      BY <1>3, <3>2, <3>7, <3>8, <3>9 DEF SyncedFrom
    <3> QED BY <2>5, <3>10
  <2> QED BY <2>4, <2>5
<1> QED BY <1>3, <1>7, <1>8, <1>10, <1>12, <1>13 DEF GroupsInv

-----------------------------------------------------------------------------
\* One lemma for every step.

LEMMA CreateGroupStep ==
    ASSUME GroupsInv, NEW m \in Members, NEW g \in Groups, m \in Founders(g),
           CreateGroupIfMissing(m, g)
    PROVE  GroupsInv'
<1>1. PICK e : e = [by |-> m, new |-> RequiredMembers(g) \cup {m}, nr |-> operations]
  OBVIOUS
<1>2. PICK l : l = <<e>>
  OBVIOUS
<1>3. PICK w : w = [type |-> "NewDeviceGroup", group |-> g, by |-> m, log |-> l]
  OBVIOUS
<1>4. /\ group[m][g] = NoGroup /\ operations' = operations + 1 /\ NewEpoch(m, g, l) /\ Send(m, w)
      /\ UNCHANGED <<handling, stored, cached, owed, tried, read, clean>>
  BY <1>1, <1>2, <1>3
     DEF CreateGroupIfMissing, CreateGroup, Count, MessageToServer, serverVars
<1>5. e.by = m /\ m \in e.new /\ e \in Entries
  <2>1. RequiredMembers(g) \cup {m} \in SUBSET Members /\ operations \in Nat
    BY GroupsAssumption DEF RequiredMembers, GroupsInv, GroupTypes
  <2>2. PICK n \in SUBSET Members : n = RequiredMembers(g) \cup {m}
    BY <2>1
  <2> QED BY <1>1, <2>1, <2>2 DEF Entries
<1>6. l \in Logs /\ Len(l) = 1 /\ l[1] = e
  BY <1>2, <1>5 DEF Logs
<1>7. w \in Posts /\ w.type = "NewDeviceGroup" /\ w.group = g /\ w.by = m /\ w.log = l
  <2>1. PICK L : L = Logs
    OBVIOUS
  <2>2. w \in [type : {"NewDeviceGroup", "AddToGroup"}, group : Groups, by : Members, log : L]
    BY <1>3, <1>6, <2>1
  <2> QED BY <1>3, <2>1, <2>2 DEF Posts, Commits
<1>8. Len(group[m][g]) = 0 /\ l # NoGroup
  <2>1. group[m][g] \in Logs
    BY GroupFacts
  <2>2. Len(group[m][g]) = 0
    BY <1>4, <2>1, LogFacts
  <2>3. l # NoGroup
    BY <1>6, LogFacts
  <2> QED BY <2>2, <2>3
<1>9. Len(l) = Len(group[m][g]) + 1 /\ Begins(group[m][g], l)
  BY <1>6, <1>8 DEF Begins
<1>10. group'[m][g] = l
  BY <1>4 DEF NewEpoch, GroupsInv, GroupTypes
<1>11. Born(l, g)'
  <2>1. Born(l, g)' <=> (l # NoGroup => \E c \in Founders(g) :
                           /\ group'[c][g] # NoGroup /\ l[1] = group'[c][g][1]
                           /\ l[1].by = c /\ c \in l[1].new)
    BY Zenon DEF Born
  <2> QED BY <1>5, <1>6, <1>8, <1>10, <2>1
<1>12. AddsOthers(l) /\ m \in GroupMembers(l) /\ l[Len(l)].by = m
  <2>1. \A i \in 2 .. Len(l) : FALSE
    BY <1>6
  <2>2. 1 \in 1 .. Len(l)
    BY <1>6
  <2> QED BY <1>5, <1>6, <2>1, <2>2, LogFacts DEF AddsOthers
<1>13. stored[g] = NoGroup
  <2> SUFFICES ASSUME stored[g] # NoGroup PROVE FALSE
    OBVIOUS
  <2>1. PICK c \in Founders(g) : group[c][g] # NoGroup
    BY GroupFacts DEF Born
  <2>2. c = m
    BY FounderFacts
  <2> QED BY <1>4, <2>1, <2>2
<1>14. OutOk(m, w)'
  <2>1. Begins(l, group'[m][g])
    <3>1. Begins(l, l)
      BY <1>6 DEF Begins
    <3> QED BY <1>10, <3>1
  <2> QED BY <1>4, <1>6, <1>7, <1>8, <1>13, <2>1 DEF OutOk, Begins
<1>15. ASSUME NEW message \in Items(outbox[m]), message.type = "NewDeviceGroup"
       PROVE  message.group # g
  <2>1. OutOk(m, message)
    BY DEF GroupsInv, OutInv
  <2> SUFFICES ASSUME message.group = g PROVE FALSE
    OBVIOUS
  <2>2. Begins(message.log, group[m][g]) /\ Len(message.log) = 1
    BY <1>15, <2>1 DEF OutOk
  <2> QED BY <1>8, <2>2 DEF Begins
<1> QED BY <1>4, <1>6, <1>7, <1>9, <1>11, <1>12, <1>14, <1>15, CommitSent

LEMMA AddMemberStep ==
    ASSUME GroupsInv, NEW m \in Members, NEW g \in Groups, NEW x \in Members, AddMember(m, g, x)
    PROVE  GroupsInv'
<1>1. PICK e : e = [by |-> m, new |-> {x}, nr |-> 0]
  OBVIOUS
<1>2. PICK own : own = group[m][g]
  OBVIOUS
<1>3. PICK l : l = Append(own, e)
  OBVIOUS
<1>4. PICK w : w = [type |-> "AddToGroup", group |-> g, by |-> m, log |-> l]
  OBVIOUS
<1>5. /\ own # NoGroup /\ x \notin GroupMembers(own) /\ operations' = operations + 1
      /\ NewEpoch(m, g, l) /\ Send(m, w)
      /\ UNCHANGED <<handling, stored, cached, owed, tried, read, clean>>
  BY <1>1, <1>2, <1>3, <1>4 DEF AddMember, Count, MessageToServer, serverVars
<1>6. e.by = m /\ e.new = {x} /\ e \in Entries
  <2>1. PICK n \in SUBSET Members : n = {x}
    OBVIOUS
  <2> QED BY <1>1, <2>1 DEF Entries
<1>7. own \in Logs /\ Len(own) \in Nat /\ Len(own) >= 1
  BY <1>2, <1>5, GroupFacts, LogFacts
<1>8. /\ l \in Logs /\ Len(l) = Len(own) + 1 /\ l[Len(own) + 1] = e
      /\ \A i \in 1 .. Len(own) : l[i] = own[i]
  BY <1>3, <1>6, <1>7, AppendFacts DEF Logs
<1>9. w \in Posts /\ w.type = "AddToGroup" /\ w.group = g /\ w.by = m /\ w.log = l
  <2>1. PICK L : L = Logs
    OBVIOUS
  <2>2. w \in [type : {"NewDeviceGroup", "AddToGroup"}, group : Groups, by : Members, log : L]
    BY <1>4, <1>8, <2>1
  <2> QED BY <1>4, <2>1, <2>2 DEF Posts, Commits
<1>10. Begins(own, l)
  BY <1>7, <1>8 DEF Begins
<1>11. Front(l) = own /\ Last(l) = e
  <2>1. /\ Front(l) \in Logs /\ Len(Front(l)) = Len(l) - 1 /\ Last(l) = l[Len(l)]
        /\ \A i \in 1 .. Len(l) - 1 : Front(l)[i] = l[i]
    BY <1>7, <1>8, FrontFacts
  <2>2. Len(Front(l)) = Len(own) /\ \A i \in 1 .. Len(Front(l)) : Front(l)[i] = own[i]
    BY <1>7, <1>8, <2>1
  <2> QED BY <1>7, <1>8, <2>1, <2>2, EqualLogs
<1>12. m \in GroupMembers(own) /\ m # x
  BY <1>2, <1>5, GroupFacts
<1>13. AddsOthers(l)
  <2> SUFFICES ASSUME NEW i \in 2 .. Len(l) PROVE l[i].by \notin l[i].new
    BY DEF AddsOthers
  <2>1. CASE i = Len(own) + 1
    BY <1>6, <1>8, <1>12, <2>1
  <2>2. CASE i # Len(own) + 1
    <3>1. i \in 2 .. Len(own) /\ i \in 1 .. Len(own)
      BY <1>7, <1>8, <2>2
    <3>2. AddsOthers(own)
      BY <1>2, GroupFacts
    <3> QED BY <1>8, <3>1, <3>2 DEF AddsOthers
  <2> QED BY <2>1, <2>2
<1>14. m \in GroupMembers(l)
  <2>1. PICK i \in 1 .. Len(own) : m \in own[i].new
    BY <1>7, <1>12, LogFacts
  <2>2. i \in 1 .. Len(l) /\ m \in l[i].new
    BY <1>7, <1>8, <2>1
  <2> QED BY <1>8, <2>2, LogFacts
<1>15. l[Len(l)].by = m
  BY <1>6, <1>8
<1>16. group'[m][g] = l
  BY <1>5 DEF NewEpoch, GroupsInv, GroupTypes
<1>17. Born(l, g)'
  <2>1. Born(l, g)' <=> (l # NoGroup => \E c \in Founders(g) :
                           /\ group'[c][g] # NoGroup /\ l[1] = group'[c][g][1]
                           /\ l[1].by = c /\ c \in l[1].new)
    BY Zenon DEF Born
  <2>2. l[1] = own[1]
    BY <1>7, <1>8
  <2>3. PICK c \in Founders(g) : /\ group[c][g] # NoGroup /\ own[1] = group[c][g][1]
                                 /\ own[1].by = c /\ c \in own[1].new
    BY <1>2, <1>5, GroupFacts, Zenon DEF Born
  <2>4. group'[c][g] # NoGroup /\ group'[c][g][1] = group[c][g][1]
    <3>1. CASE c = m
      <4>1. l # NoGroup
        BY <1>7, <1>8, LogFacts
      <4> QED BY <1>2, <1>16, <2>2, <3>1, <4>1
    <3>2. CASE c # m
      <4>1. c \in Members
        BY FounderFacts
      <4>2. group'[c] = group[c]
        BY <1>5, <3>2, <4>1 DEF NewEpoch, GroupsInv, GroupTypes
      <4> QED BY <2>3, <4>2
    <3> QED BY <3>1, <3>2
  <2> QED BY <2>1, <2>2, <2>3, <2>4
<1>18. OutOk(m, w)'
  <2>1. Begins(l, group'[m][g]) /\ l # NoGroup /\ Len(l) >= 2
    BY <1>7, <1>8, <1>16, LogFacts DEF Begins
  <2>2. Last(l).new \cap GroupMembers(Front(l)) = {} /\ m \in GroupMembers(Front(l))
    BY <1>5, <1>6, <1>11, <1>12
  <2> QED BY <1>9, <2>1, <2>2 DEF OutOk, Begins, Last, Front, GroupMembers
<1> QED BY <1>2, <1>5, <1>8, <1>9, <1>10, <1>13, <1>14, <1>15, <1>17, <1>18, CommitSent

\* The logs of members and server stay as they are.
LEMMA LogsSame ==
    ASSUME GroupsInv, UNCHANGED <<group, stored>>,
           \A g \in Groups : cached'[g] # NoGroup => cached'[g] = stored[g]
    PROVE  LogInv' /\ ServerInv'
<1>1. LogInv'
  <2>1. \A m, g, k : OwnAfter(m, g, k) => OwnAfter(m, g, k)'
    BY DEF OwnAfter
  <2>2. \A m \in Members, g \in Groups :
          (/\ Born(group[m][g], g) /\ AddsOthers(group[m][g])
           /\ group[m][g] # NoGroup => m \in GroupMembers(group[m][g]))'
    BY DEF GroupsInv, LogInv, Born, AddsOthers, GroupMembers
  <2>3. \A m \in Members, g \in Groups : \E k \in 0 .. Len(stored'[g]) : OwnAfter(m, g, k)'
    BY <2>1 DEF GroupsInv, LogInv
  <2> QED BY <2>2, <2>3 DEF LogInv
<1>2. ServerInv'
  BY DEF GroupsInv, ServerInv, Born, AddsOthers, GroupMembers
<1> QED BY <1>1, <1>2

LEMMA OutSame ==
    ASSUME GroupsInv, UNCHANGED <<group, stored>>
    PROVE  \A m, message : OutOk(m, message) => OutOk(m, message)'
BY DEF OutOk, Begins, Last, Front, GroupMembers

LEMMA CreatesOnceMore ==
    ASSUME NEW s \in Seq(Posts), NEW w \in Posts, CreatesOnce(s), w.type # "NewDeviceGroup"
    PROVE  CreatesOnce(Append(s, w))
<1>1. PICK t : t = Append(s, w)
  OBVIOUS
<1>2. /\ Len(s) \in Nat /\ Len(t) = Len(s) + 1 /\ t[Len(s) + 1] = w
      /\ \A i \in 1 .. Len(s) : t[i] = s[i]
  BY <1>1, ItemsAppend
<1>3. \A i \in 1 .. Len(t) : t[i].type = "NewDeviceGroup" => i \in 1 .. Len(s)
  BY <1>2
<1>4. CreatesOnce(t)
  BY <1>2, <1>3, Zenon DEF CreatesOnce
<1> QED BY <1>1, <1>4

LEMMA CreateMessageStep ==
    ASSUME GroupsInv, NEW m \in Members, NEW g \in Groups, CreateMessage(m, g),
           g = "DeviceGroup" => m = Device
    PROVE  GroupsInv'
<1>1. PICK own, n, o : own = group[m][g] /\ n = gen[m][g][m] /\ o = operations
  OBVIOUS
<1>2. PICK w : w = [type |-> "GroupMessage", group |-> g, by |-> m, log |-> own, gen |-> n,
                    content |-> o]
  OBVIOUS
<1>3. /\ own # NoGroup /\ operations' = operations + 1 /\ Send(m, w)
      /\ gen' = [gen EXCEPT ![m][g][m] = @ + 1]
      /\ UNCHANGED <<group, handling, stored, cached, owed, tried, read, clean>>
  BY <1>1, <1>2 DEF CreateMessage, Count, serverVars
<1>4. own \in Logs /\ n \in Nat /\ o \in Nat /\ gen[m][g] \in [Members -> Nat]
  BY <1>1, GroupFacts DEF GroupsInv, GroupTypes
<1>5. /\ w.type = "GroupMessage" /\ w.group = g /\ w.by = m /\ w.log = own /\ w.gen = n
      /\ w.content = o /\ w \in Posts
  <2>1. PICK L : L = Logs
    OBVIOUS
  <2>2. w \in [type : {"GroupMessage"}, group : Groups, by : Members, log : L, gen : Nat,
               content : Nat]
    BY <1>2, <1>4, <2>1
  <2> QED BY <1>2, <2>1, <2>2 DEF Posts, Contents
<1>6. outbox \in [Members -> Seq(Posts)]
  BY DEF GroupsInv, GroupTypes
<1>7. /\ outbox' \in [Members -> Seq(Posts)] /\ outbox'[m] = Append(outbox[m], w)
      /\ \A k \in Members : k # m => outbox'[k] = outbox[k]
  <2>1. Append(outbox[m], w) \in Seq(Posts)
    BY <1>5, <1>6, ItemsAppend
  <2> QED BY <1>3, <1>6, <2>1 DEF Send
<1>8. Items(outbox'[m]) = Items(outbox[m]) \cup {w}
  BY <1>5, <1>6, <1>7, ItemsAppend
<1>9. gen \in [Members -> [Groups -> [Members -> Nat]]]
  BY DEF GroupsInv, GroupTypes
<1>10. /\ gen' \in [Members -> [Groups -> [Members -> Nat]]] /\ gen'[m][g][m] = n + 1
       /\ \A k \in Members, h \in Groups, s \in Members :
             gen[k][h][s] \in Nat /\ gen'[k][h][s] \in Nat /\ gen[k][h][s] <= gen'[k][h][s]
  <2>1. PICK d \in [Groups -> [Members -> Nat]] : d = gen[m]
    BY <1>9
  <2>5. PICK f \in [Members -> Nat] : f = [d[g] EXCEPT ![m] = @ + 1]
    <3>1. PICK e \in [Members -> Nat] : e = d[g]
      BY <2>1
    <3>2. [e EXCEPT ![m] = e[m] + 1] \in [Members -> Nat]
      BY <3>1
    <3> QED BY <3>1, <3>2
  <2>2. PICK d2 \in [Groups -> [Members -> Nat]] :
          d2 = [d EXCEPT ![g][m] = @ + 1] /\ d2[g] = f /\ \A h \in Groups : h # g => d2[h] = d[h]
    <3>1. [d EXCEPT ![g] = f] = [d EXCEPT ![g][m] = @ + 1]
      BY <2>1, <2>5
    <3>2. [d EXCEPT ![g] = f] \in [Groups -> [Members -> Nat]]
      BY <2>1, <2>5
    <3> QED BY <2>1, <2>5, <3>1, <3>2
  <2>6. f[m] = n + 1 /\ \A s \in Members : d[g][s] \in Nat /\ f[s] \in Nat /\ d[g][s] <= f[s]
    BY <1>1, <2>1, <2>5
  <2>7. \A h \in Groups, s \in Members : d[h][s] \in Nat
    BY <2>1
  <2>3. gen' = [gen EXCEPT ![m] = d2]
    BY <1>3, <1>9, <2>1, <2>2
  <2>4. /\ d2[g][m] = n + 1
        /\ \A h \in Groups, s \in Members : d[h][s] \in Nat /\ d2[h][s] \in Nat /\ d[h][s] <= d2[h][s]
    BY <2>2, <2>6, <2>7
  <2> QED BY <1>9, <2>1, <2>3, <2>4
<1>11. GroupTypes'
  <2>1. operations' \in Nat
    BY <1>3 DEF GroupsInv, GroupTypes
  <2> QED BY <1>3, <1>7, <1>10, <2>1 DEF GroupsInv, GroupTypes
<1>12. LogInv' /\ ServerInv'
  BY <1>3, LogsSame DEF GroupsInv, ServerInv
<1>13. OutInv'
  <2>1. OutOk(m, w)'
    BY <1>3, <1>5 DEF OutOk
  <2>2. ASSUME NEW k \in Members, NEW message \in Items(outbox'[k]) PROVE OutOk(k, message)'
    <3>1. (k = m /\ message = w) \/ message \in Items(outbox[k])
      BY <1>7, <1>8
    <3> QED BY <1>3, <2>1, <3>1, OutSame DEF GroupsInv, OutInv
  <2>3. ASSUME NEW k \in Members PROVE CreatesOnce(outbox'[k])
    <3>1. CreatesOnce(outbox[k])
      BY DEF GroupsInv, OutInv
    <3> QED BY <1>5, <1>6, <1>7, <3>1, CreatesOnceMore
  <2>4. \A k \in Members : CreatesOnce(outbox[k])' <=> CreatesOnce(outbox'[k])
    BY DEF CreatesOnce
  <2>5. \A k \in Members : Items(outbox[k])' = Items(outbox'[k])
    BY DEF Items
  <2> QED BY <2>2, <2>3, <2>4, <2>5, Zenon DEF OutInv
<1>14. \A x \in Members : Underway(x)' = Underway(x)
  BY <1>3, UnderwaySame
<1>15. ArriveInv'
  BY <1>3, <1>14, ArriveSame
<1>16. ASSUME NEW message \in Flying' PROVE message = w \/ message \in Flying
  <2>1. /\ message.type = "GroupMessage"
        /\ \E k \in Members : message \in Items(outbox'[k]) \/ message \in Underway(k)'
    BY FlyingAre
  <2>2. PICK k \in Members : message \in Items(outbox'[k]) \/ message \in Underway(k)'
    BY <2>1
  <2>3. message = w \/ message \in Items(outbox[k]) \/ message \in Underway(k)
    <3>1. CASE k = m
      BY <1>8, <1>14, <2>2, <3>1
    <3>2. CASE k # m
      <4>1. Items(outbox'[k]) = Items(outbox[k])
        BY <1>7, <3>2
      <4> QED BY <1>14, <2>2, <4>1
    <3> QED BY <3>1, <3>2
  <2> QED BY <2>1, <2>3, FlyingAre
<1>17. ASSUME NEW message \in Flying
       PROVE  /\ message.content \in Nat /\ message.content < o /\ Len(message.log) \in Nat
              /\ message.by \in Members /\ message.group \in Groups /\ message.gen \in Nat
              /\ Len(message.log) <= Len(group[message.by][message.group])
              /\ message.log = group[message.by][message.group] =>
                    message.gen < gen[message.by][message.group][message.by]
  BY <1>1, FlyingTypes DEF GroupsInv, SentInOrder
<1>18. SentInOrder'
  <2>1. ASSUME NEW message \in Flying'
        PROVE  /\ message.content < operations'
               /\ Len(message.log) <= Len(group'[message.by][message.group])
               /\ message.log = group'[message.by][message.group] =>
                     message.gen < gen'[message.by][message.group][message.by]
    <3>1. CASE message = w
      <4>1. Len(own) \in Nat
        BY <1>4, LogFacts
      <4>2. o < operations' /\ n < n + 1 /\ Len(own) <= Len(own)
        BY <1>1, <1>3, <1>4, <4>1
      <4> QED BY <1>1, <1>3, <1>5, <1>10, <3>1, <4>2
    <3>2. CASE message \in Flying
      <4>1. PICK s \in Members, h \in Groups : s = message.by /\ h = message.group
        BY <1>17, <3>2
      <4>2. gen[s][h][s] \in Nat /\ gen'[s][h][s] \in Nat /\ gen[s][h][s] <= gen'[s][h][s]
        BY <1>10
      <4>3. PICK a \in Nat, b \in Nat, c \in Nat :
              a = message.gen /\ b = gen[s][h][s] /\ c = gen'[s][h][s]
        BY <1>17, <3>2, <4>2
      <4>4. a < b => a < c
        BY <4>2, <4>3
      <4>5. message.content < operations'
        <5>1. PICK v \in Nat : v = message.content /\ v < o
          BY <1>17, <3>2
        <5> QED BY <1>1, <1>3, <1>4, <5>1
      <4> QED BY <1>3, <1>17, <3>2, <4>1, <4>3, <4>4, <4>5
    <3> QED BY <1>16, <3>1, <3>2
  <2>2. ASSUME NEW a \in Flying', NEW b \in Flying', a.by = b.by, a.group = b.group, After(a, b)
        PROVE  a.content > b.content
    <3>1. CASE a \in Flying /\ b \in Flying
      BY <2>2, <3>1 DEF GroupsInv, SentInOrder
    <3>2. CASE a = w /\ b \in Flying
      BY <1>4, <1>5, <1>17, <3>2
    <3>3. CASE a \in Flying /\ b = w
      <4>1. /\ Len(a.log) \in Nat /\ Len(own) \in Nat /\ Len(a.log) <= Len(own) /\ a.gen \in Nat
            /\ a.log = own => a.gen < n
        BY <1>1, <1>4, <1>5, <1>17, <2>2, <3>3, LogFacts
      <4>2. ~After(a, b)
        BY <1>4, <1>5, <3>3, <4>1 DEF After
      <4> QED BY <2>2, <4>2
    <3>4. CASE a = w /\ b = w
      <4>1. Len(own) \in Nat
        BY <1>4, LogFacts
      <4>2. ~After(w, w)
        BY <1>4, <1>5, <4>1 DEF After
      <4> QED BY <2>2, <3>4, <4>2
    <3> QED BY <1>16, <3>1, <3>2, <3>3, <3>4
  <2>3. \A a, b : After(a, b)' <=> After(a, b)
    BY DEF After
  <2> QED BY <2>1, <2>2, <2>3, Zenon DEF SentInOrder
<1>19. ASSUME NEW r \in Members, NEW h \in Groups, NEW i \in 1 .. Len(read[r][h])
       PROVE  read[r][h][i].content \in Nat /\ read[r][h][i].content < o
  <2>1. read[r][h][i] \in Readings
    BY GroupFacts, ElementFacts
  <2> QED BY <1>1, <2>1 DEF Readings, GroupsInv, ReadBefore
<1>20. ReadBefore'
  <2>1. ASSUME NEW r \in Members, NEW h \in Groups, NEW i \in 1 .. Len(read[r][h])
        PROVE  read[r][h][i].content < operations'
    <3>1. PICK c \in Nat : c = read[r][h][i].content /\ c < o
      BY <1>19
    <3> QED BY <1>1, <1>3, <1>4, <3>1
  <2>2. ASSUME NEW r \in Members, NEW message \in Flying', Ahead(r, message)',
               NEW i \in 1 .. Len(read[r][message.group]),
               read[r][message.group][i].by = message.by
        PROVE  read[r][message.group][i].content < message.content
    <3>1. CASE message = w
      BY <1>5, <1>19, <3>1
    <3>2. CASE message \in Flying
      <4>1. PICK s \in Members, h \in Groups : s = message.by /\ h = message.group
        BY <1>17, <3>2
      <4>2. PICK a \in Nat, b \in Nat, c \in Nat :
              /\ a = message.gen /\ b = gen[r][h][s] /\ c = gen'[r][h][s] /\ b <= c
        <5>1. gen[r][h][s] \in Nat /\ gen'[r][h][s] \in Nat /\ gen[r][h][s] <= gen'[r][h][s]
          BY <1>10
        <5>2. message.gen \in Nat
          BY <1>17, <3>2
        <5> QED BY <5>1, <5>2
      <4>3. a >= c => a >= b
        BY <4>2
      <4>4. Ahead(r, message)
        BY <1>3, <2>2, <4>1, <4>2, <4>3 DEF Ahead
      <4> QED BY <2>2, <3>2, <4>4 DEF GroupsInv, ReadBefore
    <3> QED BY <1>16, <3>1, <3>2
  <2> QED BY <1>3, <2>1, <2>2, Zenon DEF ReadBefore
<1>21. ReadInOrder'
  BY <1>3 DEF GroupsInv, ReadInOrder
<1>22. CleanInv'
  <2> SUFFICES ASSUME clean, NEW y \in Members, NEW h \in Groups
               PROVE  \E b \in 0 .. Len(stored[h]) : SyncedFrom(y, h, b)'
    BY <1>3 DEF CleanInv
  <2>1. PICK b \in 0 .. Len(stored[h]) : SyncedFrom(y, h, b)
    BY DEF GroupsInv, CleanInv
  <2>2. \A message \in Items(outbox[y]) : message \in Items(outbox'[y])
    BY <1>7, <1>8
  <2>3. \A message \in Underway(y) : message \in Underway(y)'
    BY <1>14
  <2>4. SyncedFrom(y, h, b)'
    BY <1>3, <2>1, <2>2, <2>3, SyncedStays
  <2> QED BY <2>4
<1> QED BY <1>11, <1>12, <1>13, <1>15, <1>18, <1>20, <1>21, <1>22 DEF GroupsInv

\* The server takes message w of m from its outbox.
Taken(m, w) ==
    /\ w \in Posts /\ OutOk(m, w) /\ w \in Items(outbox[m])
    /\ outbox' \in [Members -> Seq(Posts)] /\ Items(outbox[m]) = {w} \cup Items(outbox'[m])
    /\ \A k \in Members : k # m => outbox'[k] = outbox[k]
    /\ \A k \in Members : CreatesOnce(outbox'[k])
    /\ \A v \in Items(outbox'[m]) :
          w.type = "NewDeviceGroup" /\ v.type = "NewDeviceGroup" => v.group # w.group

LEMMA HandleTakes ==
    ASSUME GroupsInv, NEW m \in Members, Handle(m)
    PROVE  Taken(m, Head(outbox[m]))
<1>1. outbox \in [Members -> Seq(Posts)]
  BY DEF GroupsInv, GroupTypes
<1>2. PICK s, w, t : s = outbox[m] /\ w = Head(s) /\ t = Tail(s)
  OBVIOUS
<1>3. /\ t \in Seq(Posts) /\ w \in Posts /\ w = s[1] /\ Len(s) \in Nat /\ Len(s) >= 1
      /\ Len(t) = Len(s) - 1 /\ \A i \in 1 .. Len(s) - 1 : t[i] = s[i + 1]
  BY <1>1, <1>2, ItemsTail DEF Handle
<1>4. Items(s) = {w} \cup Items(t)
  BY <1>1, <1>2, ItemsTail DEF Handle
<1>5. /\ outbox' \in [Members -> Seq(Posts)] /\ outbox'[m] = t
      /\ \A k \in Members : k # m => outbox'[k] = outbox[k]
  BY <1>1, <1>2, <1>3 DEF Handle
<1>6. OutOk(m, w)
  BY <1>2, <1>4 DEF GroupsInv, OutInv
<1>7. CreatesOnce(s)
  BY <1>2 DEF GroupsInv, OutInv
<1>8. CreatesOnce(t)
  <2> SUFFICES ASSUME NEW i \in 1 .. Len(t), NEW j \in 1 .. Len(t),
                      t[i].type = "NewDeviceGroup", t[j].type = "NewDeviceGroup",
                      t[i].group = t[j].group
               PROVE  i = j
    BY DEF CreatesOnce
  <2>1. i + 1 \in 1 .. Len(s) /\ j + 1 \in 1 .. Len(s) /\ t[i] = s[i + 1] /\ t[j] = s[j + 1]
    BY <1>3
  <2>2. i + 1 = j + 1
    BY <1>7, <2>1 DEF CreatesOnce
  <2> QED BY <2>2
<1>9. ASSUME NEW v \in Items(t), w.type = "NewDeviceGroup", v.type = "NewDeviceGroup",
             v.group = w.group
      PROVE  FALSE
  <2>1. PICK i \in 1 .. Len(t) : v = t[i]
    BY DEF Items
  <2>2. i + 1 \in 1 .. Len(s) /\ v = s[i + 1] /\ 1 \in 1 .. Len(s)
    BY <1>3, <2>1
  <2>3. i + 1 = 1
    BY <1>3, <1>7, <1>9, <2>2 DEF CreatesOnce
  <2> QED BY <2>3
<1>10. \A k \in Members : CreatesOnce(outbox'[k])
  BY <1>5, <1>8 DEF GroupsInv, OutInv
<1> QED BY <1>2, <1>3, <1>4, <1>5, <1>6, <1>9, <1>10 DEF Taken

\* The receivers of an answer, without the sender.
WithoutSender(q, m) == [i \in DOMAIN q |-> [q[i] EXCEPT !.receivers = @ \ {m}]]

LEMMA RespondFacts ==
    ASSUME NEW m, NEW q \in Seq(Answers), NEW s, s = WithoutSender(q, m)
    PROVE  /\ s \in Seq(Answers) /\ Len(q) \in Nat /\ Len(s) = Len(q)
           /\ \A i \in 1 .. Len(q) : /\ s[i].receivers = q[i].receivers \ {m}
                                     /\ s[i].message = q[i].message
<1>1. Len(q) \in Nat /\ DOMAIN q = 1 .. Len(q) /\ \A i \in 1 .. Len(q) : q[i] \in Answers
  BY ElementFacts
<1>2. \A a \in Answers : [a EXCEPT !.receivers = @ \ {m}] \in Answers
  BY DEF Answers
<1>3. s \in [1 .. Len(q) -> Answers]
  BY <1>1, <1>2 DEF WithoutSender
<1>4. \A i \in 1 .. Len(q) : s[i].receivers = q[i].receivers \ {m} /\ s[i].message = q[i].message
  BY <1>1 DEF Answers, WithoutSender
<1> QED BY <1>1, <1>3, <1>4, SeqOfFunction

\* What the server is about to store for m's message is under way, too.
LEMMA UnderwayHandled ==
    ASSUME GroupsInv, NEW m \in Members, handling[m] = << >>, NEW s,
           handling' = [handling EXCEPT ![m] = s], UNCHANGED owed, NEW x \in Members
    PROVE  /\ Underway(x) \subseteq Underway(x)'
           /\ \A message \in Underway(x)' :
                 \/ message \in Underway(x)
                 \/ \E a \in Items(s) : x \in a.receivers /\ message = a.message
           /\ \A a \in Items(s) : x \in a.receivers => a.message \in Underway(x)'
<1>1. /\ handling'[m] = s /\ \A k \in Members : k # m => handling'[k] = handling[k]
  BY DEF GroupsInv, GroupTypes
<1>2. Items(handling[m]) = {}
  BY DEF Items
<1>3. ASSUME NEW message \in Underway(x) PROVE message \in Underway(x)'
  <2>1. \/ message \in Items(owed[x])
        \/ \E k \in Members : \E a \in Items(handling[k]) : x \in a.receivers /\ message = a.message
    BY UnderwayAre
  <2>2. CASE message \in Items(owed[x])
    BY <2>2, UnderwayNow
  <2>3. ASSUME NEW k \in Members, NEW a \in Items(handling[k]), x \in a.receivers,
               message = a.message
        PROVE  message \in Underway(x)'
    <3>1. k # m
      BY <1>2, <2>3
    <3>2. a \in Items(handling'[k])
      BY <1>1, <2>3, <3>1
    <3> QED BY <2>3, <3>2, UnderwayNow
  <2> QED BY <2>1, <2>2, <2>3
<1>4. ASSUME NEW message \in Underway(x)'
      PROVE  \/ message \in Underway(x)
             \/ \E a \in Items(s) : x \in a.receivers /\ message = a.message
  <2>1. \/ message \in Items(owed'[x])
        \/ \E k \in Members : \E a \in Items(handling'[k]) : x \in a.receivers /\ message = a.message
    BY UnderwayNow
  <2>2. CASE message \in Items(owed'[x])
    BY <2>2, UnderwayAre
  <2>3. ASSUME NEW k \in Members, NEW a \in Items(handling'[k]), x \in a.receivers,
               message = a.message
        PROVE  \/ message \in Underway(x)
               \/ \E b \in Items(s) : x \in b.receivers /\ message = b.message
    <3>1. CASE k = m
      BY <1>1, <2>3, <3>1
    <3>2. CASE k # m
      <4>1. a \in Items(handling[k])
        BY <1>1, <2>3, <3>2
      <4> QED BY <2>3, <4>1, UnderwayAre
    <3> QED BY <3>1, <3>2
  <2> QED BY <2>1, <2>2, <2>3
<1>5. ASSUME NEW a \in Items(s), x \in a.receivers PROVE a.message \in Underway(x)'
  <2>1. a \in Items(handling'[m])
    BY <1>1
  <2> QED BY <1>5, <2>1, UnderwayNow
<1> QED BY <1>3, <1>4, <1>5

\* The server's log grows, if at all, by what m has.
LEMMA ArrivesStays ==
    ASSUME GroupsInv, \A h \in Groups : stored'[h] \in Logs /\ Begins(stored[h], stored'[h]),
           NEW x, NEW message \in Posts, ArrivesOk(x, message)
    PROVE  ArrivesOk(x, message)'
<1>1. message.group \in Groups /\ message.log \in Logs
  BY PostFacts
<1>2. stored[message.group] \in Logs
  BY <1>1 DEF GroupsInv, GroupTypes
<1>3. Begins(message.log, stored[message.group]) => Begins(message.log, stored'[message.group])
  BY <1>1, <1>2, BeginsFacts
<1>4. CheckCommit(message)' <=> CheckCommit(message)
  BY DEF CheckCommit, Last, MayEdit, MayBeAdded
<1>5. GroupMembers(message.log)' = GroupMembers(message.log)
  BY DEF GroupMembers
<1>6. Begins(message.log, stored[message.group])' <=> Begins(message.log, stored'[message.group])
  BY DEF Begins
<1> QED BY <1>3, <1>4, <1>5, <1>6 DEF ArrivesOk

LEMMA ServerLogsGrow ==
    ASSUME GroupsInv, NEW m \in Members, UNCHANGED group, stored' \in [Groups -> Logs],
           \A h \in Groups :
               \/ stored'[h] = stored[h]
               \/ /\ stored'[h] # NoGroup /\ Begins(stored[h], stored'[h])
                  /\ Begins(stored'[h], group[m][h]),
           \A h \in Groups : cached'[h] # NoGroup => cached'[h] = stored'[h],
           Device \notin GroupMembers(stored'["DeviceMetaGroup"])
    PROVE  LogInv' /\ ServerInv' /\ \A h \in Groups : Begins(stored[h], stored'[h])
<1>1. ASSUME NEW h \in Groups
      PROVE  /\ Born(stored[h], h)' /\ AddsOthers(stored[h])' /\ Begins(stored[h], stored'[h])
  <2>1. PICK a \in Logs, b \in Logs, own \in Logs : a = stored[h] /\ b = stored'[h] /\ own = group[m][h]
    BY GroupFacts
  <2>2. CASE b = a
    <3>1. Len(a) \in Nat
      BY LogFacts
    <3>2. Begins(a, a)
      BY <3>1 DEF Begins
    <3> QED BY <2>1, <2>2, <3>2 DEF GroupsInv, ServerInv, Born, AddsOthers
  <2>3. CASE b # NoGroup /\ Begins(a, b) /\ Begins(b, own)
    <3>1. Len(b) \in Nat /\ Len(own) \in Nat /\ Len(b) >= 1
      BY <2>3, LogFacts
    <3>2. Len(b) <= Len(own) /\ \A i \in 1 .. Len(b) : b[i] = own[i]
      BY <2>3 DEF Begins
    <3>3. Born(own, h) /\ AddsOthers(own)
      BY <2>1, GroupFacts
    <3>4. own # NoGroup /\ b[1] = own[1]
      BY <3>1, <3>2, LogFacts
    <3>5. Born(b, h)
      BY <3>3, <3>4, Zenon DEF Born
    <3>6. \A i \in 2 .. Len(b) : i \in 2 .. Len(own) /\ b[i] = own[i]
      BY <3>1, <3>2
    <3>7. AddsOthers(b)
      BY <3>3, <3>6 DEF AddsOthers
    <3> QED BY <2>1, <2>3, <3>5, <3>7, Zenon DEF Born, AddsOthers
  <2> QED BY <2>1, <2>2, <2>3
<1>2. ServerInv'
  BY <1>1, Zenon DEF ServerInv, GroupMembers
<1>3. ASSUME NEW k \in Members, NEW h \in Groups
      PROVE  \E j \in 0 .. Len(stored'[h]) : OwnAfter(k, h, j)'
  <2>1. PICK j \in 0 .. Len(stored[h]) : OwnAfter(k, h, j)
    BY GroupFacts
  <2>2. stored[h] \in Logs /\ stored'[h] \in Logs
    BY GroupFacts
  <2>3. Len(stored[h]) \in Nat /\ Len(stored'[h]) \in Nat
    BY <2>2, LogFacts
  <2>4. Len(stored[h]) <= Len(stored'[h]) /\ \A i \in 1 .. Len(stored[h]) : stored'[h][i] = stored[h][i]
    BY <1>1 DEF Begins
  <2>5. j \in 0 .. Len(stored'[h]) /\ \A i \in 1 .. j : i \in 1 .. Len(stored[h])
    BY <2>3, <2>4
  <2>6. OwnAfter(k, h, j)'
    BY <2>1, <2>4, <2>5 DEF OwnAfter
  <2> QED BY <2>5, <2>6
<1>4. LogInv'
  <2>1. ASSUME NEW k \in Members, NEW h \in Groups
        PROVE  /\ Born(group[k][h], h)' /\ AddsOthers(group[k][h])'
               /\ group'[k][h] # NoGroup => k \in GroupMembers(group[k][h])'
    BY GroupFacts DEF Born, AddsOthers, GroupMembers
  <2> QED BY <1>3, <2>1, Zenon DEF LogInv
<1> QED BY <1>1, <1>2, <1>4

\* What the server has for its groups after a message of m's, and what it answers.
StoredWell(m) ==
    /\ stored' \in [Groups -> Logs] /\ cached' \in [Groups -> Logs]
    /\ \A h \in Groups :
          \/ stored'[h] = stored[h]
          \/ /\ stored'[h] # NoGroup /\ Begins(stored[h], stored'[h])
             /\ Begins(stored'[h], group[m][h])
    /\ \A h \in Groups : cached'[h] # NoGroup => cached'[h] = stored'[h]
    /\ Device \notin GroupMembers(stored'["DeviceMetaGroup"])
    /\ \A k \in Members : \A v \in Items(outbox'[k]) :
          v.type = "NewDeviceGroup" => stored'[v.group] = NoGroup

AnsweredWell(m, w, s) ==
    /\ s \in Seq(Answers) /\ handling' = [handling EXCEPT ![m] = s]
    /\ \A a \in Items(s) : \A x \in a.receivers : ArrivesOk(x, a.message)'
    /\ \A a \in Items(s) : a.message.type = "GroupMessage" => a.message = w

LEMMA ServerHandles ==
    ASSUME GroupsInv, NEW m \in Members, Handle(m), NEW w, w = Head(outbox[m]),
           NEW s, AnsweredWell(m, w, s), StoredWell(m), CleanInv'
    PROVE  GroupsInv'
<1>a. /\ s \in Seq(Answers) /\ handling' = [handling EXCEPT ![m] = s]
      /\ \A a \in Items(s) : \A x \in a.receivers : ArrivesOk(x, a.message)'
      /\ \A a \in Items(s) : a.message.type = "GroupMessage" => a.message = w
  BY DEF AnsweredWell
<1>b. /\ stored' \in [Groups -> Logs] /\ cached' \in [Groups -> Logs]
      /\ \A k \in Members : \A v \in Items(outbox'[k]) :
            v.type = "NewDeviceGroup" => stored'[v.group] = NoGroup
  BY DEF StoredWell
<1>1. Taken(m, w)
  BY HandleTakes
<1>2. UNCHANGED <<group, gen, running, owed, tried, read, operations, faults>> /\ handling[m] = << >>
  BY DEF Handle
<1>3. LogInv' /\ ServerInv' /\ \A h \in Groups : Begins(stored[h], stored'[h])
  BY <1>2, ServerLogsGrow DEF StoredWell
<1>4. GroupTypes'
  <2>1. handling' \in [Members -> Seq(Answers)]
    BY <1>a DEF GroupsInv, GroupTypes
  <2> QED BY <1>1, <1>2, <1>b, <2>1 DEF GroupsInv, GroupTypes, Taken
<1>5. NewTypes /\ \A k \in Members, h \in Groups : Grows(k, h)
  BY <1>2 DEF NewTypes, Grows, GroupsInv, GroupTypes
<1>6. ASSUME NEW k \in Members PROVE Items(outbox'[k]) \subseteq Items(outbox[k])
  BY <1>1 DEF Taken
<1>7. OutInv'
  <2>1. ASSUME NEW k \in Members, NEW message \in Items(outbox'[k]) PROVE OutOk(k, message)'
    <3>1. message \in Posts /\ OutOk(k, message)
      BY <1>6, FlyingTypes DEF GroupsInv, OutInv
    <3>2. message.type = "NewDeviceGroup" => stored'[message.group] = NoGroup
      BY <1>b
    <3> QED BY <1>5, <3>1, <3>2, OutStays
  <2>2. \A k \in Members : CreatesOnce(outbox[k])' <=> CreatesOnce(outbox'[k])
    BY DEF CreatesOnce
  <2>3. \A k \in Members : Items(outbox[k])' = Items(outbox'[k])
    BY DEF Items
  <2>4. \A k \in Members : CreatesOnce(outbox'[k])
    BY <1>1 DEF Taken
  <2> QED BY <2>1, <2>2, <2>3, <2>4, Zenon DEF OutInv
<1>8. ASSUME NEW x \in Members, NEW message \in Underway(x)'
      PROVE  \/ message \in Underway(x)
             \/ \E a \in Items(s) : x \in a.receivers /\ message = a.message
  <2>1. UNCHANGED owed /\ handling[m] = << >>
    BY <1>2
  <2> QED BY <1>a, <2>1, UnderwayHandled, Zenon
<1>9. ArriveInv'
  <2> SUFFICES ASSUME NEW x \in Members, NEW message \in Underway(x)' PROVE ArrivesOk(x, message)'
    BY DEF ArriveInv
  <2>1. CASE message \in Underway(x)
    <3>1. message \in Posts /\ ArrivesOk(x, message)
      BY <2>1, UnderwayTypes
    <3> QED BY <1>3, <1>b, <3>1, ArrivesStays
  <2>2. ASSUME NEW a \in Items(s), x \in a.receivers, message = a.message
        PROVE  ArrivesOk(x, message)'
    BY <1>a, <2>2
  <2> QED BY <1>8, <2>1, <2>2
<1>10. Flying' \subseteq Flying
  <2> SUFFICES ASSUME NEW message \in Flying' PROVE message \in Flying
    OBVIOUS
  <2>1. message.type = "GroupMessage"
    BY FlyingAre
  <2>2. PICK k \in Members : message \in Items(outbox'[k]) \/ message \in Underway(k)'
    BY FlyingAre
  <2>3. w \in Items(outbox[m])
    BY <1>1 DEF Taken
  <2>4. \/ message \in Items(outbox[k]) \/ message \in Underway(k) \/ message = w
    BY <1>6, <1>8, <1>a, <2>1, <2>2
  <2> QED BY <2>1, <2>3, <2>4, FlyingAre
<1>11. SentInOrder' /\ ReadBefore' /\ ReadInOrder'
  <2>1. operations' \in Nat /\ operations <= operations'
    BY <1>2 DEF GroupsInv, GroupTypes
  <2>2. UNCHANGED read
    BY <1>2
  <2> QED BY <1>5, <1>10, <2>1, <2>2, FlyingTypes, ContentStays
<1> QED BY <1>3, <1>4, <1>7, <1>9, <1>11 DEF GroupsInv

\* Nothing is stored for a message the server refuses.
LEMMA RefusedStep ==
    ASSUME GroupsInv, NEW m \in Members, Handle(m), UNCHANGED <<handling, stored>>, ~clean',
           cached' \in [Groups -> Logs],
           \A h \in Groups : cached'[h] # NoGroup => cached'[h] = stored[h]
    PROVE  GroupsInv'
<1>1. PICK w : w = Head(outbox[m])
  OBVIOUS
<1>2. PICK s \in Seq(Answers) : s = << >>
  <2>1. << >> \in Seq(Answers)
    OBVIOUS
  <2> QED BY <2>1, Zenon
<1>3. handling' = [handling EXCEPT ![m] = s] /\ Items(s) = {}
  BY <1>2 DEF Handle, Items, GroupsInv, GroupTypes
<1>4. Taken(m, w)
  BY <1>1, HandleTakes
<1>5. \A k \in Members : \A v \in Items(outbox'[k]) :
        v.type = "NewDeviceGroup" => stored'[v.group] = NoGroup
  <2>1. \A k \in Members : Items(outbox'[k]) \subseteq Items(outbox[k])
    BY <1>4 DEF Taken
  <2> QED BY <2>1 DEF GroupsInv, OutInv, OutOk
<1>6. stored' \in [Groups -> Logs] /\ Device \notin GroupMembers(stored'["DeviceMetaGroup"])
      /\ \A h \in Groups : stored'[h] = stored[h]
  BY DEF GroupsInv, GroupTypes, ServerInv
<1>7. CleanInv'
  BY DEF CleanInv
<1>8. AnsweredWell(m, w, s)
  BY <1>3 DEF AnsweredWell
<1>9. StoredWell(m)
  BY <1>5, <1>6 DEF StoredWell
<1> QED BY <1>1, <1>7, <1>8, <1>9, ServerHandles

LEMMA HandleGroupMessageStep ==
    ASSUME GroupsInv, NEW m \in Members, HandleGroupMessage(m)
    PROVE  GroupsInv'
<1>1. PICK w : w = Head(outbox[m])
  OBVIOUS
<1>2. Handle(m) /\ w.type = "GroupMessage"
  BY <1>1 DEF HandleGroupMessage
<1>3. Taken(m, w)
  BY <1>1, <1>2, HandleTakes
<1>4. PICK g \in Groups : g = w.group
  BY <1>3, PostFacts DEF Taken
<1>5. ServerGroup(g) = stored[g] /\ stored[g] \in Logs
  BY GroupFacts
<1>6. CASE stored[g] = NoGroup
  <2>1. UNCHANGED <<handling, stored, cached>> /\ clean' = FALSE
    BY <1>1, <1>4, <1>5, <1>6 DEF HandleGroupMessage, Refused
  <2>2. cached' \in [Groups -> Logs] /\ \A h \in Groups : cached'[h] # NoGroup => cached'[h] = stored[h]
    BY <2>1 DEF GroupsInv, GroupTypes, ServerInv
  <2>3. UNCHANGED <<handling, stored>> /\ ~clean'
    BY <2>1
  <2> QED BY <1>2, <2>2, <2>3, RefusedStep
<1>7. CASE stored[g] # NoGroup
  <2>1. PICK all : all = GroupMembers(stored[g])
    OBVIOUS
  <2>2. PICK q : q = <<[receivers |-> all, message |-> w]>>
    OBVIOUS
  <2>3. PICK s : s = WithoutSender(q, m)
    OBVIOUS
  <2>4. /\ cached' = [cached EXCEPT ![g] = stored[g]] /\ handling' = [handling EXCEPT ![m] = s]
        /\ UNCHANGED <<stored, clean>>
    BY <1>1, <1>4, <1>5, <1>7, <2>1, <2>2, <2>3 DEF HandleGroupMessage, Respond, To, WithoutSender
  <2>5. all \in SUBSET Members
    <3>1. \A i \in 1 .. Len(stored[g]) : stored[g][i].new \in SUBSET Members
      BY <1>5, LogFacts DEF Entries
    <3> QED BY <1>5, <2>1, <3>1, LogFacts
  <2>6. q \in Seq(Answers) /\ Len(q) = 1 /\ q[1].receivers = all /\ q[1].message = w
    <3>1. PICK P : P = Posts
      OBVIOUS
    <3>2. [receivers |-> all, message |-> w] \in [receivers : SUBSET Members, message : P]
      BY <1>3, <2>5, <3>1 DEF Taken
    <3> QED BY <2>2, <3>1, <3>2 DEF Answers
  <2>7. /\ s \in Seq(Answers) /\ Len(s) = 1 /\ s[1].receivers = all \ {m} /\ s[1].message = w
    <3>1. /\ s \in Seq(Answers) /\ Len(s) = Len(q)
          /\ \A i \in 1 .. Len(q) : /\ s[i].receivers = q[i].receivers \ {m}
                                    /\ s[i].message = q[i].message
      BY <2>3, <2>6, RespondFacts
    <3> QED BY <2>6, <3>1
  <2>8. \A a \in Items(s) : a.receivers = all \ {m} /\ a.message = w
    BY <2>7 DEF Items
  <2>9. ASSUME NEW x \in all \ {m} PROVE ArrivesOk(x, w)'
    <3>1. w.by = m /\ w.log # NoGroup /\ (g = "DeviceGroup" => m = Device)
      BY <1>2, <1>3, <1>4 DEF Taken, OutOk
    <3>2. x # Device
      <4>1. g = "DeviceMetaGroup" => Device \notin all
        BY <2>1 DEF GroupsInv, ServerInv
      <4> QED BY <3>1, <4>1 DEF Groups
    <3> QED BY <1>2, <2>9, <3>1, <3>2 DEF ArrivesOk
  <2>10. /\ stored' \in [Groups -> Logs] /\ cached' \in [Groups -> Logs]
         /\ Device \notin GroupMembers(stored'["DeviceMetaGroup"])
         /\ (\A h \in Groups : stored'[h] = stored[h])
         /\ \A h \in Groups : cached'[h] # NoGroup => cached'[h] = stored'[h]
    BY <2>4 DEF GroupsInv, GroupTypes, ServerInv
  <2>11. \A k \in Members : \A v \in Items(outbox'[k]) :
           v.type = "NewDeviceGroup" => stored'[v.group] = NoGroup
    <3>1. \A k \in Members : Items(outbox'[k]) \subseteq Items(outbox[k])
      BY <1>3 DEF Taken
    <3> QED BY <2>4, <3>1 DEF GroupsInv, OutInv, OutOk
  <2>12. CleanInv'
    <3> SUFFICES ASSUME clean, NEW y \in Members, NEW h \in Groups
                 PROVE  \E b \in 0 .. Len(stored[h]) : SyncedFrom(y, h, b)'
      BY <2>4 DEF CleanInv
    <3>1. PICK b \in 0 .. Len(stored[h]) : SyncedFrom(y, h, b)
      BY DEF GroupsInv, CleanInv
    <3>2. \A message \in Items(outbox[y]) :
            message.type # "GroupMessage" => message \in Items(outbox'[y])
      BY <1>2, <1>3 DEF Taken
    <3>3. Underway(y) \subseteq Underway(y)'
      <4>1. UNCHANGED owed /\ handling[m] = << >>
        BY <1>2 DEF Handle
      <4> QED BY <2>4, <4>1, UnderwayHandled
    <3>4. group'[y][h] = group[y][h] /\ stored'[h] = stored[h]
      BY <1>2, <2>4 DEF Handle
    <3>5. SyncedFrom(y, h, b)'
      BY <3>1, <3>2, <3>3, <3>4, SyncedStays
    <3> QED BY <3>5
  <2>13. AnsweredWell(m, w, s)
    BY <2>4, <2>7, <2>8, <2>9 DEF AnsweredWell
  <2>14. StoredWell(m)
    BY <2>10, <2>11 DEF StoredWell
  <2> QED BY <1>1, <1>2, <2>12, <2>13, <2>14, ServerHandles
<1> QED BY <1>6, <1>7

\* The server's log of a group grows by the entry of a message of m's; as long as nothing
\* was lost or refused, every member is still going to have it.
LEMMA CommitArrives ==
    ASSUME GroupsInv, NEW m \in Members, Handle(m), NEW w, w = Head(outbox[m]),
           w.type # "GroupMessage", NEW g \in Groups, g = w.group, NEW l \in Logs, l = w.log,
           stored' = [stored EXCEPT ![g] = l], clean' = clean,
           Len(l) = Len(stored[g]) + 1, Begins(stored[g], l),
           \A x \in Members : Underway(x) \subseteq Underway(x)',
           \A x \in Members : x \in GroupMembers(stored[g]) /\ x # m => Coming(x, g, Len(l))',
           \A x \in Members : x \in l[Len(l)].new /\ x # m => Welcomed(x, g)'
    PROVE  CleanInv'
<1> SUFFICES ASSUME clean, NEW y \in Members, NEW h \in Groups
             PROVE  \E b \in 0 .. Len(stored'[h]) : SyncedFrom(y, h, b)'
  BY DEF CleanInv
<1>1. PICK b \in 0 .. Len(stored[h]) : SyncedFrom(y, h, b)
  BY DEF GroupsInv, CleanInv
<1>2. Taken(m, w)
  BY HandleTakes
<1>3. group' = group /\ stored'[g] = l /\ \A k \in Groups : k # g => stored'[k] = stored[k]
  BY DEF Handle, GroupsInv, GroupTypes
<1>4. Len(l) \in Nat /\ Len(stored[g]) \in Nat /\ stored[g] \in Logs /\ group[y][g] \in Logs
  BY GroupFacts, LogFacts
<1>5. \A message \in Items(outbox[y]) : message # w => message \in Items(outbox'[y])
  BY <1>2 DEF Taken
<1>6. (\A j : Coming(y, h, j) => Coming(y, h, j)') /\ (Welcomed(y, h) => Welcomed(y, h)')
  BY DEF Coming, Welcomed
<1>7. CASE h # g
  <2>1. SyncedFrom(y, h, b)'
    BY <1>1, <1>3, <1>5, <1>7, SyncedStays
  <2> QED BY <1>3, <1>7, <2>1
<1>8. CASE h = g /\ y = m
  <2>1. PICK n \in Nat : n = Len(l)
    BY <1>4
  <2>2. Begins(l, group[m][g]) /\ l # NoGroup
    BY <1>2 DEF Taken, OutOk
  <2>3. group[m][g] \in Logs /\ Len(group[m][g]) \in Nat
    BY GroupFacts
  <2>4. n <= Len(group[m][g]) /\ \A i \in 1 .. n : group[m][g][i] = l[i]
    BY <2>1, <2>2 DEF Begins
  <2>5. ASSUME NEW j \in n + 1 .. Len(group[m][g]) PROVE Unsent(m, g, j)'
    <3>1. j \in b + 1 .. Len(group[m][g]) /\ j # n
      <4>1. b \in Nat /\ b < n
        BY <1>1, <1>4, <1>8, <2>1
      <4> QED BY <2>1, <2>3, <4>1
    <3>2. Unsent(m, g, j)
      BY <1>1, <1>8, <3>1 DEF SyncedFrom
    <3>3. PICK v \in Items(outbox[m]) : v.type # "GroupMessage" /\ v.group = g /\ Len(v.log) = j
      BY <3>2, Zenon DEF Unsent
    <3>4. v \in Items(outbox'[m])
      BY <1>5, <1>8, <2>1, <3>1, <3>3
    <3> QED BY <3>3, <3>4, Zenon DEF Unsent, Items
  <2>6. \A j \in n + 1 .. Len(l) : FALSE
    BY <2>1
  <2>7. n > 0 /\ group[m][g] # NoGroup
    BY <1>4, <2>1, <2>3, <2>4, LogFacts
  <2>8. SyncedFrom(m, g, n)'
    BY <1>3, <2>4, <2>5, <2>6, <2>7 DEF SyncedFrom
  <2>9. n \in 0 .. Len(stored'[g])
    BY <1>3, <2>1
  <2> QED BY <1>8, <2>8, <2>9
<1>9. CASE h = g /\ y # m
  <2>1. b \in Nat /\ b \in 0 .. Len(l) /\ b <= Len(stored[g])
    BY <1>1, <1>4, <1>9
  <2>2. \A i \in 1 .. Len(stored[g]) : l[i] = stored[g][i]
    BY DEF Begins
  <2>3. b <= Len(group[y][g]) /\ \A i \in 1 .. b : group[y][g][i] = l[i]
    <3>1. \A i \in 1 .. b : i \in 1 .. Len(stored[g])
      BY <1>4, <2>1
    <3> QED BY <1>1, <1>9, <2>2, <3>1 DEF SyncedFrom
  <2>4. outbox'[y] = outbox[y]
    BY <1>2, <1>9 DEF Taken
  <2>5. \A j : Unsent(y, g, j) => Unsent(y, g, j)'
    BY <2>4, Zenon DEF Unsent, Items
  <2>6. ASSUME NEW j \in b + 1 .. Len(l), NEW i \in 1 .. j - 1, y \in l[i].new
        PROVE  Coming(y, g, j)'
    <3>1. i \in 1 .. Len(stored[g]) /\ l[i] = stored[g][i]
      BY <1>4, <2>1, <2>2
    <3>2. CASE j = Len(l)
      <4>1. y \in GroupMembers(stored[g])
        BY <1>4, <2>6, <3>1, LogFacts
      <4> QED BY <1>9, <3>2, <4>1
    <3>3. CASE j # Len(l)
      <4>1. j \in b + 1 .. Len(stored[g])
        BY <1>4, <2>1, <3>3
      <4>2. Coming(y, g, j)
        BY <1>1, <1>9, <2>6, <3>1, <4>1 DEF SyncedFrom
      <4> QED BY <1>6, <1>9, <4>2
    <3> QED BY <3>2, <3>3
  <2>7. ASSUME group[y][g] = NoGroup, y \in GroupMembers(l) PROVE Welcomed(y, g)'
    <3>1. PICK i \in 1 .. Len(l) : y \in l[i].new
      BY <2>7, LogFacts
    <3>2. CASE i = Len(l)
      BY <1>9, <3>1, <3>2
    <3>3. CASE i # Len(l)
      <4>1. i \in 1 .. Len(stored[g])
        BY <1>4, <3>3
      <4>2. y \in GroupMembers(stored[g])
        BY <1>4, <2>2, <3>1, <4>1, LogFacts
      <4>3. Welcomed(y, g)
        BY <1>1, <1>9, <2>7, <4>2 DEF SyncedFrom
      <4> QED BY <1>6, <1>9, <4>3
    <3> QED BY <3>2, <3>3
  <2>8. \A j \in b + 1 .. Len(group[y][g]) : Unsent(y, g, j)'
    BY <1>1, <1>9, <2>5 DEF SyncedFrom
  <2>9. SyncedFrom(y, g, b)'
    <3>1. GroupMembers(stored[g])' = GroupMembers(l)
      BY <1>3 DEF GroupMembers
    <3> QED BY <1>3, <2>3, <2>6, <2>7, <2>8, <3>1 DEF SyncedFrom
  <2> QED BY <1>3, <1>9, <2>1, <2>9
<1> QED BY <1>7, <1>8, <1>9

LEMMA MembersAre ==
    ASSUME NEW l \in Logs
    PROVE  GroupMembers(l) \in SUBSET Members
<1>1. \A i \in 1 .. Len(l) : l[i].new \in SUBSET Members
  BY LogFacts DEF Entries
<1> QED BY <1>1, LogFacts

LEMMA WelcomeFacts ==
    ASSUME NEW w \in Posts
    PROVE  /\ Welcome(w) \in Posts /\ Welcome(w).type = "Welcome"
           /\ Welcome(w).group = w.group /\ Welcome(w).log = w.log
<1>1. PICK L : L = Logs
  OBVIOUS
<1>2. w.group \in Groups /\ w.log \in L
  BY <1>1, PostFacts
<1>3. PICK v : v = Welcome(w)
  OBVIOUS
<1>4. v = [type |-> "Welcome", group |-> w.group, log |-> w.log]
  BY <1>3 DEF Welcome
<1>5. v \in [type : {"Welcome"}, group : Groups, log : L]
  BY <1>2, <1>4
<1> QED BY <1>1, <1>3, <1>4, <1>5 DEF Posts, Welcomes

LEMMA AnswerFacts ==
    ASSUME NEW all \in SUBSET Members, NEW w \in Posts
    PROVE  To(all, w) \in Answers /\ To(all, w).receivers = all /\ To(all, w).message = w
BY DEF To, Answers

LEMMA WelcomeArrivesOk ==
    ASSUME NEW x, NEW v, v.type = "Welcome", v.log # NoGroup, x # Device,
           x \in GroupMembers(v.log), Begins(v.log, stored'[v.group])
    PROVE  ArrivesOk(x, v)'
<1>1. GroupMembers(v.log)' = GroupMembers(v.log)
  BY DEF GroupMembers
<1>2. Begins(v.log, stored[v.group])' <=> Begins(v.log, stored'[v.group])
  BY DEF Begins
<1> QED BY <1>1, <1>2 DEF ArrivesOk

LEMMA CommitArrivesOk ==
    ASSUME NEW x, NEW v, v.type = "AddToGroup", v.log # NoGroup, Len(v.log) >= 2,
           CheckCommit(v) => Begins(v.log, stored'[v.group])
    PROVE  ArrivesOk(x, v)'
<1>1. CheckCommit(v)' <=> CheckCommit(v)
  BY DEF CheckCommit, Last, MayEdit, MayBeAdded
<1>2. Begins(v.log, stored[v.group])' <=> Begins(v.log, stored'[v.group])
  BY DEF Begins
<1> QED BY <1>1, <1>2 DEF ArrivesOk

LEMMA HandleNewGroupStep ==
    ASSUME GroupsInv, NEW m \in Members, HandleNewGroup(m)
    PROVE  GroupsInv'
<1>1. PICK w : w = Head(outbox[m])
  OBVIOUS
<1>2. Handle(m) /\ w.type = "NewDeviceGroup"
  BY <1>1 DEF HandleNewGroup
<1>3. Taken(m, w)
  BY <1>1, <1>2, HandleTakes
<1>4. PICK g \in Groups, l \in Logs : g = w.group /\ l = w.log
  BY <1>3, PostFacts DEF Taken
<1>5. PICK all \in SUBSET Members : all = GroupMembers(l)
  BY MembersAre
<1>6. CASE all # RequiredMembers(g)
  <2>1. UNCHANGED <<handling, stored, cached>> /\ clean' = FALSE
    BY <1>1, <1>4, <1>5, <1>6 DEF HandleNewGroup, Refused
  <2>2. cached' \in [Groups -> Logs] /\ \A h \in Groups : cached'[h] # NoGroup => cached'[h] = stored[h]
    BY <2>1 DEF GroupsInv, GroupTypes, ServerInv
  <2>3. UNCHANGED <<handling, stored>> /\ ~clean'
    BY <2>1
  <2> QED BY <1>2, <2>2, <2>3, RefusedStep
<1>7. CASE all = RequiredMembers(g)
  <2>1. PICK q : q = IF all = {m} THEN << >> ELSE <<To(all, Welcome(w))>>
    OBVIOUS
  <2>2. PICK s : s = WithoutSender(q, m)
    OBVIOUS
  <2>3. /\ stored' = [stored EXCEPT ![g] = l] /\ UNCHANGED cached
        /\ handling' = [handling EXCEPT ![m] = s] /\ UNCHANGED clean
    BY <1>1, <1>4, <1>5, <1>7, <2>1, <2>2
       DEF HandleNewGroup, AddGroup, Respond, WithoutSender
  <2>4. w \in Posts /\ w \in Items(outbox[m]) /\ OutOk(m, w)
    BY <1>3 DEF Taken
  <2>5. /\ Len(l) = 1 /\ m \in Founders(g) /\ stored[g] = NoGroup /\ l # NoGroup
        /\ Begins(l, group[m][g])
    BY <1>2, <1>4, <2>4 DEF OutOk
  <2>6. Len(stored[g]) = 0 /\ Begins(stored[g], l)
    BY <2>5, LogFacts DEF Begins, NoGroup
  <2>7. stored' \in [Groups -> Logs] /\ stored'[g] = l /\ \A h \in Groups : h # g => stored'[h] = stored[h]
    BY <2>3 DEF GroupsInv, GroupTypes
  <2>8. /\ s \in Seq(Answers) /\ \A a \in Items(s) : a.receivers = all \ {m} /\ a.message = Welcome(w)
        /\ all # {m} => \E a \in Items(s) : a.receivers = all \ {m} /\ a.message = Welcome(w)
    <3>1. CASE all = {m}
      <4>1. q \in Seq(Answers) /\ Len(q) = 0
        BY <2>1, <3>1
      <4>2. s \in Seq(Answers) /\ Len(s) = 0
        BY <2>2, <4>1, RespondFacts
      <4>3. Items(s) = {}
        BY <4>2 DEF Items
      <4> QED BY <3>1, <4>2, <4>3
    <3>2. CASE all # {m}
      <4>1. PICK e \in Answers : e = To(all, Welcome(w)) /\ e.receivers = all /\ e.message = Welcome(w)
        BY <2>4, WelcomeFacts, AnswerFacts
      <4>2. q \in Seq(Answers) /\ Len(q) = 1 /\ q[1] = e
        BY <2>1, <3>2, <4>1
      <4>3. /\ s \in Seq(Answers) /\ Len(s) = Len(q)
            /\ \A i \in 1 .. Len(q) : /\ s[i].receivers = q[i].receivers \ {m}
                                      /\ s[i].message = q[i].message
        BY <2>2, <4>2, RespondFacts
      <4>4. Len(s) = 1 /\ s[1].receivers = all \ {m} /\ s[1].message = Welcome(w)
        BY <4>1, <4>2, <4>3
      <4>5. s[1] \in Items(s) /\ \A a \in Items(s) : a = s[1]
        BY <4>4 DEF Items
      <4> QED BY <4>3, <4>4, <4>5
    <3> QED BY <3>1, <3>2
  <2>9. Device \notin all \ {m} /\ (g = "DeviceMetaGroup" => Device \notin all)
    BY <1>7, <2>5 DEF Groups, RequiredMembers, Founders
  <2>10. Begins(l, l)
    BY <2>5 DEF Begins
  <2>11. ASSUME NEW x \in all \ {m} PROVE ArrivesOk(x, Welcome(w))'
    <3>1. PICK v : v = Welcome(w)
      OBVIOUS
    <3>2. v.type = "Welcome" /\ v.group = g /\ v.log = l
      BY <1>4, <2>4, <3>1, WelcomeFacts
    <3>3. x # Device /\ x \in GroupMembers(l) /\ Begins(l, stored'[g])
      BY <1>5, <2>7, <2>9, <2>10, <2>11
    <3>4. ArrivesOk(x, v)'
      BY <2>5, <3>2, <3>3, WelcomeArrivesOk
    <3> QED BY <3>1, <3>4
  <2>12. ASSUME NEW k \in Members, NEW v \in Items(outbox'[k]), v.type = "NewDeviceGroup"
         PROVE  stored'[v.group] = NoGroup
    <3>1. v \in Items(outbox[k])
      BY <1>3 DEF Taken
    <3>2. OutOk(k, v)
      BY <3>1 DEF GroupsInv, OutInv
    <3>3. v.group \in Groups /\ k \in Founders(v.group) /\ stored[v.group] = NoGroup
      BY <2>12, <3>1, <3>2, FlyingTypes, PostFacts DEF OutOk
    <3>4. v.group # g
      <4> SUFFICES ASSUME v.group = g PROVE FALSE
        OBVIOUS
      <4>1. k = m
        BY <2>5, <3>3, FounderFacts
      <4> QED BY <1>2, <1>3, <1>4, <2>12, <4>1 DEF Taken
    <3> QED BY <2>7, <3>3, <3>4
  <2>13. \A h \in Groups : cached'[h] # NoGroup => cached'[h] = stored'[h]
    BY <2>3, <2>5, <2>7 DEF GroupsInv, ServerInv
  <2>14. Device \notin GroupMembers(stored'["DeviceMetaGroup"])
    <3>1. CASE g = "DeviceMetaGroup"
      BY <1>5, <2>7, <2>9, <3>1
    <3>2. CASE g # "DeviceMetaGroup"
      BY <2>7, <3>2 DEF Groups, GroupsInv, ServerInv
    <3> QED BY <3>1, <3>2
  <2>15. ASSUME NEW x \in Members
         PROVE  /\ Underway(x) \subseteq Underway(x)'
                /\ \A a \in Items(s) : x \in a.receivers => a.message \in Underway(x)'
    <3>1. UNCHANGED owed /\ handling[m] = << >>
      BY <1>2 DEF Handle
    <3> QED BY <2>3, <3>1, UnderwayHandled
  <2>16. CleanInv'
    <3>1. Len(l) = Len(stored[g]) + 1
      BY <2>5, <2>6
    <3>2. ASSUME NEW x \in Members, x \in l[Len(l)].new, x # m PROVE Welcomed(x, g)'
      <4>1. x \in all
        BY <1>5, <2>5, <3>2, LogFacts
      <4>2. PICK a \in Items(s) : a.receivers = all \ {m} /\ a.message = Welcome(w)
        BY <2>8, <3>2, <4>1
      <4>3. Welcome(w) \in Underway(x)'
        BY <2>15, <3>2, <4>1, <4>2
      <4>4. Welcome(w).type = "Welcome" /\ Welcome(w).group = g
        BY <1>4, <2>4, WelcomeFacts
      <4> QED BY <4>3, <4>4 DEF Welcomed
    <3>3. \A x : x \notin GroupMembers(stored[g])
      <4>1. stored[g] \in Logs
        BY GroupFacts
      <4>2. \A i \in 1 .. Len(stored[g]) : FALSE
        BY <2>6
      <4> QED BY <4>1, <4>2, LogFacts
    <3>4. w.type # "GroupMessage" /\ clean' = clean
      BY <1>2, <2>3
    <3> QED BY <1>1, <1>2, <1>4, <2>3, <2>6, <2>15, <3>1, <3>2, <3>3, <3>4, CommitArrives
  <2>17. AnsweredWell(m, w, s)
    BY <2>3, <2>4, <2>8, <2>11, WelcomeFacts DEF AnsweredWell
  <2>18. \A h \in Groups :
           \/ stored'[h] = stored[h]
           \/ /\ stored'[h] # NoGroup /\ Begins(stored[h], stored'[h])
              /\ Begins(stored'[h], group[m][h])
    BY <2>5, <2>6, <2>7
  <2>19. cached' \in [Groups -> Logs]
    BY <2>3 DEF GroupsInv, GroupTypes
  <2>20. StoredWell(m)
    BY <2>7, <2>12, <2>13, <2>14, <2>18, <2>19 DEF StoredWell
  <2> QED BY <1>1, <1>2, <2>16, <2>17, <2>20, ServerHandles
<1> QED BY <1>6, <1>7

LEMMA HandleAddToGroupStep ==
    ASSUME GroupsInv, NEW m \in Members, HandleAddToGroup(m)
    PROVE  GroupsInv'
<1>1. PICK w : w = Head(outbox[m])
  OBVIOUS
<1>2. Handle(m) /\ w.type = "AddToGroup"
  BY <1>1 DEF HandleAddToGroup
<1>3. Taken(m, w)
  BY <1>1, <1>2, HandleTakes
<1>4. w \in Posts /\ w \in Items(outbox[m]) /\ OutOk(m, w)
  BY <1>3 DEF Taken
<1>5. PICK g \in Groups, l \in Logs : g = w.group /\ l = w.log
  BY <1>4, PostFacts
<1>6. ServerGroup(g) = stored[g] /\ stored[g] \in Logs
  BY GroupFacts
<1>7. Len(l) >= 2 /\ l # NoGroup /\ Begins(l, group[m][g]) /\ Len(l) \in Nat
  BY <1>2, <1>4, <1>5, LogFacts DEF OutOk
<1>8. PICK all \in SUBSET Members : all = GroupMembers(stored[g])
  BY <1>6, MembersAre
<1>12. \/ /\ ~Follows(w, stored[g]) /\ clean' = FALSE
          /\ cached' = [cached EXCEPT ![g] = stored[g]] /\ UNCHANGED <<handling, stored>>
       \/ /\ Follows(w, stored[g]) /\ ~CheckCommit(w) /\ clean' = FALSE
          /\ cached' = [cached EXCEPT ![g] = stored[g]] /\ UNCHANGED stored
          /\ Respond(m, <<To(GroupMembers(stored[g]), w)>>)
       \/ /\ Follows(w, stored[g]) /\ CheckCommit(w) /\ clean' = clean /\ Merge(g, l)
          /\ Respond(m, <<To(GroupMembers(stored[g]), w), To(Last(l).new, Welcome(w))>>)
  BY <1>1, <1>5, <1>6, Zenon DEF HandleAddToGroup
<1>9. CASE ~Follows(w, stored[g])
  <2>1. clean' = FALSE /\ cached' = [cached EXCEPT ![g] = stored[g]] /\ UNCHANGED <<handling, stored>>
    BY <1>9, <1>12
  <2>2. cached' \in [Groups -> Logs] /\ \A h \in Groups : cached'[h] # NoGroup => cached'[h] = stored[h]
    BY <1>6, <2>1 DEF GroupsInv, GroupTypes, ServerInv
  <2>3. UNCHANGED <<handling, stored>> /\ ~clean'
    BY <2>1
  <2> QED BY <1>2, <2>2, <2>3, RefusedStep
<1>10. CASE Follows(w, stored[g]) /\ ~CheckCommit(w)
  <2>0. PICK q : q = <<To(all, w)>>
    OBVIOUS
  <2>1. PICK s : s = WithoutSender(q, m)
    OBVIOUS
  <2>2. /\ clean' = FALSE /\ cached' = [cached EXCEPT ![g] = stored[g]] /\ UNCHANGED stored
        /\ handling' = [handling EXCEPT ![m] = s]
    <3>1. clean' = FALSE /\ cached' = [cached EXCEPT ![g] = stored[g]] /\ UNCHANGED stored
          /\ Respond(m, <<To(GroupMembers(stored[g]), w)>>)
      BY <1>10, <1>12
    <3>2. Respond(m, q)
      BY <1>8, <2>0, <3>1
    <3> QED BY <2>1, <3>1, <3>2 DEF Respond, WithoutSender
  <2>3. PICK e \in Answers : e = To(all, w) /\ e.receivers = all /\ e.message = w
    BY <1>4, AnswerFacts
  <2>4. q \in Seq(Answers) /\ Len(q) = 1 /\ q[1] = e
    BY <2>0, <2>3
  <2>5. /\ s \in Seq(Answers) /\ Len(s) = Len(q)
        /\ \A i \in 1 .. Len(q) : /\ s[i].receivers = q[i].receivers \ {m}
                                  /\ s[i].message = q[i].message
    BY <2>1, <2>4, RespondFacts
  <2>6. \A a \in Items(s) : a.message = w
    BY <2>3, <2>4, <2>5 DEF Items
  <2>7. \A x : ArrivesOk(x, w)'
    BY <1>2, <1>5, <1>7, <1>10, CommitArrivesOk
  <2>8. AnsweredWell(m, w, s)
    BY <2>2, <2>5, <2>6, <2>7 DEF AnsweredWell
  <2>9. StoredWell(m)
    <3>1. /\ stored' \in [Groups -> Logs] /\ cached' \in [Groups -> Logs]
          /\ Device \notin GroupMembers(stored'["DeviceMetaGroup"])
          /\ (\A h \in Groups : stored'[h] = stored[h])
          /\ \A h \in Groups : cached'[h] # NoGroup => cached'[h] = stored'[h]
      BY <1>6, <2>2 DEF GroupsInv, GroupTypes, ServerInv
    <3>2. \A k \in Members : \A v \in Items(outbox'[k]) :
            v.type = "NewDeviceGroup" => stored'[v.group] = NoGroup
      <4>1. \A k \in Members : Items(outbox'[k]) \subseteq Items(outbox[k])
        BY <1>3 DEF Taken
      <4> QED BY <2>2, <4>1 DEF GroupsInv, OutInv, OutOk
    <3> QED BY <3>1, <3>2 DEF StoredWell
  <2>10. CleanInv'
    BY <2>2 DEF CleanInv
  <2> QED BY <1>1, <1>2, <2>8, <2>9, <2>10, ServerHandles
<1>11. CASE Follows(w, stored[g]) /\ CheckCommit(w)
  <2>1. PICK new : new = Last(l).new
    OBVIOUS
  <2>0. PICK q : q = <<To(all, w), To(new, Welcome(w))>>
    OBVIOUS
  <2>2. PICK s : s = WithoutSender(q, m)
    OBVIOUS
  <2>3. /\ clean' = clean /\ cached' = [cached EXCEPT ![g] = l] /\ stored' = [stored EXCEPT ![g] = l]
        /\ handling' = [handling EXCEPT ![m] = s]
    <3>1. /\ clean' = clean /\ Merge(g, l)
          /\ Respond(m, <<To(GroupMembers(stored[g]), w), To(Last(l).new, Welcome(w))>>)
      BY <1>11, <1>12
    <3>2. Respond(m, q)
      BY <1>8, <2>0, <2>1, <3>1
    <3> QED BY <2>2, <3>1, <3>2 DEF Merge, Respond, WithoutSender
  <2>4. Front(l) = stored[g] /\ stored[g] # NoGroup
    BY <1>5, <1>11 DEF Follows
  <2>5. /\ Len(stored[g]) = Len(l) - 1 /\ (\A i \in 1 .. Len(l) - 1 : stored[g][i] = l[i])
        /\ Last(l) = l[Len(l)] /\ Last(l) \in Entries
    BY <1>7, <2>4, FrontFacts
  <2>6. Len(l) = Len(stored[g]) + 1 /\ Begins(stored[g], l)
    BY <1>7, <2>5 DEF Begins
  <2>7. new \in SUBSET Members /\ \A x \in new : MayBeAdded(x)
    BY <1>5, <1>11, <2>1, <2>5 DEF CheckCommit, Entries
  <2>8. Device \notin new
    BY <2>7, GroupsAssumption DEF MayBeAdded
  <2>9. stored' \in [Groups -> Logs] /\ stored'[g] = l /\ \A h \in Groups : h # g => stored'[h] = stored[h]
    BY <2>3 DEF GroupsInv, GroupTypes
  <2>10. PICK e \in Answers, f \in Answers :
           /\ e = To(all, w) /\ e.receivers = all /\ e.message = w
           /\ f = To(new, Welcome(w)) /\ f.receivers = new /\ f.message = Welcome(w)
    BY <1>4, <2>7, WelcomeFacts, AnswerFacts
  <2>11. q \in Seq(Answers) /\ Len(q) = 2 /\ q[1] = e /\ q[2] = f
    BY <2>0, <2>10
  <2>12. /\ s \in Seq(Answers) /\ Len(s) = Len(q)
         /\ \A i \in 1 .. Len(q) : /\ s[i].receivers = q[i].receivers \ {m}
                                   /\ s[i].message = q[i].message
    BY <2>2, <2>11, RespondFacts
  <2>13. /\ Len(s) = 2 /\ s[1].receivers = all \ {m} /\ s[1].message = w
         /\ s[2].receivers = new \ {m} /\ s[2].message = Welcome(w)
    BY <2>10, <2>11, <2>12
  <2>14. s[1] \in Items(s) /\ s[2] \in Items(s) /\ \A a \in Items(s) : a = s[1] \/ a = s[2]
    <3>1. \A i \in 1 .. Len(s) : i = 1 \/ i = 2
      BY <2>13
    <3> QED BY <2>13, <3>1 DEF Items
  <2>15. Begins(l, l)
    BY <1>7 DEF Begins
  <2>16. \A x : ArrivesOk(x, w)'
    BY <1>2, <1>5, <1>7, <2>9, <2>15, CommitArrivesOk
  <2>17. ASSUME NEW x \in new PROVE ArrivesOk(x, Welcome(w))'
    <3>1. PICK v : v = Welcome(w)
      OBVIOUS
    <3>2. v.type = "Welcome" /\ v.group = g /\ v.log = l
      BY <1>4, <1>5, <3>1, WelcomeFacts
    <3>3. Len(l) \in 1 .. Len(l) /\ x \in l[Len(l)].new
      BY <1>7, <2>1, <2>5, <2>17
    <3>4. x # Device /\ x \in GroupMembers(l) /\ Begins(l, stored'[g])
      BY <2>8, <2>9, <2>15, <2>17, <3>3, LogFacts
    <3>5. ArrivesOk(x, v)'
      BY <1>7, <3>2, <3>4, WelcomeArrivesOk
    <3> QED BY <3>1, <3>5
  <2>18. AnsweredWell(m, w, s)
    BY <1>2, <1>4, <2>3, <2>12, <2>13, <2>14, <2>16, <2>17, WelcomeFacts DEF AnsweredWell
  <2>19. StoredWell(m)
    <3>1. cached' \in [Groups -> Logs] /\ \A h \in Groups : cached'[h] # NoGroup => cached'[h] = stored'[h]
      BY <2>3, <2>9 DEF GroupsInv, GroupTypes, ServerInv
    <3>2. \A h \in Groups :
            \/ stored'[h] = stored[h]
            \/ /\ stored'[h] # NoGroup /\ Begins(stored[h], stored'[h])
               /\ Begins(stored'[h], group[m][h])
      BY <1>7, <2>6, <2>9
    <3>3. Device \notin GroupMembers(stored'["DeviceMetaGroup"])
      <4>1. CASE g = "DeviceMetaGroup"
        <5> SUFFICES ASSUME Device \in GroupMembers(l) PROVE FALSE
          BY <2>9, <4>1
        <5>1. PICK i \in 1 .. Len(l) : Device \in l[i].new
          BY LogFacts
        <5>2. i # Len(l)
          BY <2>1, <2>5, <2>8, <5>1
        <5>3. i \in 1 .. Len(l) - 1
          BY <1>7, <5>2
        <5>4. i \in 1 .. Len(stored[g]) /\ Device \in stored[g][i].new
          BY <2>5, <5>1, <5>3
        <5>5. Device \in GroupMembers(stored[g])
          BY <1>6, <5>4, LogFacts
        <5> QED BY <4>1, <5>5 DEF GroupsInv, ServerInv
      <4>2. CASE g # "DeviceMetaGroup"
        BY <2>9, <4>2 DEF Groups, GroupsInv, ServerInv
      <4> QED BY <4>1, <4>2
    <3>4. ASSUME NEW k \in Members, NEW v \in Items(outbox'[k]), v.type = "NewDeviceGroup"
          PROVE  stored'[v.group] = NoGroup
      <4>1. v \in Items(outbox[k])
        BY <1>3 DEF Taken
      <4>2. OutOk(k, v)
        BY <4>1 DEF GroupsInv, OutInv
      <4>3. v.group \in Groups /\ stored[v.group] = NoGroup
        BY <3>4, <4>1, <4>2, FlyingTypes, PostFacts DEF OutOk
      <4> QED BY <2>4, <2>9, <4>3
    <3> QED BY <2>9, <3>1, <3>2, <3>3, <3>4 DEF StoredWell
  <2>20. ASSUME NEW x \in Members
         PROVE  /\ Underway(x) \subseteq Underway(x)'
                /\ \A a \in Items(s) : x \in a.receivers => a.message \in Underway(x)'
    <3>1. UNCHANGED owed /\ handling[m] = << >>
      BY <1>2 DEF Handle
    <3> QED BY <2>3, <3>1, UnderwayHandled
  <2>21. CleanInv'
    <3>1. ASSUME NEW x \in Members, x \in GroupMembers(stored[g]), x # m
          PROVE  Coming(x, g, Len(l))'
      <4>1. w \in Underway(x)'
        BY <1>8, <2>13, <2>14, <2>20, <3>1
      <4> QED BY <1>2, <1>5, <4>1 DEF Coming
    <3>2. ASSUME NEW x \in Members, x \in l[Len(l)].new, x # m PROVE Welcomed(x, g)'
      <4>1. x \in new
        BY <2>1, <2>5, <3>2
      <4>2. Welcome(w) \in Underway(x)'
        BY <2>13, <2>14, <2>20, <3>2, <4>1
      <4>3. Welcome(w).type = "Welcome" /\ Welcome(w).group = g
        BY <1>4, <1>5, WelcomeFacts
      <4> QED BY <4>2, <4>3 DEF Welcomed
    <3>3. w.type # "GroupMessage"
      BY <1>2
    <3> QED BY <1>1, <1>2, <1>5, <2>3, <2>6, <2>20, <3>1, <3>2, <3>3, CommitArrives
  <2> QED BY <1>1, <1>2, <2>18, <2>19, <2>21, ServerHandles
<1> QED BY <1>9, <1>10, <1>11

\* Nothing reaches a member or the server; something may be lost, which shows in clean.
LEMMA NothingHappens ==
    ASSUME GroupsInv, UNCHANGED <<group, gen, stored, read, operations>>,
           outbox' \in [Members -> Seq(Posts)], handling' \in [Members -> Seq(Answers)],
           cached' \in [Groups -> Logs], owed' \in [Members -> Seq(Posts)],
           tried' \in [Members -> Nat],
           \A h \in Groups : cached'[h] # NoGroup => cached'[h] = stored[h],
           \A k \in Members : outbox'[k] = outbox[k] \/ outbox'[k] = << >>,
           \A x \in Members : Underway(x)' \subseteq Underway(x),
           clean' => clean /\ \A y \in Members : outbox'[y] = outbox[y] /\ Underway(y) \subseteq Underway(y)'
    PROVE  GroupsInv'
<1>1. UNCHANGED <<group, stored>> /\ UNCHANGED read /\ UNCHANGED stored
  OBVIOUS
<1>2. GroupTypes'
  BY DEF GroupsInv, GroupTypes
<1>3. LogInv' /\ ServerInv'
  BY <1>1, LogsSame
<1>4. ArriveInv'
  BY <1>1, ArriveSame
<1>5. NewTypes /\ \A k \in Members, h \in Groups : Grows(k, h)
  BY DEF NewTypes, Grows, GroupsInv, GroupTypes
<1>6. \A k \in Members : Items(outbox'[k]) \subseteq Items(outbox[k])
  <2>1. Items(<< >>) = {}
    BY DEF Items
  <2> QED BY <2>1
<1>7. OutInv'
  <2>1. ASSUME NEW k \in Members, NEW message \in Items(outbox'[k]) PROVE OutOk(k, message)'
    BY <1>1, <1>6, OutSame DEF GroupsInv, OutInv
  <2>2. ASSUME NEW k \in Members PROVE CreatesOnce(outbox'[k])
    <3>1. CreatesOnce(<< >>)
      BY DEF CreatesOnce
    <3> QED BY <3>1 DEF GroupsInv, OutInv
  <2>3. \A k \in Members : CreatesOnce(outbox[k])' <=> CreatesOnce(outbox'[k])
    BY DEF CreatesOnce
  <2>4. \A k \in Members : Items(outbox[k])' = Items(outbox'[k])
    BY DEF Items
  <2> QED BY <2>1, <2>2, <2>3, <2>4, Zenon DEF OutInv
<1>8. Flying' \subseteq Flying
  <2> SUFFICES ASSUME NEW message \in Flying' PROVE message \in Flying
    OBVIOUS
  <2>1. message.type = "GroupMessage"
    BY FlyingAre
  <2>2. PICK k \in Members : message \in Items(outbox'[k]) \/ message \in Underway(k)'
    BY FlyingAre
  <2>3. message \in Items(outbox[k]) \/ message \in Underway(k)
    BY <1>6, <2>2
  <2> QED BY <2>1, <2>3, FlyingAre
<1>9. SentInOrder' /\ ReadBefore' /\ ReadInOrder'
  <2>1. operations' \in Nat /\ operations <= operations'
    BY DEF GroupsInv, GroupTypes
  <2> QED BY <1>1, <1>5, <1>8, <2>1, FlyingTypes, ContentStays
<1>10. CleanInv'
  <2> SUFFICES ASSUME clean', NEW y \in Members, NEW h \in Groups
               PROVE  \E b \in 0 .. Len(stored[h]) : SyncedFrom(y, h, b)'
    BY <1>1 DEF CleanInv
  <2>1. PICK b \in 0 .. Len(stored[h]) : SyncedFrom(y, h, b)
    BY DEF GroupsInv, CleanInv
  <2>2. group'[y][h] = group[y][h] /\ stored'[h] = stored[h] /\ outbox'[y] = outbox[y]
        /\ Underway(y) \subseteq Underway(y)'
    OBVIOUS
  <2>3. SyncedFrom(y, h, b)'
    BY <2>1, <2>2, SyncedStays
  <2> QED BY <2>3
<1> QED BY <1>2, <1>3, <1>4, <1>7, <1>9, <1>10 DEF GroupsInv

LEMMA StoreStep ==
    ASSUME GroupsInv, NEW m \in Members, Store(m)
    PROVE  GroupsInv'
<1>1. PICK s, e, t : s = handling[m] /\ e = Head(s) /\ t = Tail(s)
  OBVIOUS
<1>2. /\ s # << >> /\ handling' = [handling EXCEPT ![m] = t]
      /\ owed' = [x \in Members |-> IF x \in e.receivers THEN Append(owed[x], e.message) ELSE owed[x]]
  BY <1>1 DEF Store
<1>3. UNCHANGED <<group, gen, running, outbox, stored, cached, tried, read, operations, faults, clean>>
  BY DEF Store
<1>4. handling \in [Members -> Seq(Answers)] /\ owed \in [Members -> Seq(Posts)]
  BY DEF GroupsInv, GroupTypes
<1>5. t \in Seq(Answers) /\ e \in Answers /\ Items(s) = {e} \cup Items(t)
  BY <1>1, <1>2, <1>4, ItemsTail
<1>6. e.message \in Posts
  BY <1>5 DEF Answers
<1>7. /\ handling' \in [Members -> Seq(Answers)] /\ handling'[m] = t
      /\ \A k \in Members : k # m => handling'[k] = handling[k]
  BY <1>2, <1>4, <1>5
<1>8. \A x \in Members : Append(owed[x], e.message) \in Seq(Posts)
                         /\ Items(Append(owed[x], e.message)) = Items(owed[x]) \cup {e.message}
  BY <1>4, <1>6, ItemsAppend
<1>9. owed' \in [Members -> Seq(Posts)]
  BY <1>2, <1>4, <1>8
<1>10. \A x \in Members :
         Items(owed'[x]) = IF x \in e.receivers THEN Items(owed[x]) \cup {e.message} ELSE Items(owed[x])
  BY <1>2, <1>8
<1>11. ASSUME NEW x \in Members PROVE Underway(x)' = Underway(x)
  <2>1. ASSUME NEW message \in Underway(x) PROVE message \in Underway(x)'
    <3>1. \/ message \in Items(owed[x])
          \/ \E k \in Members : \E a \in Items(handling[k]) : x \in a.receivers /\ message = a.message
      BY UnderwayAre
    <3>2. CASE message \in Items(owed[x])
      <4>1. message \in Items(owed'[x])
        BY <1>10, <3>2
      <4> QED BY <4>1, UnderwayNow
    <3>3. ASSUME NEW k \in Members, NEW a \in Items(handling[k]), x \in a.receivers,
                 message = a.message
          PROVE  message \in Underway(x)'
      <4>1. CASE k # m \/ a # e
        <5>1. a \in Items(handling'[k])
          BY <1>1, <1>5, <1>7, <3>3, <4>1
        <5> QED BY <3>3, <5>1, UnderwayNow
      <4>2. CASE a = e
        <5>1. message \in Items(owed'[x])
          BY <1>10, <3>3, <4>2
        <5> QED BY <5>1, UnderwayNow
      <4> QED BY <4>1, <4>2
    <3> QED BY <3>1, <3>2, <3>3
  <2>2. ASSUME NEW message \in Underway(x)' PROVE message \in Underway(x)
    <3>1. \/ message \in Items(owed'[x])
          \/ \E k \in Members : \E a \in Items(handling'[k]) : x \in a.receivers /\ message = a.message
      BY UnderwayNow
    <3>2. e \in Items(handling[m])
      BY <1>1, <1>5
    <3>3. CASE message \in Items(owed'[x])
      <4>1. message \in Items(owed[x]) \/ (x \in e.receivers /\ message = e.message)
        BY <1>10, <3>3
      <4> QED BY <3>2, <4>1, UnderwayAre
    <3>4. ASSUME NEW k \in Members, NEW a \in Items(handling'[k]), x \in a.receivers,
                 message = a.message
          PROVE  message \in Underway(x)
      <4>1. a \in Items(handling[k])
        BY <1>1, <1>5, <1>7, <3>4
      <4> QED BY <3>4, <4>1, UnderwayAre
    <3> QED BY <3>1, <3>3, <3>4
  <2> QED BY <2>1, <2>2
<1>12. /\ outbox' \in [Members -> Seq(Posts)] /\ cached' \in [Groups -> Logs]
       /\ tried' \in [Members -> Nat]
       /\ (\A h \in Groups : cached'[h] # NoGroup => cached'[h] = stored[h])
       /\ UNCHANGED <<group, gen, stored, read, operations>>
       /\ (\A k \in Members : outbox'[k] = outbox[k]) /\ (clean' => clean)
  BY <1>3 DEF GroupsInv, GroupTypes, ServerInv
<1> QED BY <1>7, <1>9, <1>11, <1>12, NothingHappens

LEMMA EnsureGroupFoundStep ==
    ASSUME GroupsInv, EnsureGroupFound
    PROVE  GroupsInv'
<1>1. UNCHANGED <<group, gen, outbox, operations, clean, handling, stored, cached, owed, tried, read, faults>>
  BY DEF EnsureGroupFound, serverVars
<1>2. \A x \in Members : Underway(x)' = Underway(x)
  BY <1>1, UnderwaySame
<1>3. /\ outbox' \in [Members -> Seq(Posts)] /\ handling' \in [Members -> Seq(Answers)]
      /\ cached' \in [Groups -> Logs] /\ owed' \in [Members -> Seq(Posts)]
      /\ tried' \in [Members -> Nat]
      /\ (\A h \in Groups : cached'[h] # NoGroup => cached'[h] = stored[h])
      /\ UNCHANGED <<group, gen, stored, read, operations>>
      /\ (\A k \in Members : outbox'[k] = outbox[k]) /\ (clean' => clean)
  BY <1>1 DEF GroupsInv, GroupTypes, ServerInv
<1> QED BY <1>2, <1>3, NothingHappens

LEMMA ReconnectStep ==
    ASSUME GroupsInv, NEW m \in Members, Reconnect(m)
    PROVE  GroupsInv'
<1>1. /\ outbox' = [outbox EXCEPT ![m] = << >>] /\ clean' = (clean /\ outbox[m] = << >>)
      /\ tried' = [tried EXCEPT ![m] = 0]
      /\ UNCHANGED <<group, gen, handling, stored, cached, owed, read, operations>>
  BY DEF Reconnect
<1>2. \A x \in Members : Underway(x)' = Underway(x)
  BY <1>1, UnderwaySame
<1>3. << >> \in Seq(Posts)
  OBVIOUS
<1>4. /\ outbox' \in [Members -> Seq(Posts)] /\ outbox'[m] = << >>
      /\ \A k \in Members : k # m => outbox'[k] = outbox[k]
  BY <1>1, <1>3 DEF GroupsInv, GroupTypes
<1>5. /\ handling' \in [Members -> Seq(Answers)] /\ cached' \in [Groups -> Logs]
      /\ owed' \in [Members -> Seq(Posts)] /\ tried' \in [Members -> Nat]
      /\ (\A h \in Groups : cached'[h] # NoGroup => cached'[h] = stored[h])
      /\ UNCHANGED <<group, gen, stored, read, operations>>
  BY <1>1 DEF GroupsInv, GroupTypes, ServerInv
<1>6. clean' => clean /\ \A y \in Members : outbox'[y] = outbox[y]
  BY <1>1, <1>4
<1>7. \A k \in Members : outbox'[k] = outbox[k] \/ outbox'[k] = << >>
  BY <1>4
<1> QED BY <1>2, <1>4, <1>5, <1>6, <1>7, NothingHappens

LEMMA RestartServerStep ==
    ASSUME GroupsInv, RestartServer
    PROVE  GroupsInv'
<1>1. /\ cached' = [g \in Groups |-> NoGroup] /\ handling' = [m \in Members |-> << >>]
      /\ outbox' = [m \in Members |-> << >>] /\ tried' = [m \in Members |-> 0]
      /\ clean' = (clean /\ \A m \in Members : outbox[m] = << >> /\ handling[m] = << >>)
      /\ UNCHANGED <<group, gen, stored, owed, read, operations>>
  BY DEF RestartServer
<1>2. << >> \in Seq(Posts) /\ << >> \in Seq(Answers) /\ NoGroup \in Logs
  BY DEF NoGroup, Logs
<1>3. /\ outbox' \in [Members -> Seq(Posts)] /\ handling' \in [Members -> Seq(Answers)]
      /\ cached' \in [Groups -> Logs] /\ owed' \in [Members -> Seq(Posts)]
      /\ tried' \in [Members -> Nat]
      /\ (\A h \in Groups : cached'[h] # NoGroup => cached'[h] = stored[h])
      /\ UNCHANGED <<group, gen, stored, read, operations>>
      /\ \A k \in Members : outbox'[k] = << >> /\ handling'[k] = << >>
  BY <1>1, <1>2 DEF GroupsInv, GroupTypes
<1>4. Items(<< >>) = {}
  BY DEF Items
<1>5. ASSUME NEW x \in Members, NEW message
      PROVE  message \in Underway(x)' <=> message \in Items(owed[x])
  <2>1. \A k \in Members : Items(handling'[k]) = {}
    BY <1>3, <1>4
  <2> QED BY <1>1, <2>1, UnderwayNow
<1>6. \A x \in Members : Underway(x)' \subseteq Underway(x)
  BY <1>5, UnderwayAre
<1>7. ASSUME clean', NEW y \in Members
      PROVE  clean /\ outbox'[y] = outbox[y] /\ Underway(y) \subseteq Underway(y)'
  <2>1. clean /\ \A k \in Members : outbox[k] = << >> /\ handling[k] = << >>
    BY <1>1, <1>7
  <2>2. \A k \in Members : Items(handling[k]) = {}
    BY <1>4, <2>1
  <2>3. \A message \in Underway(y) : message \in Items(owed[y])
    BY <2>2, UnderwayAre
  <2> QED BY <1>3, <1>5, <2>1, <2>3
<1>8. clean' => clean
  BY <1>1
<1> QED BY <1>3, <1>6, <1>7, <1>8, NothingHappens

\* m has handled the next message it is owed.
Handed(m, v) ==
    /\ v \in Posts /\ v \in Underway(m)
    /\ owed' \in [Members -> Seq(Posts)] /\ tried' \in [Members -> Nat]
    /\ \A x \in Members : Underway(x)' \subseteq Underway(x)
    /\ \A x \in Members : \A message \in Underway(x) :
          x # m \/ message # v => message \in Underway(x)'

LEMMA NextIsOwed ==
    ASSUME GroupsInv, NEW m \in Members, Receive(m)
    PROVE  tried[m] + 1 \in 1 .. Len(owed[m]) /\ NextOwed(m) \in Underway(m) /\ NextOwed(m) \in Posts
<1>1. tried[m] \in Nat /\ owed[m] \in Seq(Posts) /\ Len(owed[m]) \in Nat /\ tried[m] < Len(owed[m])
  BY DEF GroupsInv, GroupTypes, Receive
<1>2. tried[m] + 1 \in 1 .. Len(owed[m])
  BY <1>1
<1>3. owed[m][tried[m] + 1] \in Items(owed[m])
  BY <1>2 DEF Items
<1>4. NextOwed(m) \in Underway(m)
  BY <1>3, UnderwayAre DEF NextOwed
<1> QED BY <1>2, <1>4, UnderwayTypes

LEMMA AcknowledgeHands ==
    ASSUME GroupsInv, NEW m \in Members, Receive(m), Acknowledge(m)
    PROVE  Handed(m, NextOwed(m))
<1>1. PICK k, v : k = tried[m] + 1 /\ v = NextOwed(m)
  OBVIOUS
<1>2. k \in 1 .. Len(owed[m]) /\ v \in Underway(m) /\ v \in Posts /\ v = owed[m][k]
  BY <1>1, NextIsOwed DEF NextOwed
<1>3. /\ owed \in [Members -> Seq(Posts)] /\ tried \in [Members -> Nat] /\ owed[m] \in Seq(Posts)
  BY DEF GroupsInv, GroupTypes
<1>4. UNCHANGED handling
  BY DEF Receive
<1>5. CASE owed' = [owed EXCEPT ![m] = RemoveAt(@, k)] /\ UNCHANGED tried
  <2>1. PICK t : t = RemoveAt(owed[m], k)
    OBVIOUS
  <2>2. t \in Seq(Posts) /\ Items(t) \subseteq Items(owed[m]) /\ Items(owed[m]) \subseteq Items(t) \cup {v}
    BY <1>2, <1>3, <2>1, ItemsRemove
  <2>3. owed' = [owed EXCEPT ![m] = t]
    BY <1>5, <2>1
  <2>4. /\ owed' \in [Members -> Seq(Posts)] /\ owed'[m] = t /\ tried' \in [Members -> Nat]
        /\ \A x \in Members : x # m => owed'[x] = owed[x]
    BY <1>3, <1>5, <2>2, <2>3
  <2>5. ASSUME NEW x \in Members, NEW message \in Underway(x)' PROVE message \in Underway(x)
    <3>1. \/ message \in Items(owed'[x])
          \/ \E j \in Members : \E a \in Items(handling[j]) : x \in a.receivers /\ message = a.message
      BY <1>4, UnderwayNow
    <3>2. message \in Items(owed'[x]) => message \in Items(owed[x])
      BY <2>2, <2>4
    <3> QED BY <3>1, <3>2, UnderwayAre
  <2>6. ASSUME NEW x \in Members, NEW message \in Underway(x), x # m \/ message # v
        PROVE  message \in Underway(x)'
    <3>1. \/ message \in Items(owed[x])
          \/ \E j \in Members : \E a \in Items(handling'[j]) : x \in a.receivers /\ message = a.message
      BY <1>4, UnderwayAre
    <3>2. message \in Items(owed[x]) => message \in Items(owed'[x])
      BY <2>2, <2>4, <2>6
    <3> QED BY <3>1, <3>2, UnderwayNow
  <2> QED BY <1>1, <1>2, <2>4, <2>5, <2>6 DEF Handed
<1>6. CASE tried' = [tried EXCEPT ![m] = 0] /\ UNCHANGED owed
  <2>1. tried' \in [Members -> Nat] /\ owed' \in [Members -> Seq(Posts)]
    BY <1>3, <1>6
  <2>2. UNCHANGED <<owed, handling>>
    BY <1>4, <1>6
  <2>3. \A x \in Members : Underway(x)' = Underway(x)
    BY <2>2, UnderwaySame
  <2> QED BY <1>1, <1>2, <2>1, <2>3 DEF Handed
<1> QED BY <1>1, <1>5, <1>6 DEF Acknowledge

LEMMA FailStep ==
    ASSUME GroupsInv, NEW m \in Members, Receive(m), Fail(m)
    PROVE  GroupsInv'
<1>1. UNCHANGED <<group, gen, owed, read, outbox, handling, stored, cached, operations, clean>>
  BY DEF Receive, Fail
<1>2. \A x \in Members : Underway(x)' = Underway(x)
  BY <1>1, UnderwaySame
<1>3. /\ outbox' \in [Members -> Seq(Posts)] /\ handling' \in [Members -> Seq(Answers)]
      /\ cached' \in [Groups -> Logs] /\ owed' \in [Members -> Seq(Posts)]
      /\ tried' \in [Members -> Nat]
      /\ (\A h \in Groups : cached'[h] # NoGroup => cached'[h] = stored[h])
      /\ UNCHANGED <<group, gen, stored, read, operations>>
      /\ (\A k \in Members : outbox'[k] = outbox[k]) /\ (clean' => clean)
  BY <1>1 DEF GroupsInv, GroupTypes, ServerInv, Fail
<1> QED BY <1>2, <1>3, NothingHappens

\* m's log grows by what the server has.
LEMMA EntryArrives ==
    ASSUME GroupsInv, NEW m \in Members, NEW g \in Groups, NEW l \in Logs, NewEpoch(m, g, l),
           Receive(m), Acknowledge(m), UNCHANGED read, NEW v, v = NextOwed(m),
           v.type # "GroupMessage", v.group = g, v.log = l, l # NoGroup,
           Len(group[m][g]) < Len(l), Begins(group[m][g], l), Begins(l, stored[g]),
           m \in GroupMembers(l)
    PROVE  GroupsInv'
<1>1. /\ v \in Posts /\ v \in Underway(m)
      /\ owed' \in [Members -> Seq(Posts)] /\ tried' \in [Members -> Nat]
      /\ (\A x \in Members : Underway(x)' \subseteq Underway(x))
      /\ \A x \in Members : \A message \in Underway(x) :
            x # m \/ message # v => message \in Underway(x)'
  BY AcknowledgeHands DEF Handed
<1>2. UNCHANGED <<running, outbox, handling, stored, cached, operations, clean>>
  BY DEF Receive
<1>3. group[m][g] \in Logs /\ stored[g] \in Logs /\ Born(stored[g], g) /\ AddsOthers(stored[g])
  BY GroupFacts
<1>4. Len(group[m][g]) \in Nat /\ Len(stored[g]) \in Nat /\ Len(l) \in Nat /\ Len(l) >= 1
  BY <1>3, LogFacts
<1>5. Len(l) <= Len(stored[g]) /\ \A i \in 1 .. Len(l) : l[i] = stored[g][i]
  BY DEF Begins
<1>6. group'[m][g] = l /\ \A k \in Members : k # m => group'[k] = group[k]
  BY DEF NewEpoch, GroupsInv, GroupTypes
<1>7. Born(l, g)'
  <2>1. Born(l, g)' <=> (l # NoGroup => \E c \in Founders(g) :
                           /\ group'[c][g] # NoGroup /\ l[1] = group'[c][g][1]
                           /\ l[1].by = c /\ c \in l[1].new)
    BY Zenon DEF Born
  <2>2. stored[g] # NoGroup /\ l[1] = stored[g][1]
    BY <1>3, <1>4, <1>5, LogFacts
  <2>3. PICK c \in Founders(g) : /\ group[c][g] # NoGroup /\ stored[g][1] = group[c][g][1]
                                 /\ stored[g][1].by = c /\ c \in stored[g][1].new
    BY <1>3, <2>2, Zenon DEF Born
  <2>4. group'[c][g] # NoGroup /\ group'[c][g][1] = l[1]
    <3>1. CASE c = m
      BY <1>6, <3>1
    <3>2. CASE c # m
      BY <1>6, <2>2, <2>3, <3>2, FounderFacts
    <3> QED BY <3>1, <3>2
  <2> QED BY <2>1, <2>2, <2>3, <2>4
<1>8. AddsOthers(l)
  <2>1. \A i \in 2 .. Len(l) : i \in 2 .. Len(stored[g]) /\ l[i] = stored[g][i]
    BY <1>4, <1>5
  <2> QED BY <1>3, <2>1 DEF AddsOthers
<1>9. OwnFrom(l, m, stored[g])
  <2>1. Len(l) \in 0 .. Len(stored[g]) /\ \A i \in Len(l) + 1 .. Len(l) : FALSE
    BY <1>4, <1>5
  <2> QED BY <1>4, <1>5, <2>1 DEF OwnFrom
<1>10. /\ NewTypes /\ (\A k \in Members, h \in Groups : Grows(k, h))
       /\ LogInv' /\ ServerInv' /\ group'[m][g] = l
       /\ \A k \in Members, h \in Groups : k # m \/ h # g => group'[k][h] = group[k][h]
  <2>1. UNCHANGED <<stored, cached>>
    BY <1>2
  <2> QED BY <1>7, <1>8, <1>9, <2>1, LogGrows
<1>11. GroupTypes'
  BY <1>1, <1>2, <1>10 DEF GroupsInv, GroupTypes, NewTypes
<1>12. OutInv'
  <2>1. ASSUME NEW k \in Members, NEW message \in Items(outbox[k]) PROVE OutOk(k, message)'
    <3>1. message \in Posts /\ OutOk(k, message)
      BY FlyingTypes DEF GroupsInv, OutInv
    <3>2. message.type = "NewDeviceGroup" => stored'[message.group] = NoGroup
      BY <1>2, <3>1 DEF OutOk
    <3> QED BY <1>10, <3>1, <3>2, OutStays
  <2>2. \A k \in Members : CreatesOnce(outbox[k])' <=> CreatesOnce(outbox[k])
    BY <1>2 DEF CreatesOnce
  <2>3. \A k \in Members : Items(outbox[k])' = Items(outbox[k])
    BY <1>2 DEF Items
  <2>4. \A k \in Members : CreatesOnce(outbox[k])
    BY DEF GroupsInv, OutInv
  <2> QED BY <2>1, <2>2, <2>3, <2>4, Zenon DEF OutInv
<1>13. ArriveInv'
  <2>1. UNCHANGED stored
    BY <1>2
  <2> QED BY <1>1, <2>1, ArriveSame
<1>14. Flying' \subseteq Flying
  <2> SUFFICES ASSUME NEW message \in Flying' PROVE message \in Flying
    OBVIOUS
  <2>1. message.type = "GroupMessage"
    BY FlyingAre
  <2>2. PICK k \in Members : message \in Items(outbox'[k]) \/ message \in Underway(k)'
    BY FlyingAre
  <2>3. message \in Items(outbox[k]) \/ message \in Underway(k)
    BY <1>1, <1>2, <2>2
  <2> QED BY <2>1, <2>3, FlyingAre
<1>15. SentInOrder' /\ ReadBefore' /\ ReadInOrder'
  <2>1. operations' \in Nat /\ operations <= operations'
    BY <1>2 DEF GroupsInv, GroupTypes
  <2> QED BY <1>10, <1>14, <2>1, FlyingTypes, ContentStays
<1>16. CleanInv'
  <2> SUFFICES ASSUME clean, NEW y \in Members, NEW h \in Groups
               PROVE  \E b \in 0 .. Len(stored[h]) : SyncedFrom(y, h, b)'
    BY <1>2 DEF CleanInv
  <2>1. PICK b \in 0 .. Len(stored[h]) : SyncedFrom(y, h, b)
    BY DEF GroupsInv, CleanInv
  <2>2. CASE y # m \/ h # g
    <3>1. group'[y][h] = group[y][h] /\ stored'[h] = stored[h] /\ outbox'[y] = outbox[y]
      BY <1>2, <1>10, <2>2
    <3>2. \A message \in Underway(y) :
            message.type # "GroupMessage" /\ message.group = h => message \in Underway(y)'
      BY <1>1, <2>2
    <3>3. SyncedFrom(y, h, b)'
      BY <2>1, <3>1, <3>2, SyncedStays
    <3> QED BY <3>3
  <2>3. CASE y = m /\ h = g
    <3>1. PICK n \in Nat : n = Len(l)
      BY <1>4
    <3>2. b \in Nat /\ b < n /\ n <= Len(stored[g])
      <4>1. b \in Nat /\ b <= Len(group[m][g])
        BY <1>4, <2>1, <2>3 DEF SyncedFrom
      <4> QED BY <1>4, <1>5, <3>1, <4>1
    <3>3. ASSUME NEW j \in n + 1 .. Len(stored[g]), NEW i \in 1 .. j - 1, m \in stored[g][i].new
          PROVE  Coming(m, g, j)'
      <4>1. j \in b + 1 .. Len(stored[g]) /\ j # n
        BY <1>4, <3>2
      <4>2. Coming(m, g, j)
        BY <2>1, <2>3, <3>3, <4>1 DEF SyncedFrom
      <4>3. PICK message \in Underway(m) :
              message.type = "AddToGroup" /\ message.group = g /\ Len(message.log) = j
        BY <4>2 DEF Coming
      <4>4. message \in Underway(m)'
        BY <1>1, <3>1, <4>1, <4>3
      <4> QED BY <4>3, <4>4 DEF Coming
    <3>4. \A j \in n + 1 .. Len(l) : FALSE
      BY <3>1
    <3>5. n <= Len(l) /\ \A i \in 1 .. n : l[i] = stored[g][i]
      BY <1>5, <3>1
    <3>6. SyncedFrom(m, g, n)'
      BY <1>2, <1>10, <3>3, <3>4, <3>5 DEF SyncedFrom
    <3>7. n \in 0 .. Len(stored[g])
      BY <1>4, <3>2
    <3> QED BY <2>3, <3>6, <3>7
  <2> QED BY <2>2, <2>3
<1> QED BY <1>10, <1>11, <1>12, <1>13, <1>15, <1>16 DEF GroupsInv

LEMMA HandleWelcomeStep ==
    ASSUME GroupsInv, NEW m \in Members, HandleWelcome(m)
    PROVE  GroupsInv'
<1>1. PICK v : v = NextOwed(m)
  OBVIOUS
<1>2. Receive(m) /\ v.type = "Welcome"
  BY <1>1 DEF HandleWelcome
<1>3. v \in Posts /\ v \in Underway(m)
  BY <1>1, <1>2, NextIsOwed
<1>4. PICK g \in Groups, l \in Logs : g = v.group /\ l = v.log
  BY <1>3, PostFacts
<1>5. \/ group[m][g] = NoGroup /\ NewEpoch(m, g, l) /\ Acknowledge(m) /\ UNCHANGED read
      \/ Fail(m)
  BY <1>1, <1>4, Zenon DEF HandleWelcome
<1>6. CASE group[m][g] = NoGroup /\ NewEpoch(m, g, l) /\ Acknowledge(m) /\ UNCHANGED read
  <2>1. ArrivesOk(m, v)
    BY <1>3, UnderwayTypes
  <2>2. l # NoGroup /\ m \in GroupMembers(l) /\ Begins(l, stored[g])
    BY <1>2, <1>4, <2>1 DEF ArrivesOk
  <2>3. group[m][g] \in Logs
    BY GroupFacts
  <2>4. Len(group[m][g]) = 0 /\ Len(l) >= 1 /\ Len(l) \in Nat
    BY <1>6, <2>2, <2>3, LogFacts
  <2>5. Len(group[m][g]) < Len(l) /\ Begins(group[m][g], l)
    BY <2>4 DEF Begins
  <2>6. v.type # "GroupMessage"
    BY <1>2
  <2> QED BY <1>1, <1>2, <1>4, <1>6, <2>2, <2>5, <2>6, EntryArrives
<1>7. CASE Fail(m)
  BY <1>2, <1>7, FailStep
<1> QED BY <1>5, <1>6, <1>7

LEMMA HandleCommitStep ==
    ASSUME GroupsInv, NEW m \in Members, HandleCommit(m)
    PROVE  GroupsInv'
<1>1. PICK v : v = NextOwed(m)
  OBVIOUS
<1>2. Receive(m) /\ v.type = "AddToGroup"
  BY <1>1 DEF HandleCommit
<1>3. v \in Posts /\ v \in Underway(m)
  BY <1>1, <1>2, NextIsOwed
<1>4. PICK g \in Groups, l \in Logs : g = v.group /\ l = v.log
  BY <1>3, PostFacts
<1>5. \/ /\ Follows(v, group[m][g]) /\ CheckCommit(v)
         /\ NewEpoch(m, g, l) /\ Acknowledge(m) /\ UNCHANGED read
      \/ Fail(m)
  BY <1>1, <1>4, Zenon DEF HandleCommit
<1>6. CASE /\ Follows(v, group[m][g]) /\ CheckCommit(v)
           /\ NewEpoch(m, g, l) /\ Acknowledge(m) /\ UNCHANGED read
  <2>1. ArrivesOk(m, v)
    BY <1>3, UnderwayTypes
  <2>2. l # NoGroup /\ Len(l) >= 2 /\ Begins(l, stored[g])
    BY <1>2, <1>4, <1>6, <2>1 DEF ArrivesOk
  <2>3. group[m][g] # NoGroup /\ Front(l) = group[m][g]
    BY <1>4, <1>6 DEF Follows
  <2>4. group[m][g] \in Logs /\ m \in GroupMembers(group[m][g])
    BY <2>3, GroupFacts
  <2>5. Len(l) \in Nat /\ Len(l) >= 1
    BY <2>2, LogFacts
  <2>6. Len(group[m][g]) = Len(l) - 1 /\ \A i \in 1 .. Len(l) - 1 : group[m][g][i] = l[i]
    BY <2>3, <2>5, FrontFacts
  <2>7. Len(group[m][g]) < Len(l) /\ Begins(group[m][g], l)
    BY <2>5, <2>6 DEF Begins
  <2>8. m \in GroupMembers(l)
    <3>1. PICK i \in 1 .. Len(group[m][g]) : m \in group[m][g][i].new
      BY <2>4, LogFacts
    <3>2. i \in 1 .. Len(l) - 1 /\ i \in 1 .. Len(l)
      BY <2>5, <2>6
    <3>3. m \in l[i].new
      BY <2>6, <3>1, <3>2
    <3> QED BY <3>2, <3>3, LogFacts
  <2>9. v.type # "GroupMessage"
    BY <1>2
  <2> QED BY <1>1, <1>2, <1>4, <1>6, <2>2, <2>7, <2>8, <2>9, EntryArrives
<1>7. CASE Fail(m)
  BY <1>2, <1>7, FailStep
<1> QED BY <1>5, <1>6, <1>7

\* The ratchet of s moves, as m sees it in g.
Turn(a, m, g, s, n) == [a EXCEPT ![m][g][s] = n]

OnlyTurns(a, b, m, g, s, n) ==
    /\ b \in [Members -> [Groups -> [Members -> Nat]]] /\ b[m][g][s] = n
    /\ \A k \in Members, h \in Groups, x \in Members :
          k # m \/ h # g \/ x # s => b[k][h][x] = a[k][h][x]

LEMMA TurnTaken ==
    ASSUME NEW m \in Members, NEW g \in Groups, NEW s \in Members, NEW n \in Nat,
           NEW a \in [Members -> [Groups -> [Members -> Nat]]], NEW b,
           b = Turn(a, m, g, s, n)
    PROVE  OnlyTurns(a, b, m, g, s, n)
<1>1. PICK D : D = [Groups -> [Members -> Nat]]
  OBVIOUS
<1>2. PICK d \in D : d = a[m]
  BY <1>1
<1>3. PICK e \in [Members -> Nat] : e = d[g]
  BY <1>1, <1>2
<1>10. PICK f, d2 : f = [e EXCEPT ![s] = n] /\ d2 = [d EXCEPT ![g] = [e EXCEPT ![s] = n]]
  OBVIOUS
<1>4. f \in [Members -> Nat] /\ f[s] = n /\ \A x \in Members : x # s => f[x] = e[x]
  BY <1>3, <1>10
<1>11. d2 = [d EXCEPT ![g] = f]
  BY <1>10
<1>5. d2 \in D /\ d2[g] = f /\ \A h \in Groups : h # g => d2[h] = d[h]
  BY <1>1, <1>2, <1>4, <1>11
<1>6. b = [a EXCEPT ![m] = d2]
  BY <1>2, <1>3, <1>10 DEF Turn
<1>7. a \in [Members -> D]
  BY <1>1
<1>8. b \in [Members -> D] /\ b[m] = d2 /\ \A k \in Members : k # m => b[k] = a[k]
  BY <1>5, <1>6, <1>7
<1>9. ASSUME NEW k \in Members, NEW h \in Groups, NEW x \in Members, k # m \/ h # g \/ x # s
      PROVE  b[k][h][x] = a[k][h][x]
  <2>1. CASE k # m
    BY <1>8, <2>1
  <2>2. CASE k = m /\ h # g
    BY <1>2, <1>5, <1>8, <2>2
  <2>3. CASE k = m /\ h = g
    BY <1>2, <1>3, <1>4, <1>5, <1>8, <1>9, <2>3
  <2> QED BY <2>1, <2>2, <2>3
<1> QED BY <1>1, <1>4, <1>5, <1>8, <1>9 DEF OnlyTurns

\* m reads a message of another member's.
LEMMA ContentRead ==
    ASSUME GroupsInv, NEW m \in Members, Receive(m), Acknowledge(m), NEW v, v = NextOwed(m),
           v.type = "GroupMessage", NEW g \in Groups, g = v.group, NEW s \in Members, s = v.by,
           v.log = group[m][g], v.gen = gen[m][g][s], UNCHANGED group,
           gen' = [gen EXCEPT ![m][g][s] = v.gen + 1],
           read' = [read EXCEPT ![m][g] = Append(@, [by |-> s, content |-> v.content])]
    PROVE  GroupsInv'
<1>1. /\ v \in Posts /\ v \in Underway(m)
      /\ owed' \in [Members -> Seq(Posts)] /\ tried' \in [Members -> Nat]
      /\ (\A x \in Members : Underway(x)' \subseteq Underway(x))
      /\ \A x \in Members : \A message \in Underway(x) :
            x # m \/ message # v => message \in Underway(x)'
  BY AcknowledgeHands DEF Handed
<1>2. UNCHANGED <<running, outbox, handling, stored, cached, operations, clean>>
  BY DEF Receive
<1>3. v \in Flying
  BY <1>1, FlyingAre
<1>4. v.gen \in Nat /\ v.content \in Nat /\ v.log \in Logs /\ Len(v.log) \in Nat
  BY <1>3, FlyingTypes
<1>5. s # m
  <2>1. ArrivesOk(m, v)
    BY <1>1, UnderwayTypes
  <2> QED BY <2>1 DEF ArrivesOk
<1>6. PICK n \in Nat, c \in Nat : n = v.gen /\ c = v.content
  BY <1>4
<1>7. PICK e \in Readings : e = [by |-> s, content |-> c] /\ e.by = s /\ e.content = c
  <2>1. [by |-> s, content |-> c] \in Readings
    BY DEF Readings
  <2> QED BY <2>1
<1>8. gen \in [Members -> [Groups -> [Members -> Nat]]] /\ read \in [Members -> [Groups -> Seq(Readings)]]
  BY DEF GroupsInv, GroupTypes
<1>9. /\ gen' \in [Members -> [Groups -> [Members -> Nat]]] /\ gen'[m][g][s] = n + 1
      /\ \A k \in Members, h \in Groups, x \in Members :
            k # m \/ h # g \/ x # s => gen'[k][h][x] = gen[k][h][x]
  <2>1. gen' = Turn(gen, m, g, s, n + 1) /\ n + 1 \in Nat
    BY <1>6 DEF Turn
  <2>2. PICK z \in Nat : z = n + 1
    BY <2>1
  <2>3. gen' = Turn(gen, m, g, s, z) /\ gen \in [Members -> [Groups -> [Members -> Nat]]]
    BY <1>8, <2>1, <2>2
  <2>4. OnlyTurns(gen, gen', m, g, s, z)
    BY <2>3, TurnTaken, Zenon
  <2> QED BY <2>2, <2>4 DEF OnlyTurns
<1>10. PICK old, new : old = read[m][g] /\ new = Append(old, e)
  OBVIOUS
<1>11. old \in Seq(Readings)
  BY <1>8, <1>10
<1>12. /\ new \in Seq(Readings) /\ Len(old) \in Nat /\ Len(new) = Len(old) + 1
       /\ new[Len(old) + 1] = e /\ \A i \in 1 .. Len(old) : new[i] = old[i]
  BY <1>10, <1>11, ItemsAppend
<1>13. /\ read' \in [Members -> [Groups -> Seq(Readings)]] /\ read'[m][g] = new
       /\ \A k \in Members, h \in Groups : k # m \/ h # g => read'[k][h] = read[k][h]
  <2>1. PICK d \in [Groups -> Seq(Readings)] : d = read[m]
    BY <1>8
  <2>2. PICK d2 \in [Groups -> Seq(Readings)] : d2 = [d EXCEPT ![g] = new]
    BY <1>12, <2>1
  <2>3. read' = [read EXCEPT ![m] = d2]
    BY <1>6, <1>7, <1>8, <1>10, <2>1, <2>2
  <2>4. /\ read' \in [Members -> [Groups -> Seq(Readings)]] /\ read'[m] = d2
        /\ \A k \in Members : k # m => read'[k] = read[k]
    BY <1>8, <2>3
  <2>5. d2[g] = new /\ \A h \in Groups : h # g => d2[h] = d[h]
    BY <2>1, <2>2
  <2>6. ASSUME NEW k \in Members, NEW h \in Groups, k # m \/ h # g
        PROVE  read'[k][h] = read[k][h]
    <3>1. CASE k # m
      BY <2>4, <3>1
    <3>2. CASE k = m
      BY <2>1, <2>4, <2>5, <2>6, <3>2
    <3> QED BY <3>1, <3>2
  <2> QED BY <2>4, <2>5, <2>6
<1>14. GroupTypes'
  BY <1>1, <1>2, <1>9, <1>13 DEF GroupsInv, GroupTypes
<1>15. LogInv' /\ ServerInv'
  <2>1. UNCHANGED <<group, stored>> /\ \A h \in Groups : cached'[h] # NoGroup => cached'[h] = stored[h]
    BY <1>2 DEF GroupsInv, ServerInv
  <2> QED BY <2>1, LogsSame
<1>16. OutInv'
  <2>1. UNCHANGED <<group, stored>>
    BY <1>2
  <2>2. \A k, message : OutOk(k, message) => OutOk(k, message)'
    BY <2>1, OutSame
  <2>3. \A k \in Members : CreatesOnce(outbox[k])' <=> CreatesOnce(outbox[k])
    BY <1>2 DEF CreatesOnce
  <2>4. \A k \in Members : Items(outbox[k])' = Items(outbox[k])
    BY <1>2 DEF Items
  <2>5. OutInv
    BY DEF GroupsInv
  <2> QED BY <2>2, <2>3, <2>4, <2>5, Zenon DEF OutInv
<1>17. ArriveInv'
  <2>1. UNCHANGED stored
    BY <1>2
  <2> QED BY <1>1, <2>1, ArriveSame
<1>18. ASSUME NEW message \in Flying' PROVE message \in Flying
  <2>1. message.type = "GroupMessage"
    BY FlyingAre
  <2>2. PICK k \in Members : message \in Items(outbox'[k]) \/ message \in Underway(k)'
    BY FlyingAre
  <2>3. message \in Items(outbox[k]) \/ message \in Underway(k)
    BY <1>1, <1>2, <2>2
  <2> QED BY <2>1, <2>3, FlyingAre
<1>19. \A a, b : After(a, b)' <=> After(a, b)
  BY DEF After
<1>20. SentInOrder'
  <2>1. ASSUME NEW message \in Flying'
        PROVE  /\ message.content < operations'
               /\ Len(message.log) <= Len(group'[message.by][message.group])
               /\ message.log = group'[message.by][message.group] =>
                     message.gen < gen'[message.by][message.group][message.by]
    <3>1. message \in Flying
      BY <1>18
    <3>2. PICK x \in Members, h \in Groups : x = message.by /\ h = message.group
      BY <3>1, FlyingTypes
    <3>3. gen'[x][h][x] = gen[x][h][x]
      BY <1>5, <1>9
    <3> QED BY <1>2, <3>1, <3>2, <3>3 DEF GroupsInv, SentInOrder
  <2>2. \A a, b \in Flying' : a.by = b.by /\ a.group = b.group /\ After(a, b) => a.content > b.content
    BY <1>18 DEF GroupsInv, SentInOrder
  <2> QED BY <1>19, <2>1, <2>2, Zenon DEF SentInOrder
<1>21. Ahead(m, v)
  <2>1. v.gen >= gen[m][g][s]
    BY <1>4
  <2> QED BY <2>1 DEF Ahead
<1>22. ASSUME NEW i \in 1 .. Len(old), old[i].by = s PROVE old[i].content < c
  BY <1>3, <1>6, <1>10, <1>21, <1>22 DEF GroupsInv, ReadBefore
<1>23. ReadInOrder'
  <2> SUFFICES ASSUME NEW k \in Members, NEW h \in Groups, NEW i \in DOMAIN read'[k][h],
                      NEW j \in DOMAIN read'[k][h], i < j, read'[k][h][i].by = read'[k][h][j].by
               PROVE  read'[k][h][i].content < read'[k][h][j].content
    BY DEF ReadInOrder
  <2>1. CASE k # m \/ h # g
    <3>1. read'[k][h] = read[k][h]
      BY <1>13, <2>1
    <3> QED BY <3>1 DEF GroupsInv, ReadInOrder
  <2>2. CASE k = m /\ h = g
    <3>1. i \in 1 .. Len(old) + 1 /\ j \in 1 .. Len(old) + 1
      BY <1>12, <1>13, <2>2
    <3>2. i \in 1 .. Len(old) /\ new[i] = old[i]
      BY <1>12, <3>1
    <3>3. new[i].by = new[j].by
      BY <1>13, <2>2
    <3>4. CASE j = Len(old) + 1
      <4>1. old[i].by = s
        BY <1>7, <1>12, <3>2, <3>3, <3>4
      <4>2. old[i].content < c
        BY <1>22, <3>2, <4>1
      <4> QED BY <1>7, <1>12, <1>13, <2>2, <3>2, <3>4, <4>2
    <3>5. CASE j # Len(old) + 1
      <4>1. j \in 1 .. Len(old) /\ new[j] = old[j]
        BY <1>12, <3>1, <3>5
      <4>2. i \in DOMAIN old /\ j \in DOMAIN old
        BY <1>11, <3>2, <4>1
      <4>3. old[i].content < old[j].content
        <5>1. \A p, q \in DOMAIN old : p < q /\ old[p].by = old[q].by => old[p].content < old[q].content
          BY <1>10 DEF GroupsInv, ReadInOrder
        <5>2. old[i].by = old[j].by
          BY <3>2, <3>3, <4>1
        <5> QED BY <4>2, <5>1, <5>2
      <4> QED BY <1>13, <2>2, <3>2, <4>1, <4>3
    <3> QED BY <3>4, <3>5
  <2> QED BY <2>1, <2>2
<1>24. ReadBefore'
  <2>1. ASSUME NEW k \in Members, NEW h \in Groups, NEW i \in 1 .. Len(read'[k][h])
        PROVE  read'[k][h][i].content < operations'
    <3>1. CASE k # m \/ h # g
      <4>1. read'[k][h] = read[k][h]
        BY <1>13, <3>1
      <4> QED BY <1>2, <4>1 DEF GroupsInv, ReadBefore
    <3>2. CASE k = m /\ h = g
      <4>1. i \in 1 .. Len(old) \/ i = Len(old) + 1
        BY <1>12, <1>13, <3>2
      <4>2. c < operations
        BY <1>3, <1>6 DEF GroupsInv, SentInOrder
      <4>3. CASE i \in 1 .. Len(old)
        BY <1>2, <1>10, <1>12, <1>13, <3>2, <4>3 DEF GroupsInv, ReadBefore
      <4>4. CASE i = Len(old) + 1
        BY <1>2, <1>7, <1>12, <1>13, <3>2, <4>2, <4>4
      <4> QED BY <4>1, <4>3, <4>4
    <3> QED BY <3>1, <3>2
  <2>2. ASSUME NEW r \in Members, NEW message \in Flying', Ahead(r, message)',
               NEW i \in 1 .. Len(read'[r][message.group]),
               read'[r][message.group][i].by = message.by
        PROVE  read'[r][message.group][i].content < message.content
    <3>1. message \in Flying
      BY <1>18
    <3>2. PICK x \in Members, h \in Groups : x = message.by /\ h = message.group
      BY <3>1, FlyingTypes
    <3>3. message.gen \in Nat /\ message.content \in Nat /\ Len(message.log) \in Nat
      BY <3>1, FlyingTypes
    <3>4. \/ Len(message.log) > Len(group[r][h])
          \/ message.log = group[r][h] /\ message.gen >= gen'[r][h][x]
      BY <2>2, <3>2 DEF Ahead
    <3>5. CASE r # m \/ h # g
      <4>1. read'[r][h] = read[r][h] /\ gen'[r][h][x] = gen[r][h][x]
        <5>1. read'[r][h] = read[r][h]
          BY <1>13, <3>5
        <5>2. gen'[r][h][x] = gen[r][h][x]
          BY <1>9, <3>5
        <5> QED BY <5>1, <5>2
      <4>2. Ahead(r, message)
        BY <3>2, <3>4, <4>1 DEF Ahead
      <4> QED BY <2>2, <3>1, <3>2, <4>1, <4>2 DEF GroupsInv, ReadBefore
    <3>6. CASE r = m /\ h = g
      <4>1. PICK a \in Nat, b \in Nat, b2 \in Nat :
              a = message.gen /\ b = gen[m][g][x] /\ b2 = gen'[m][g][x]
        <5>1. gen[m][g][x] \in Nat
          BY <1>8
        <5>2. gen'[m][g][x] \in Nat
          BY <1>9
        <5> QED BY <3>3, <5>1, <5>2
      <4>2. b <= b2
        <5>1. CASE x = s
          BY <1>6, <1>9, <4>1, <5>1
        <5>2. CASE x # s
          BY <1>9, <4>1, <5>2
        <5> QED BY <5>1, <5>2
      <4>3. a >= b2 => a >= b
        BY <4>2
      <4>4. Ahead(m, message)
        BY <3>2, <3>4, <3>6, <4>1, <4>3 DEF Ahead
      <4>5. i \in 1 .. Len(old) \/ i = Len(old) + 1
        BY <1>12, <1>13, <3>2, <3>6
      <4>6. CASE i \in 1 .. Len(old)
        <5>1. \A p \in 1 .. Len(read[m][g]) : read[m][g][p].by = x => read[m][g][p].content < message.content
          <6>1. message.group = g /\ message.by = x
            BY <3>2, <3>6
          <6>2. ReadBefore
            BY DEF GroupsInv
          <6> QED BY <3>1, <4>4, <6>1, <6>2, Zenon DEF ReadBefore
        <5>2. read'[r][message.group] = new /\ new[i] = old[i]
          BY <1>12, <1>13, <3>2, <3>6, <4>6
        <5> QED BY <1>10, <2>2, <3>2, <4>6, <5>1, <5>2
      <4>7. CASE i = Len(old) + 1
        <5>1. x = s
          BY <1>7, <1>12, <1>13, <2>2, <3>2, <3>6, <4>7
        <5>2. After(message, v)
          <6>1. a >= b2 => a > n
            BY <1>9, <4>1, <5>1
          <6> QED BY <1>6, <3>4, <3>6, <4>1, <5>1, <6>1 DEF After
        <5>3. message.content > v.content
          BY <1>3, <3>1, <3>2, <3>6, <5>1, <5>2 DEF GroupsInv, SentInOrder
        <5>4. read'[r][message.group][i].content = c
          BY <1>7, <1>12, <1>13, <3>2, <3>6, <4>7
        <5>5. PICK z \in Nat : z = message.content
          BY <3>3
        <5>6. z > c
          BY <1>6, <5>3, <5>5
        <5> QED BY <5>4, <5>5, <5>6
      <4> QED BY <4>5, <4>6, <4>7
    <3> QED BY <3>5, <3>6
  <2> QED BY <2>1, <2>2, Zenon DEF ReadBefore
<1>25. CleanInv'
  <2> SUFFICES ASSUME clean, NEW y \in Members, NEW h \in Groups
               PROVE  \E b \in 0 .. Len(stored[h]) : SyncedFrom(y, h, b)'
    BY <1>2 DEF CleanInv
  <2>1. PICK b \in 0 .. Len(stored[h]) : SyncedFrom(y, h, b)
    BY DEF GroupsInv, CleanInv
  <2>2. group'[y][h] = group[y][h] /\ stored'[h] = stored[h] /\ outbox'[y] = outbox[y]
    BY <1>2
  <2>3. \A message \in Underway(y) :
          message.type # "GroupMessage" /\ message.group = h => message \in Underway(y)'
    BY <1>1
  <2>4. SyncedFrom(y, h, b)'
    BY <2>1, <2>2, <2>3, SyncedStays
  <2> QED BY <2>4
<1> QED BY <1>14, <1>15, <1>16, <1>17, <1>20, <1>23, <1>24, <1>25 DEF GroupsInv

LEMMA HandleContentStep ==
    ASSUME GroupsInv, NEW m \in Members, HandleContent(m)
    PROVE  GroupsInv'
<1>1. PICK v : v = NextOwed(m)
  OBVIOUS
<1>2. Receive(m) /\ v.type = "GroupMessage"
  BY <1>1 DEF HandleContent
<1>3. v \in Posts /\ v \in Underway(m)
  BY <1>1, <1>2, NextIsOwed
<1>4. PICK g \in Groups, s \in Members : g = v.group /\ s = v.by
  BY <1>2, <1>3, PostFacts
<1>5. \/ /\ Readable(m, v)
         /\ gen' = [gen EXCEPT ![m][g][s] = v.gen + 1]
         /\ read' = [read EXCEPT ![m][g] = Append(@, [by |-> s, content |-> v.content])]
         /\ Acknowledge(m) /\ UNCHANGED group
      \/ Fail(m)
  BY <1>1, <1>4, Zenon DEF HandleContent
<1>6. CASE /\ Readable(m, v)
           /\ gen' = [gen EXCEPT ![m][g][s] = v.gen + 1]
           /\ read' = [read EXCEPT ![m][g] = Append(@, [by |-> s, content |-> v.content])]
           /\ Acknowledge(m) /\ UNCHANGED group
  <2>1. v.log = group[m][g] /\ v.gen = gen[m][g][s]
    BY <1>4, <1>6 DEF Readable
  <2> QED BY <1>1, <1>2, <1>4, <1>6, <2>1, ContentRead
<1>7. CASE Fail(m)
  BY <1>2, <1>7, FailStep
<1> QED BY <1>5, <1>6, <1>7

-----------------------------------------------------------------------------
\* The inductive invariant, and what follows from it.

LEMMA GroupsStart == Init => GroupsInv
<1> SUFFICES ASSUME Init PROVE GroupsInv
  OBVIOUS
<1>1. /\ group = [m \in Members |-> [g \in Groups |-> NoGroup]]
      /\ gen = [m \in Members |-> [g \in Groups |-> FreshGen]]
      /\ outbox = [m \in Members |-> << >>] /\ handling = [m \in Members |-> << >>]
      /\ stored = [g \in Groups |-> NoGroup] /\ cached = [g \in Groups |-> NoGroup]
      /\ owed = [m \in Members |-> << >>] /\ tried = [m \in Members |-> 0]
      /\ read = [m \in Members |-> [g \in Groups |-> << >>]] /\ operations = 0
  BY DEF Init
<1>2. /\ << >> \in Seq(Posts) /\ << >> \in Seq(Answers) /\ << >> \in Seq(Readings) /\ NoGroup \in Logs
      /\ FreshGen \in [Members -> Nat]
  BY DEF NoGroup, Logs, FreshGen
<1>3. GroupTypes
  <2>1. [g \in Groups |-> NoGroup] \in [Groups -> Logs] /\ [g \in Groups |-> FreshGen] \in [Groups -> [Members -> Nat]]
        /\ [g \in Groups |-> << >>] \in [Groups -> Seq(Readings)]
    BY <1>2
  <2>2. group \in [Members -> [Groups -> Logs]]
    BY <1>1, <2>1
  <2>3. gen \in [Members -> [Groups -> [Members -> Nat]]]
    BY <1>1, <2>1
  <2>4. read \in [Members -> [Groups -> Seq(Readings)]]
    BY <1>1, <2>1
  <2>5. /\ outbox \in [Members -> Seq(Posts)] /\ handling \in [Members -> Seq(Answers)]
        /\ stored \in [Groups -> Logs] /\ cached \in [Groups -> Logs]
        /\ owed \in [Members -> Seq(Posts)] /\ tried \in [Members -> Nat] /\ operations \in Nat
    BY <1>1, <1>2
  <2> QED BY <2>2, <2>3, <2>4, <2>5 DEF GroupTypes
<1>4. /\ \A m \in Members, g \in Groups : group[m][g] = << >> /\ read[m][g] = << >>
      /\ \A g \in Groups : stored[g] = << >> /\ cached[g] = << >>
      /\ \A m \in Members : outbox[m] = << >> /\ handling[m] = << >> /\ owed[m] = << >>
  BY <1>1 DEF NoGroup
<1>5. Len(<< >>) = 0 /\ Items(<< >>) = {}
  BY DEF Items
<1>6. AddsOthers(<< >>) /\ \A g : Born(<< >>, g)
  BY <1>5 DEF AddsOthers, Born, NoGroup
<1>7. LogInv
  <2> SUFFICES ASSUME NEW m \in Members, NEW g \in Groups
               PROVE  /\ Born(group[m][g], g) /\ AddsOthers(group[m][g])
                      /\ group[m][g] # NoGroup => m \in GroupMembers(group[m][g])
                      /\ \E k \in 0 .. Len(stored[g]) : OwnAfter(m, g, k)
    BY DEF LogInv
  <2>1. OwnAfter(m, g, 0) /\ 0 \in 0 .. Len(stored[g])
    BY <1>4, <1>5 DEF OwnAfter
  <2> QED BY <1>4, <1>6, <2>1 DEF NoGroup
<1>8. ServerInv
  <2>1. GroupMembers(<< >>) = {}
    BY DEF GroupMembers
  <2> QED BY <1>4, <1>6, <2>1 DEF ServerInv, Groups, NoGroup
<1>9. OutInv
  BY <1>4, <1>5 DEF OutInv, CreatesOnce
<1>10. \A x \in Members : \A message : message \notin Underway(x)
  BY <1>4, <1>5, UnderwayAre
<1>11. ArriveInv
  BY <1>10 DEF ArriveInv
<1>12. \A message : message \notin Flying
  BY <1>4, <1>5, <1>10, FlyingAre
<1>13. SentInOrder
  BY <1>12 DEF SentInOrder
<1>14. ReadBefore /\ ReadInOrder
  BY <1>4, <1>5, <1>12 DEF ReadBefore, ReadInOrder
<1>15. CleanInv
  <2> SUFFICES ASSUME NEW y \in Members, NEW g \in Groups
               PROVE  \E b \in 0 .. Len(stored[g]) : SyncedFrom(y, g, b)
    BY DEF CleanInv
  <2>1. GroupMembers(stored[g]) = {}
    BY <1>4 DEF GroupMembers
  <2>2. SyncedFrom(y, g, 0) /\ 0 \in 0 .. Len(stored[g])
    BY <1>4, <1>5, <2>1 DEF SyncedFrom
  <2> QED BY <2>2
<1> QED BY <1>3, <1>7, <1>8, <1>9, <1>11, <1>13, <1>14, <1>15 DEF GroupsInv

LEMMA GroupsStutter ==
    ASSUME GroupsInv, UNCHANGED vars
    PROVE  GroupsInv'
<1>1. UNCHANGED <<group, gen, outbox, operations, clean, handling, stored, cached, owed, tried, read>>
  BY DEF vars
<1>2. \A x \in Members : Underway(x)' = Underway(x)
  BY <1>1, UnderwaySame
<1>3. /\ outbox' \in [Members -> Seq(Posts)] /\ handling' \in [Members -> Seq(Answers)]
      /\ cached' \in [Groups -> Logs] /\ owed' \in [Members -> Seq(Posts)]
      /\ tried' \in [Members -> Nat]
      /\ (\A h \in Groups : cached'[h] # NoGroup => cached'[h] = stored[h])
      /\ UNCHANGED <<group, gen, stored, read, operations>>
      /\ (\A k \in Members : outbox'[k] = outbox[k]) /\ (clean' => clean)
  BY <1>1 DEF GroupsInv, GroupTypes, ServerInv
<1> QED BY <1>2, <1>3, NothingHappens

LEMMA GroupsStep == GroupsInv /\ [Next]_vars => GroupsInv'
<1> SUFFICES ASSUME GroupsInv, [Next]_vars PROVE GroupsInv'
  OBVIOUS
<1>1. Device \in Members /\ MetaCreators \subseteq Members /\ Adders \subseteq Members
      /\ "DeviceGroup" \in Groups /\ "DeviceMetaGroup" \in Groups /\ "DeviceMetaGroup" # "DeviceGroup"
  BY GroupsAssumption DEF Groups
<1>2. Founders("DeviceGroup") = {Device} /\ Founders("DeviceMetaGroup") = MetaCreators
  BY DEF Founders
<1>3. CASE EnsureGroupCreates
  BY <1>1, <1>2, <1>3, CreateGroupStep DEF EnsureGroupCreates
<1>4. CASE EnsureGroupFound
  BY <1>4, EnsureGroupFoundStep
<1>5. CASE SendReport
  BY <1>1, <1>5, CreateMessageStep DEF SendReport
<1>6. CASE RestartServer
  BY <1>6, RestartServerStep
<1>7. ASSUME NEW m \in MetaCreators, CreateMetaGroup(m) PROVE GroupsInv'
  BY <1>1, <1>2, <1>7, CreateGroupStep DEF CreateMetaGroup
<1>8. ASSUME NEW m \in Adders, NEW g \in Groups, NEW x \in Members, AddMember(m, g, x)
      PROVE  GroupsInv'
  BY <1>1, <1>8, AddMemberStep
<1>9. ASSUME NEW m \in Members, SendMetaInfo(m) PROVE GroupsInv'
  BY <1>1, <1>9, CreateMessageStep DEF SendMetaInfo
<1>10. ASSUME NEW m \in Members,
              \/ HandleNewGroup(m) \/ HandleGroupMessage(m) \/ HandleAddToGroup(m) \/ Store(m)
              \/ HandleWelcome(m) \/ HandleCommit(m) \/ HandleContent(m) \/ Reconnect(m)
       PROVE  GroupsInv'
  BY <1>10, HandleNewGroupStep, HandleGroupMessageStep, HandleAddToGroupStep, StoreStep,
     HandleWelcomeStep, HandleCommitStep, HandleContentStep, ReconnectStep
<1>11. CASE UNCHANGED vars
  BY <1>11, GroupsStutter
<1> QED BY <1>3, <1>4, <1>5, <1>6, <1>7, <1>8, <1>9, <1>10, <1>11, Zenon DEF Next

\* A set of numbers has a least element, and a bounded one a greatest.
LEMMA LeastNat ==
    ASSUME NEW T, T \subseteq Nat, T # {}
    PROVE  \E x \in T : \A y \in T : x <= y
<1> DEFINE R == OpToRel(<, Nat)
<1>1. IsWellFoundedOn(R, Nat)
  BY NatLessThanWellFounded, Zenon
<1>2. \A x, y \in Nat : x < y => <<x, y>> \in R
  BY DEF OpToRel
<1> HIDE DEF R
<1>3. PICK x \in T : \A y \in T : ~ (<<y, x>> \in R)
  BY <1>1, WFMin
<1>4. ASSUME NEW y \in T PROVE x <= y
  <2>1. x \in Nat /\ y \in Nat /\ ~(y < x)
    BY <1>2, <1>3
  <2> QED BY <2>1
<1> QED BY <1>4

LEMMA GreatestExists ==
    ASSUME NEW n \in Nat, NEW K, K \subseteq 0 .. n, K # {}
    PROVE  \E z \in K : \A y \in K : z >= y
<1>1. PICK T : T = { y \in Nat : n - y \in K }
  OBVIOUS
<1>2. \A k \in K : k \in Int /\ n - k \in Nat /\ n - (n - k) = k
  OBVIOUS
<1>3. \A k \in K : n - k \in T
  BY <1>1, <1>2
<1>4. T \subseteq Nat /\ T # {}
  BY <1>1, <1>3
<1>5. PICK x \in T : \A y \in T : x <= y
  BY <1>4, LeastNat
<1>6. x \in Nat /\ n - x \in K
  BY <1>1, <1>5
<1>7. ASSUME NEW y \in K PROVE n - x >= y
  <2>1. x <= n - y /\ y \in Int
    BY <1>2, <1>3, <1>5
  <2> QED BY <1>6, <2>1
<1> QED BY <1>6, <1>7

LEMMA GreatestNat ==
    ASSUME NEW n \in Nat, NEW K, K \subseteq 0 .. n, K # {}
    PROVE  Max(K) \in K /\ \A y \in K : Max(K) >= y
BY GreatestExists, Zenon DEF Max

LEMMA ForkStart ==
    ASSUME GroupsInv, NEW m \in Members, NEW g \in Groups
    PROVE  LET mine == group[m][g]
               k == CommonLength(mine, ServerGroup(g))
           IN Len(mine) > k => mine[k + 1].by = m
<1>1. PICK a \in Logs, b \in Logs : a = group[m][g] /\ b = stored[g]
  BY GroupFacts
<1>2. ServerGroup(g) = b
  BY <1>1, GroupFacts
<1>3. Len(a) \in Nat /\ Len(b) \in Nat
  BY LogFacts
<1>13. PICK j \in 0 .. Len(stored[g]) : OwnAfter(m, g, j)
  BY GroupFacts
<1>4. /\ j \in 0 .. Len(b) /\ j <= Len(a) /\ \A i \in 1 .. j : a[i] = b[i]
      /\ \A i \in j + 1 .. Len(a) : a[i].by = m
  BY <1>1, <1>13 DEF OwnAfter
<1>5. PICK K : K = {k \in 0 .. Len(a) : k <= Len(b) /\ SubSeq(a, 1, k) = SubSeq(b, 1, k)}
  OBVIOUS
<1>6. j \in Nat /\ j <= Len(b) /\ j \in 0 .. Len(a)
  BY <1>3, <1>4
<1>7. SubSeq(a, 1, j) = SubSeq(b, 1, j)
  <2>1. 1 <= j + 1 /\ j + 1 - 1 = j /\ \A i \in 1 .. j : 1 + i - 1 = i
    BY <1>6
  <2>2. SubSeq(a, 1, j) \in Logs /\ Len(SubSeq(a, 1, j)) = j /\ \A i \in 1 .. j : SubSeq(a, 1, j)[i] = a[i]
    BY <1>3, <1>6, <2>1, PartFacts DEF Logs
  <2>3. SubSeq(b, 1, j) \in Logs /\ Len(SubSeq(b, 1, j)) = j /\ \A i \in 1 .. j : SubSeq(b, 1, j)[i] = b[i]
    BY <1>3, <1>6, <2>1, PartFacts DEF Logs
  <2> QED BY <1>4, <2>2, <2>3, EqualLogs
<1>8. j \in K /\ K \subseteq 0 .. Len(a)
  BY <1>5, <1>6, <1>7
<1>9. Max(K) \in K /\ Max(K) >= j
  BY <1>3, <1>8, GreatestNat
<1>10. CommonLength(group[m][g], ServerGroup(g)) = Max(K)
  BY <1>1, <1>2, <1>5 DEF CommonLength
<1>14. PICK k \in 0 .. Len(a) : k = Max(K)
  BY <1>8, <1>9
<1>15. PICK n \in Nat : n = Len(a)
  BY <1>3
<1>16. k \in 0 .. n /\ k >= j /\ j \in Nat
  BY <1>6, <1>9, <1>14, <1>15
<1>17. n > k => k + 1 \in j + 1 .. n
  BY <1>16
<1>11. Len(a) > Max(K) => Max(K) + 1 \in j + 1 .. Len(a)
  BY <1>14, <1>15, <1>17
<1>12. Len(a) > Max(K) => a[Max(K) + 1].by = m
  BY <1>4, <1>11
<1> QED BY <1>1, <1>10, <1>12

LEMMA QuietSynced ==
    ASSUME GroupsInv, clean, NEW g \in Groups, NEW m \in Members, m \in GroupMembers(stored[g]),
           \A k \in Members : /\ outbox[k] = << >> /\ handling[k] = << >>
                              /\ \A i \in DOMAIN owed[k] : owed[k][i].type = "GroupMessage"
    PROVE  group[m][g] = stored[g]
<1>1. Items(<< >>) = {}
  BY DEF Items
<1>2. \A message \in Items(owed[m]) : message.type = "GroupMessage"
  <2>1. DOMAIN owed[m] = 1 .. Len(owed[m])
    BY DEF GroupsInv, GroupTypes
  <2> QED BY <2>1 DEF Items
<1>3. \A message \in Underway(m) : message.type = "GroupMessage"
  <2>1. \A k \in Members : Items(handling[k]) = {}
    BY <1>1
  <2> QED BY <1>2, <2>1, UnderwayAre
<1>4. (\A j : ~Unsent(m, g, j)) /\ (\A j : ~Coming(m, g, j)) /\ ~Welcomed(m, g)
  <2>1. \A j : ~Unsent(m, g, j)
    BY <1>1 DEF Unsent
  <2>2. \A j : ~Coming(m, g, j)
    BY <1>3 DEF Coming
  <2>3. ~Welcomed(m, g)
    BY <1>3 DEF Welcomed
  <2> QED BY <2>1, <2>2, <2>3
<1>5. PICK b \in 0 .. Len(stored[g]) : SyncedFrom(m, g, b)
  BY DEF GroupsInv, CleanInv
<1>6. PICK mine \in Logs, theirs \in Logs : mine = group[m][g] /\ theirs = stored[g]
  BY GroupFacts
<1>7. Len(mine) \in Nat /\ Len(theirs) \in Nat /\ b \in Nat /\ b <= Len(theirs)
  BY <1>5, <1>6, LogFacts
<1>8. /\ b <= Len(mine) /\ (\A i \in 1 .. b : mine[i] = theirs[i])
      /\ (\A j \in b + 1 .. Len(mine) : FALSE) /\ mine # NoGroup
      /\ \A j \in b + 1 .. Len(theirs) : ~(\E i \in 1 .. j - 1 : m \in theirs[i].new)
  BY <1>4, <1>5, <1>6 DEF SyncedFrom
<1>9. Len(mine) = b
  <2>1. ~(b + 1 \in b + 1 .. Len(mine))
    BY <1>8
  <2> QED BY <1>7, <1>8, <2>1
<1>10. m \in GroupMembers(mine)
  BY <1>6, <1>8, GroupFacts
<1>11. PICK i \in 1 .. b : m \in theirs[i].new
  BY <1>8, <1>9, <1>10, LogFacts
<1>12. b = Len(theirs)
  <2> SUFFICES ASSUME b # Len(theirs) PROVE FALSE
    OBVIOUS
  <2>1. b + 1 \in b + 1 .. Len(theirs) /\ (b + 1) - 1 = b
    BY <1>7
  <2> QED BY <1>8, <1>11, <2>1
<1> QED BY <1>6, <1>8, <1>9, <1>12, EqualLogs

LEMMA GroupsResult == GroupsInv => GroupsAgree
<1> SUFFICES ASSUME GroupsInv PROVE GroupsAgree
  OBVIOUS
<1>1. ForkedOnlyByOwnCommit
  BY ForkStart DEF ForkedOnlyByOwnCommit
<1>2. QuietAgrees
  <2>1. \A g \in Groups : GroupMembers(stored[g]) \subseteq Members
    <3>1. \A g \in Groups : stored[g] \in Logs
      BY DEF GroupsInv, GroupTypes
    <3> QED BY <3>1, MembersAre
  <2> QED BY <2>1, QuietSynced DEF QuietAgrees
<1>3. CreatedOnce
  <2> SUFFICES ASSUME NEW g \in Groups
               PROVE  /\ cached[g] # NoGroup => cached[g] = stored[g]
                      /\ stored[g] # NoGroup =>
                            LET first == stored[g][1] IN group[first.by][g][1] = first
    BY DEF CreatedOnce
  <2>1. Born(stored[g], g) /\ (cached[g] # NoGroup => cached[g] = stored[g])
    BY DEF GroupsInv, ServerInv
  <2> QED BY <2>1 DEF Born
<1>4. AgentCanHandle
  <2> SUFFICES ASSUME NEW i \in DOMAIN owed[Device] PROVE owed[Device][i].type = "AddToGroup"
    BY DEF AgentCanHandle
  <2>1. Device \in Members
    BY GroupsAssumption
  <2>2. owed[Device] \in Seq(Posts)
    BY <2>1 DEF GroupsInv, GroupTypes
  <2>3. PICK message : message = owed[Device][i]
    OBVIOUS
  <2>4. message \in Items(owed[Device])
    BY <2>2, <2>3 DEF Items
  <2>5. message \in Underway(Device)
    BY <2>1, <2>4, UnderwayAre
  <2>6. message \in Posts /\ ArrivesOk(Device, message)
    BY <2>1, <2>5, UnderwayTypes
  <2> QED BY <2>3, <2>6, PostFacts DEF ArrivesOk
<1>5. ReadInOrder
  BY DEF GroupsInv
<1> QED BY <1>1, <1>2, <1>3, <1>4, <1>5 DEF GroupsAgree

\* MlsProcessor merges its own commits before the server has seen them, add_group
\* overwrites, the cache is not told, messages are lost with a connection and delivered
\* again after a crash: still, members and server agree as GroupsAgree says, for any
\* number of members, additions, messages and faults.
THEOREM GroupsAlwaysAgree == DevicesSpec => []GroupsAgree
<1>1. DevicesInit => GroupsInv
  BY GroupsStart DEF DevicesInit
<1>2. [DevicesNext]_devicesVars => [Next]_vars
  BY DEF DevicesNext, devicesVars, vars
<1>3. GroupsInv /\ [DevicesNext]_devicesVars => GroupsInv'
  BY <1>2, GroupsStep
<1> QED BY <1>1, <1>3, GroupsResult, PTL DEF DevicesSpec

-----------------------------------------------------------------------------
(* What a client keeps.                                                    *)

KeptItems == [kind : Kept!Kinds, at : 1 .. MaxStamp, own : BOOLEAN]
KeptMessages == [main : BOOLEAN, upto : 1 .. Len(log)]

\* Message j of the channel is an update of kind k.
Pends(k, j) == ~channel[j].main /\ log[channel[j].upto].kind = k

\* A row is of its kind and not before the first that was stored; what is shown has one.
RowInv ==
    \A k \in Kept!Kinds :
        /\ row[k].data # 0 => log[row[k].data].kind = k /\ row[k].at <= log[row[k].data].at
        /\ row[k].data = 0 => row[k].at = 0
        /\ shown[k] # 0 => row[k].data # 0

\* What the client was sent or sent itself is in the channel or behind it, or still to be
\* entered.
EnteredInv ==
    /\ \A i \in sending : log[i].own
    /\ \A k \in Kept!Kinds :
          entered[k] # 0 => /\ log[entered[k]].kind = k /\ entered[k] \notin sending
                            /\ log[entered[k]].own \/ entered[k] < next
    /\ \A k \in Kept!Kinds \ excused : \A i \in 1 .. Len(log) :
          log[i].kind = k /\ (log[i].own \/ i < next) => i \in sending \/ i <= entered[k]

\* The updates of a kind wait in the order of the log, and the last that was entered waits
\* or is overtaken only by a later one.
ChannelInv ==
    \A k \in Kept!Kinds \ excused :
        /\ \A j \in 1 .. Len(channel) : Pends(k, j) => channel[j].upto <= entered[k]
        /\ \A i, j \in 1 .. Len(channel) :
              i < j /\ Pends(k, i) /\ Pends(k, j) => channel[i].upto < channel[j].upto
        /\ \/ \E j \in 1 .. Len(channel) : Pends(k, j) /\ channel[j].upto = entered[k]
           \/ /\ \A j \in 1 .. Len(channel) : ~Pends(k, j)
              /\ Kept!Ascending(k) => shown[k] >= entered[k]

\* Without the user's state the rows follow the channel.
ShownInv ==
    mains = 0 =>
        /\ \A j \in 1 .. Len(channel) : ~channel[j].main
        /\ \A k \in Kept!Kinds \ excused :
              Kept!Ascending(k) =>
                  /\ row[k].data = shown[k] /\ shown[k] <= entered[k]
                  /\ \A j \in 1 .. Len(channel) : Pends(k, j) => shown[k] < channel[j].upto

KeptInv == Kept!TypeOK /\ RowInv /\ EnteredInv /\ ChannelInv /\ ShownInv

LEMMA KeptFacts ==
    ASSUME KeptInv
    PROVE  /\ log \in Seq(KeptItems) /\ Len(log) \in Nat /\ Len(log) <= MaxItems
           /\ \A i \in 1 .. Len(log) : log[i] \in KeptItems
           /\ DOMAIN log = 1 .. Len(log)
           /\ next \in 1 .. Len(log) + 1 /\ main \in 0 .. Len(log) /\ sending \subseteq 1 .. Len(log)
           /\ channel \in Seq(KeptMessages) /\ Len(channel) \in Nat /\ Len(channel) <= ChannelCap
           /\ \A j \in 1 .. Len(channel) : channel[j] \in KeptMessages
           /\ row \in [Kept!Kinds -> [data : 0 .. Len(log), at : 0 .. MaxStamp]]
           /\ shown \in [Kept!Kinds -> 0 .. Len(log)] /\ entered \in [Kept!Kinds -> 0 .. Len(log)]
           /\ \A k \in Kept!Kinds : shown[k] # 0 => log[shown[k]].kind = k
           /\ mains \in 0 .. MaxMains /\ crashes \in 0 .. MaxCrashes /\ excused \subseteq Kept!Kinds
           /\ ChannelCap \in Nat /\ MaxItems \in Nat /\ MaxStamp \in Nat /\ MaxMains \in Nat
           /\ MaxCrashes \in Nat
<1>1. Kept!TypeOK
  BY DEF KeptInv
<1>2. log \in Seq(KeptItems) /\ channel \in Seq(KeptMessages)
  BY <1>1 DEF Kept!TypeOK, KeptItems, KeptMessages
<1>3. /\ Len(log) \in Nat /\ Len(channel) \in Nat /\ DOMAIN log = 1 .. Len(log)
      /\ \A i \in 1 .. Len(log) : log[i] \in KeptItems
      /\ \A j \in 1 .. Len(channel) : channel[j] \in KeptMessages
  BY <1>2
<1> QED BY <1>1, <1>2, <1>3, KeptAssumption DEF Kept!TypeOK, Kept!Bounded

LEMMA MoreElements ==
    ASSUME NEW S, NEW T, S \subseteq T, NEW s \in Seq(S)
    PROVE  s \in Seq(T)
OBVIOUS

\* The server's log gets another update.
LEMMA KeptLogGrows ==
    ASSUME KeptInv, NEW item \in KeptItems, Len(log) < MaxItems, log' = Append(log, item),
           sending' = (IF item.own THEN sending \cup {Len(log) + 1} ELSE sending),
           UNCHANGED <<next, channel, row, shown, main, mains, crashes, entered, excused>>
    PROVE  KeptInv'
<1>1. PICK n \in Nat : n = Len(log)
  BY KeptFacts
<1>2. PICK new : new = log'
  OBVIOUS
<1>3. /\ new \in Seq(KeptItems) /\ Len(new) = n + 1 /\ new[n + 1] = item
      /\ \A i \in 1 .. n : new[i] = log[i]
  BY <1>1, <1>2, KeptFacts, AppendFacts
<1>4. DOMAIN new = 1 .. n + 1 /\ n + 1 <= MaxItems
  BY <1>1, <1>3, KeptFacts
<1>5. sending' \subseteq 1 .. n + 1
  BY <1>1, KeptFacts
<1>6. \A k \in Kept!Kinds : Kept!Ascending(k)' => Kept!Ascending(k)
  <2> SUFFICES ASSUME NEW k \in Kept!Kinds, Kept!Ascending(k)' PROVE Kept!Ascending(k)
    OBVIOUS
  <2>1. \A i, j \in 1 .. n + 1 :
          i < j /\ new[i].kind = k /\ new[j].kind = k => new[i].at < new[j].at
    BY <1>2, <1>4 DEF Kept!Ascending
  <2>2. \A i \in 1 .. n : i \in 1 .. n + 1
    OBVIOUS
  <2>3. \A i, j \in 1 .. n :
          i < j /\ log[i].kind = k /\ log[j].kind = k => log[i].at < log[j].at
    BY <1>3, <2>1, <2>2
  <2> QED BY <1>1, <2>3, KeptFacts DEF Kept!Ascending
<1>7. Kept!TypeOK'
  <2>1. KeptMessages \subseteq [main : BOOLEAN, upto : 1 .. n + 1]
    BY <1>1 DEF KeptMessages
  <2>2. channel \in Seq([main : BOOLEAN, upto : 1 .. n + 1])
    BY <2>1, KeptFacts, MoreElements
  <2>3. row \in [Kept!Kinds -> [data : 0 .. n + 1, at : 0 .. MaxStamp]]
    BY <1>1, KeptFacts
  <2>4. /\ next \in 1 .. (n + 1) + 1 /\ main \in 0 .. n + 1
        /\ shown \in [Kept!Kinds -> 0 .. n + 1] /\ entered \in [Kept!Kinds -> 0 .. n + 1]
        /\ \A k \in Kept!Kinds : shown[k] # 0 => new[shown[k]].kind = k
    <3>1. \A k \in Kept!Kinds : shown[k] \in 0 .. n
      BY <1>1, KeptFacts
    <3>2. \A k \in Kept!Kinds : shown[k] # 0 => shown[k] \in 1 .. n
      BY <3>1
    <3>3. \A k \in Kept!Kinds : shown[k] # 0 => new[shown[k]].kind = k
      BY <1>3, <3>2, KeptFacts
    <3>4. /\ next \in 1 .. (n + 1) + 1 /\ main \in 0 .. n + 1
          /\ shown \in [Kept!Kinds -> 0 .. n + 1] /\ entered \in [Kept!Kinds -> 0 .. n + 1]
      <4>1. /\ next \in 1 .. n + 1 /\ main \in 0 .. n
            /\ shown \in [Kept!Kinds -> 0 .. n] /\ entered \in [Kept!Kinds -> 0 .. n]
        BY <1>1, KeptFacts
      <4>2. 0 .. n \subseteq 0 .. n + 1 /\ 1 .. n + 1 \subseteq 1 .. (n + 1) + 1
        OBVIOUS
      <4> QED BY <4>1, <4>2
    <3> QED BY <3>3, <3>4
  <2> QED BY <1>2, <1>3, <1>4, <1>5, <2>2, <2>3, <2>4, KeptFacts DEF Kept!TypeOK, KeptItems
<1>8. /\ \A k \in Kept!Kinds : /\ row[k].data \in 0 .. n /\ entered[k] \in 0 .. n
      /\ \A j \in 1 .. Len(channel) : channel[j].upto \in 1 .. n
  BY <1>1, KeptFacts DEF KeptMessages
<1>9. \A k \in Kept!Kinds : \A j \in 1 .. Len(channel) : Pends(k, j)' <=> Pends(k, j)
  BY <1>2, <1>3, <1>8 DEF Pends
<1>10. RowInv'
  <2>1. \A k \in Kept!Kinds : row[k].data # 0 => row[k].data \in 1 .. n
    BY <1>8
  <2> QED BY <1>2, <1>3, <2>1 DEF RowInv, KeptInv
<1>11. EnteredInv'
  <2>1. \A i \in sending' : new[i].own
    <3>1. \A i \in sending : i \in 1 .. n /\ log[i].own
      BY <1>1, KeptFacts DEF KeptInv, EnteredInv
    <3> QED BY <1>1, <1>3, <3>1
  <2>2. ASSUME NEW k \in Kept!Kinds, entered[k] # 0
        PROVE  /\ new[entered[k]].kind = k /\ entered[k] \notin sending'
               /\ new[entered[k]].own \/ entered[k] < next
    <3>1. entered[k] \in 1 .. n /\ entered[k] # n + 1
      BY <1>8, <2>2
    <3>2. /\ log[entered[k]].kind = k /\ entered[k] \notin sending
          /\ log[entered[k]].own \/ entered[k] < next
      BY <2>2 DEF KeptInv, EnteredInv
    <3> QED BY <1>1, <1>3, <3>1, <3>2
  <2>3. ASSUME NEW k \in Kept!Kinds \ excused, NEW i \in 1 .. n + 1,
               new[i].kind = k, new[i].own \/ i < next
        PROVE  i \in sending' \/ i <= entered[k]
    <3>1. CASE i \in 1 .. n
      <4>1. i \in sending \/ i <= entered[k]
        BY <1>1, <1>3, <2>3, <3>1 DEF KeptInv, EnteredInv
      <4> QED BY <4>1
    <3>2. CASE i = n + 1
      <4>1. ~(i < next)
        BY <1>1, <3>2, KeptFacts
      <4> QED BY <1>1, <1>3, <2>3, <3>2, <4>1
    <3> QED BY <3>1, <3>2
  <2> QED BY <1>2, <1>3, <2>1, <2>2, <2>3 DEF EnteredInv
<1>12. ChannelInv'
  BY <1>6, <1>9 DEF ChannelInv, KeptInv
<1>13. ShownInv'
  BY <1>6, <1>9 DEF ShownInv, KeptInv
<1> QED BY <1>7, <1>10, <1>11, <1>12, <1>13 DEF KeptInv

LEMMA KeptStutter ==
    ASSUME KeptInv,
           UNCHANGED <<log, next, sending, channel, row, shown, main, mains, crashes, entered, excused>>
    PROVE  KeptInv'
<1>1. \A k, j : (Pends(k, j)' <=> Pends(k, j)) /\ (Kept!Ascending(k)' <=> Kept!Ascending(k))
  BY DEF Pends, Kept!Ascending
<1>2. Kept!TypeOK' /\ RowInv' /\ EnteredInv'
  BY DEF KeptInv, Kept!TypeOK, RowInv, EnteredInv
<1>3. ChannelInv' /\ ShownInv'
  BY <1>1 DEF KeptInv, ChannelInv, ShownInv
<1> QED BY <1>2, <1>3 DEF KeptInv

\* An own update the client is not sent again.
LEMMA OwnIsPassed ==
    ASSUME KeptInv, next <= Len(log), log[next].own, next' = next + 1,
           UNCHANGED <<log, sending, channel, row, shown, main, mains, crashes, entered, excused>>
    PROVE  KeptInv'
<1>1. \A k, j : (Pends(k, j)' <=> Pends(k, j)) /\ (Kept!Ascending(k)' <=> Kept!Ascending(k))
  BY DEF Pends, Kept!Ascending
<1>2. next + 1 \in 1 .. Len(log) + 1 /\ next \in Nat /\ Len(log) \in Nat
  BY KeptFacts
<1>3. Kept!TypeOK' /\ RowInv'
  BY <1>2 DEF KeptInv, Kept!TypeOK, RowInv
<1>4. EnteredInv'
  <2>1. \A k \in Kept!Kinds : entered[k] < next => entered[k] < next + 1
    BY <1>2, KeptFacts
  <2>2. \A i \in 1 .. Len(log) : i < next + 1 => i < next \/ log[i].own
    BY <1>2
  <2> QED BY <2>1, <2>2 DEF KeptInv, EnteredInv
<1>5. ChannelInv' /\ ShownInv'
  BY <1>1 DEF KeptInv, ChannelInv, ShownInv
<1> QED BY <1>3, <1>4, <1>5 DEF KeptInv

\* update_client_state: an own update, or the next one of another.
LEMMA EnterStep ==
    ASSUME KeptInv, NEW i \in 1 .. Len(log), Kept!Enter(i),
           \/ i \in sending /\ sending' = sending \ {i} /\ next' = next
           \/ ~log[i].own /\ i = next /\ sending' = sending /\ next' = next + 1,
           UNCHANGED <<log, row, shown, main, mains, crashes>>
    PROVE  KeptInv'
<1>1. PICK n \in Nat : n = Len(log)
  BY KeptFacts
<1>2. PICK k0 \in Kept!Kinds : k0 = log[i].kind
  BY <1>1, KeptFacts DEF KeptItems
<1>3. PICK message : message = [main |-> FALSE, upto |-> i]
  OBVIOUS
<1>4. /\ Len(channel) < ChannelCap /\ channel' = Append(channel, message)
      /\ entered' = [entered EXCEPT ![k0] = i]
      /\ excused' = IF i < entered[k0] THEN excused \cup {k0} ELSE excused
  BY <1>2, <1>3 DEF Kept!Enter
<1>5. message \in KeptMessages /\ ~message.main /\ message.upto = i
  BY <1>3 DEF KeptMessages
<1>6. PICK c \in Nat : c = Len(channel)
  BY KeptFacts
<1>7. /\ channel' \in Seq(KeptMessages) /\ Len(channel') = c + 1 /\ channel'[c + 1] = message
      /\ \A j \in 1 .. c : channel'[j] = channel[j]
  BY <1>4, <1>5, <1>6, KeptFacts, AppendFacts
<1>8. /\ entered' \in [Kept!Kinds -> 0 .. n] /\ entered'[k0] = i
      /\ \A k \in Kept!Kinds : k # k0 => entered'[k] = entered[k]
  BY <1>1, <1>2, <1>4, KeptFacts
<1>9. \A k \in Kept!Kinds : entered[k] \in 0 .. n
  BY <1>1, KeptFacts
<1>10. i # entered[k0] /\ i \in 1 .. n /\ i \notin sending' /\ (log[i].own \/ i < next')
  <2>1. entered[k0] # 0 => /\ entered[k0] \notin sending
                           /\ log[entered[k0]].own \/ entered[k0] < next
    BY DEF KeptInv, EnteredInv
  <2>2. \A x \in sending : log[x].own
    BY DEF KeptInv, EnteredInv
  <2>3. next \in Nat /\ i \in Nat /\ i # 0
    BY <1>1, KeptFacts
  <2> QED BY <1>1, <2>1, <2>2, <2>3
<1>11. excused \subseteq excused' /\ excused' \subseteq Kept!Kinds
       /\ (k0 \notin excused' => entered[k0] < i)
  <2>1. excused \subseteq Kept!Kinds
    BY KeptFacts
  <2>2. entered[k0] \in Int /\ i \in Int
    BY <1>9, <1>10
  <2> QED BY <1>2, <1>4, <1>10, <2>1, <2>2
<1>12. next' \in 1 .. n + 1 /\ next \in Nat /\ next' \in Nat /\ next <= next' /\ sending' \subseteq sending
  <2>1. next \in 1 .. n + 1 /\ i \in 1 .. n
    BY <1>1, KeptFacts
  <2>2. next' = next \/ (next = i /\ next' = next + 1)
    OBVIOUS
  <2>3. next' \in 1 .. n + 1 /\ next \in Nat /\ next' \in Nat /\ next <= next'
    BY <2>1, <2>2
  <2> QED BY <2>3
<1>13. \A k : Kept!Ascending(k)' <=> Kept!Ascending(k)
  BY DEF Kept!Ascending
<1>14. \A k \in Kept!Kinds : /\ \A j \in 1 .. c : Pends(k, j)' <=> Pends(k, j)
                             /\ Pends(k, c + 1)' <=> k = k0
  BY <1>2, <1>5, <1>7 DEF Pends
<1>15. Kept!TypeOK'
  <2>1. c + 1 <= ChannelCap
    BY <1>4, <1>6, KeptFacts
  <2> QED BY <1>1, <1>7, <1>8, <1>11, <1>12, <2>1, KeptFacts DEF Kept!TypeOK, KeptItems, KeptMessages
<1>16. RowInv'
  BY DEF KeptInv, RowInv
<1>17. EnteredInv'
  <2>1. \A x \in sending' : log[x].own
    BY <1>12 DEF KeptInv, EnteredInv
  <2>2. ASSUME NEW k \in Kept!Kinds, entered'[k] # 0
        PROVE  /\ log[entered'[k]].kind = k /\ entered'[k] \notin sending'
               /\ log[entered'[k]].own \/ entered'[k] < next'
    <3>1. CASE k = k0
      BY <1>2, <1>8, <1>10, <3>1
    <3>2. CASE k # k0
      <4>1. /\ log[entered[k]].kind = k /\ entered[k] \notin sending
            /\ log[entered[k]].own \/ entered[k] < next
        BY <1>8, <2>2, <3>2 DEF KeptInv, EnteredInv
      <4>2. entered[k] < next => entered[k] < next'
        BY <1>9, <1>12
      <4> QED BY <1>8, <1>12, <3>2, <4>1, <4>2
    <3> QED BY <3>1, <3>2
  <2>3. ASSUME NEW k \in Kept!Kinds \ excused', NEW x \in 1 .. Len(log),
               log[x].kind = k, log[x].own \/ x < next'
        PROVE  x \in sending' \/ x <= entered'[k]
    <3>1. CASE x = i
      BY <1>2, <1>8, <2>3, <3>1
    <3>2. CASE x # i
      <4>1. log[x].own \/ x < next
        BY <1>1, <1>12, <2>3, <3>2
      <4>2. x \in sending \/ x <= entered[k]
        BY <1>11, <2>3, <4>1 DEF KeptInv, EnteredInv
      <4>3. entered[k] <= entered'[k]
        BY <1>8, <1>9, <1>10, <1>11, <2>3
      <4> QED BY <1>1, <1>8, <1>9, <3>2, <4>2, <4>3
    <3> QED BY <3>1, <3>2
  <2> QED BY <2>1, <2>2, <2>3 DEF EnteredInv
<1>18. ChannelInv'
  <2> SUFFICES ASSUME NEW k \in Kept!Kinds \ excused'
               PROVE  /\ \A j \in 1 .. c + 1 : Pends(k, j)' => channel'[j].upto <= entered'[k]
                      /\ \A a, b \in 1 .. c + 1 :
                            a < b /\ Pends(k, a)' /\ Pends(k, b)' => channel'[a].upto < channel'[b].upto
                      /\ \/ \E j \in 1 .. c + 1 : Pends(k, j)' /\ channel'[j].upto = entered'[k]
                         \/ /\ \A j \in 1 .. c + 1 : ~Pends(k, j)'
                            /\ Kept!Ascending(k) => shown[k] >= entered'[k]
    BY <1>7, <1>13 DEF ChannelInv
  <2>1. \A j \in 1 .. c : channel[j].upto \in 1 .. n
    BY <1>1, <1>6, KeptFacts DEF KeptMessages
  <2>2. /\ \A j \in 1 .. c : Pends(k, j) => channel[j].upto <= entered[k]
        /\ \A a, b \in 1 .. c : a < b /\ Pends(k, a) /\ Pends(k, b) => channel[a].upto < channel[b].upto
        /\ \/ \E j \in 1 .. c : Pends(k, j) /\ channel[j].upto = entered[k]
           \/ /\ \A j \in 1 .. c : ~Pends(k, j)
              /\ Kept!Ascending(k) => shown[k] >= entered[k]
    BY <1>6, <1>11 DEF KeptInv, ChannelInv
  <2>3. c + 1 \in 1 .. c + 1 /\ \A j \in 1 .. c + 1 : j \in 1 .. c \/ j = c + 1
    OBVIOUS
  <2>4. \A j \in 1 .. c : j \in 1 .. c + 1
    OBVIOUS
  <2>5. CASE k = k0
    <3>1. entered[k] < i /\ entered'[k] = i /\ Pends(k, c + 1)' /\ channel'[c + 1].upto = i
      BY <1>5, <1>7, <1>8, <1>11, <1>14, <2>5
    <3>2. \A j \in 1 .. c : Pends(k, j)' => channel'[j].upto < i
      BY <1>7, <1>9, <1>10, <1>14, <2>1, <2>2, <3>1
    <3>3. \A j \in 1 .. c + 1 : Pends(k, j)' => channel'[j].upto <= entered'[k]
      <4>1. \A j \in 1 .. c : Pends(k, j)' => channel'[j].upto <= i
        BY <1>7, <1>10, <2>1, <3>2
      <4>2. i <= i
        BY <1>10
      <4> QED BY <2>3, <3>1, <4>1, <4>2
    <3>4. ASSUME NEW a \in 1 .. c + 1, NEW b \in 1 .. c + 1, a < b, Pends(k, a)', Pends(k, b)'
          PROVE  channel'[a].upto < channel'[b].upto
      <4>1. a \in 1 .. c
        BY <3>4
      <4>2. CASE b \in 1 .. c
        BY <1>7, <1>14, <2>2, <3>4, <4>1, <4>2
      <4>3. CASE b = c + 1
        BY <3>1, <3>2, <3>4, <4>1, <4>3
      <4> QED BY <2>3, <4>2, <4>3
    <3> QED BY <2>3, <3>1, <3>3, <3>4
  <2>6. CASE k # k0
    <3>1. entered'[k] = entered[k] /\ ~Pends(k, c + 1)'
      BY <1>8, <1>14, <2>6
    <3>2. \A j \in 1 .. c + 1 : Pends(k, j)' => j \in 1 .. c /\ Pends(k, j) /\ channel'[j] = channel[j]
      BY <1>7, <1>14, <2>3, <3>1
    <3>3. \A a, b \in 1 .. c + 1 :
             a < b /\ Pends(k, a)' /\ Pends(k, b)' => channel'[a].upto < channel'[b].upto
      BY <2>2, <3>2
    <3>4. \A j \in 1 .. c : Pends(k, j) => j \in 1 .. c + 1 /\ Pends(k, j)' /\ channel'[j] = channel[j]
      BY <1>7, <1>14, <2>4
    <3> QED BY <2>2, <3>1, <3>2, <3>3, <3>4
  <2> QED BY <2>5, <2>6
<1>19. ShownInv'
  <2> SUFFICES ASSUME mains = 0
               PROVE  /\ \A j \in 1 .. c + 1 : ~channel'[j].main
                      /\ \A k \in Kept!Kinds \ excused' :
                            Kept!Ascending(k) =>
                              /\ row[k].data = shown[k] /\ shown[k] <= entered'[k]
                              /\ \A j \in 1 .. c + 1 : Pends(k, j)' => shown[k] < channel'[j].upto
    BY <1>7, <1>13 DEF ShownInv
  <2>1. \A j \in 1 .. c + 1 : j \in 1 .. c \/ j = c + 1
    OBVIOUS
  <2>2. \A j \in 1 .. c + 1 : ~channel'[j].main
    BY <1>5, <1>6, <1>7, <2>1 DEF KeptInv, ShownInv
  <2>3. ASSUME NEW k \in Kept!Kinds \ excused', Kept!Ascending(k)
        PROVE  /\ row[k].data = shown[k] /\ shown[k] <= entered'[k]
               /\ \A j \in 1 .. c + 1 : Pends(k, j)' => shown[k] < channel'[j].upto
    <3>1. /\ row[k].data = shown[k] /\ shown[k] <= entered[k]
          /\ \A j \in 1 .. c : Pends(k, j) => shown[k] < channel[j].upto
      BY <1>6, <1>11, <2>3 DEF KeptInv, ShownInv
    <3>2. shown[k] \in 0 .. n
      BY <1>1, KeptFacts
    <3>3. k = k0 => shown[k] < i
      BY <1>9, <1>10, <1>11, <3>1, <3>2
    <3>4. shown[k] <= entered'[k]
      BY <1>8, <1>10, <3>1, <3>2, <3>3
    <3>5. ASSUME NEW j \in 1 .. c + 1, Pends(k, j)' PROVE shown[k] < channel'[j].upto
      <4>1. CASE j \in 1 .. c
        BY <1>7, <1>14, <3>1, <3>5, <4>1
      <4>2. CASE j = c + 1
        BY <1>5, <1>7, <1>14, <3>3, <3>5, <4>2
      <4> QED BY <2>1, <4>1, <4>2
    <3> QED BY <3>1, <3>4, <3>5
  <2> QED BY <2>2, <2>3
<1> QED BY <1>15, <1>16, <1>17, <1>18, <1>19 DEF KeptInv

LEMMA SendMainStep ==
    ASSUME KeptInv, Kept!SendMainState PROVE KeptInv'
<1>1. PICK p \in main .. Len(log) :
        p > 0 /\ main' = p /\ channel' = Append(channel, [main |-> TRUE, upto |-> p])
  BY DEF Kept!SendMainState
<1>2. /\ mains < MaxMains /\ Len(channel) < ChannelCap /\ mains' = mains + 1
      /\ UNCHANGED <<log, next, sending, row, shown, crashes, entered, excused>>
  BY DEF Kept!SendMainState
<1>3. PICK message : message = [main |-> TRUE, upto |-> p]
  OBVIOUS
<1>4. p \in 1 .. Len(log) /\ message \in KeptMessages /\ message.main
  <2>1. p \in 1 .. Len(log)
    BY <1>1, KeptFacts
  <2> QED BY <1>3, <2>1 DEF KeptMessages
<1>5. PICK c \in Nat : c = Len(channel)
  BY KeptFacts
<1>6. /\ channel' \in Seq(KeptMessages) /\ Len(channel') = c + 1 /\ channel'[c + 1] = message
      /\ \A j \in 1 .. c : channel'[j] = channel[j]
  BY <1>1, <1>3, <1>4, <1>5, KeptFacts, AppendFacts
<1>7. c + 1 <= ChannelCap /\ mains + 1 \in 0 .. MaxMains /\ mains + 1 # 0
  <2>1. mains \in 0 .. MaxMains /\ MaxMains \in Nat /\ ChannelCap \in Nat
    BY KeptFacts
  <2>2. mains + 1 \in 0 .. MaxMains /\ mains + 1 # 0
    BY <1>2, <2>1
  <2> QED BY <1>2, <1>5, <2>1, <2>2
<1>8. Kept!TypeOK'
  <2>1. main' \in 0 .. Len(log) /\ mains' \in 0 .. MaxMains /\ Len(channel') <= ChannelCap
    BY <1>1, <1>2, <1>4, <1>6, <1>7, KeptFacts
  <2>2. channel' \in Seq([main : BOOLEAN, upto : 1 .. Len(log)])
    BY <1>6 DEF KeptMessages
  <2> QED BY <1>2, <2>1, <2>2 DEF KeptInv, Kept!TypeOK
<1>9. RowInv' /\ EnteredInv'
  BY <1>2 DEF KeptInv, RowInv, EnteredInv
<1>10. \A k \in Kept!Kinds : /\ \A j \in 1 .. c : Pends(k, j)' <=> Pends(k, j)
                             /\ ~Pends(k, c + 1)'
  BY <1>2, <1>4, <1>6 DEF Pends
<1>11. \A k : Kept!Ascending(k)' <=> Kept!Ascending(k)
  BY <1>2 DEF Kept!Ascending
<1>12. ChannelInv'
  <2> SUFFICES ASSUME NEW k \in Kept!Kinds \ excused
               PROVE  /\ \A j \in 1 .. c + 1 : Pends(k, j)' => channel'[j].upto <= entered[k]
                      /\ \A a, b \in 1 .. c + 1 :
                            a < b /\ Pends(k, a)' /\ Pends(k, b)' => channel'[a].upto < channel'[b].upto
                      /\ \/ \E j \in 1 .. c + 1 : Pends(k, j)' /\ channel'[j].upto = entered[k]
                         \/ /\ \A j \in 1 .. c + 1 : ~Pends(k, j)'
                            /\ Kept!Ascending(k) => shown[k] >= entered[k]
    BY <1>2, <1>6, <1>11 DEF ChannelInv
  <2>1. \A j \in 1 .. c + 1 : j \in 1 .. c \/ j = c + 1
    OBVIOUS
  <2>2. /\ \A j \in 1 .. c : Pends(k, j) => channel[j].upto <= entered[k]
        /\ \A a, b \in 1 .. c : a < b /\ Pends(k, a) /\ Pends(k, b) => channel[a].upto < channel[b].upto
        /\ \/ \E j \in 1 .. c : Pends(k, j) /\ channel[j].upto = entered[k]
           \/ /\ \A j \in 1 .. c : ~Pends(k, j)
              /\ Kept!Ascending(k) => shown[k] >= entered[k]
    BY <1>5 DEF KeptInv, ChannelInv
  <2>3. \A j \in 1 .. c + 1 : Pends(k, j)' => j \in 1 .. c /\ Pends(k, j) /\ channel'[j] = channel[j]
    BY <1>6, <1>10, <2>1
  <2>4. \A j \in 1 .. c : Pends(k, j) => j \in 1 .. c + 1 /\ Pends(k, j)' /\ channel'[j] = channel[j]
    <3>1. \A j \in 1 .. c : j \in 1 .. c + 1
      OBVIOUS
    <3> QED BY <1>6, <1>10, <3>1
  <2>5. \A a, b \in 1 .. c + 1 :
          a < b /\ Pends(k, a)' /\ Pends(k, b)' => channel'[a].upto < channel'[b].upto
    BY <2>2, <2>3
  <2> QED BY <2>2, <2>3, <2>4, <2>5
<1>13. ShownInv'
  BY <1>2, <1>7 DEF ShownInv
<1> QED BY <1>8, <1>9, <1>12, <1>13 DEF KeptInv

LEMMA GreatestOf ==
    ASSUME NEW n \in Nat, NEW K, K \subseteq 0 .. n, K # {}
    PROVE  Kept!Max(K) \in K /\ \A y \in K : Kept!Max(K) >= y
BY GreatestExists, Zenon DEF Kept!Max

LEMMA LastIs ==
    ASSUME KeptInv, NEW k \in Kept!Kinds, NEW p \in 0 .. Len(log)
    PROVE  /\ Kept!LastOf(k, p) \in 0 .. p
           /\ Kept!LastOf(k, p) # 0 => log[Kept!LastOf(k, p)].kind = k
           /\ \A i \in 1 .. p : log[i].kind = k => i <= Kept!LastOf(k, p)
<1>1. PICK K : K = {0} \cup {i \in 1 .. p : log[i].kind = k}
  OBVIOUS
<1>2. p \in Nat /\ K \subseteq 0 .. p /\ K # {}
  BY <1>1, KeptFacts
<1>3. Kept!Max(K) \in K /\ \A y \in K : Kept!Max(K) >= y
  BY <1>2, GreatestOf
<1>4. Kept!LastOf(k, p) = Kept!Max(K)
  BY <1>1 DEF Kept!LastOf
<1>5. PICK x \in K : x = Kept!Max(K)
  BY <1>3
<1>6. \A i \in 1 .. p : log[i].kind = k => i <= x
  BY <1>1, <1>2, <1>3, <1>5
<1> QED BY <1>1, <1>2, <1>4, <1>5, <1>6

\* What the task makes of one message.
LEMMA UpdateIs ==
    ASSUME KeptInv, NEW message \in KeptMessages, NEW k \in Kept!Kinds
    PROVE  /\ Kept!UpdateOf(message, k) \in 0 .. Len(log)
           /\ Kept!UpdateOf(message, k) # 0 => log[Kept!UpdateOf(message, k)].kind = k
<1>1. message.upto \in 1 .. Len(log) /\ message.upto \in 0 .. Len(log) /\ Len(log) \in Nat
  BY KeptFacts DEF KeptMessages
<1>2. CASE message.main
  <2>1. Kept!UpdateOf(message, k) = Kept!LastOf(k, message.upto)
    BY <1>2 DEF Kept!UpdateOf
  <2> QED BY <1>1, <2>1, LastIs
<1>3. CASE ~message.main
  BY <1>1, <1>3 DEF Kept!UpdateOf
<1> QED BY <1>2, <1>3

LEMMA StampIs ==
    ASSUME KeptInv, NEW i \in 0 .. Len(log)
    PROVE  /\ Kept!Stamp(i) \in 0 .. MaxStamp
           /\ i = 0 => Kept!Stamp(i) = 0
           /\ i # 0 => Kept!Stamp(i) = log[i].at /\ Kept!Stamp(i) \in 1 .. MaxStamp
<1>1. i # 0 => log[i] \in KeptItems
  BY KeptFacts
<1>2. MaxStamp \in Nat
  BY KeptFacts
<1> QED BY <1>1, <1>2 DEF Kept!Stamp, KeptItems

LEMMA UpsertIs ==
    ASSUME KeptInv, NEW k \in Kept!Kinds, NEW i \in 1 .. Len(log), log[i].kind = k
    PROVE  LET new == Kept!Upsert(row[k], i)
           IN /\ new \in [data : 0 .. Len(log), at : 0 .. MaxStamp]
              /\ new.data # 0 /\ log[new.data].kind = k /\ new.at <= log[new.data].at
              /\ row[k].at < log[i].at => new.data = i
<1>1. PICK old \in [data : 0 .. Len(log), at : 0 .. MaxStamp] : old = row[k]
  BY KeptFacts
<1>2. /\ old.data # 0 => log[old.data].kind = k /\ old.at <= log[old.data].at
      /\ old.data = 0 => old.at = 0
  BY <1>1 DEF KeptInv, RowInv
<1>3. log[i].at \in 1 .. MaxStamp /\ Kept!Stamp(i) = log[i].at /\ MaxStamp \in Nat /\ Len(log) \in Nat
  <2>1. log[i] \in KeptItems /\ MaxStamp \in Nat /\ Len(log) \in Nat /\ i # 0
    BY KeptFacts
  <2> QED BY <2>1 DEF Kept!Stamp, KeptItems
<1>4. PICK new : new = Kept!Upsert(old, i)
  OBVIOUS
<1>5. old = Kept!NoRow <=> old.data = 0
  BY <1>2 DEF Kept!NoRow
<1>6. CASE old.data = 0
  <2>1. new = [data |-> i, at |-> log[i].at]
    BY <1>3, <1>4, <1>5, <1>6 DEF Kept!Upsert
  <2> QED BY <1>1, <1>3, <1>4, <2>1
<1>7. CASE old.data # 0 /\ old.at < log[i].at
  <2>1. new = [old EXCEPT !.data = i]
    BY <1>3, <1>4, <1>5, <1>7 DEF Kept!Upsert
  <2>2. new.data = i /\ new.at = old.at /\ new \in [data : 0 .. Len(log), at : 0 .. MaxStamp]
    BY <2>1
  <2>3. old.at <= log[i].at
    BY <1>1, <1>3, <1>7
  <2> QED BY <1>1, <1>3, <1>4, <2>2, <2>3
<1>8. CASE old.data # 0 /\ ~(old.at < log[i].at)
  <2>1. new = old
    BY <1>3, <1>4, <1>5, <1>8 DEF Kept!Upsert
  <2> QED BY <1>1, <1>2, <1>4, <1>8, <2>1
<1> QED BY <1>6, <1>7, <1>8

LEMMA StoreIs ==
    ASSUME KeptInv, NEW message \in KeptMessages, NEW written, NEW table,
           table = Kept!Store(message, written)
    PROVE  /\ table \in [Kept!Kinds -> [data : 0 .. Len(log), at : 0 .. MaxStamp]]
           /\ \A k \in Kept!Kinds :
                 /\ table[k].data # 0 => log[table[k].data].kind = k /\ table[k].at <= log[table[k].data].at
                 /\ table[k].data = 0 => table[k].at = 0
                 /\ row[k].data # 0 => table[k].data # 0
                 /\ k \in written /\ Kept!UpdateOf(message, k) # 0 =>
                      /\ table[k].data # 0
                      /\ row[k].at < log[Kept!UpdateOf(message, k)].at
                           => table[k].data = Kept!UpdateOf(message, k)
                 /\ ~(k \in written /\ Kept!UpdateOf(message, k) # 0) => table[k] = row[k]
<1>1. \A k \in Kept!Kinds :
        table[k] = IF k \in written /\ Kept!UpdateOf(message, k) # 0
                    THEN Kept!Upsert(row[k], Kept!UpdateOf(message, k)) ELSE row[k]
  BY DEF Kept!Store
<1>2. table = [k \in Kept!Kinds |-> table[k]]
  BY DEF Kept!Store
<1>3. ASSUME NEW k \in Kept!Kinds
      PROVE  /\ table[k] \in [data : 0 .. Len(log), at : 0 .. MaxStamp]
             /\ table[k].data # 0 => log[table[k].data].kind = k /\ table[k].at <= log[table[k].data].at
             /\ table[k].data = 0 => table[k].at = 0
             /\ row[k].data # 0 => table[k].data # 0
             /\ k \in written /\ Kept!UpdateOf(message, k) # 0 =>
                  /\ table[k].data # 0
                  /\ row[k].at < log[Kept!UpdateOf(message, k)].at
                       => table[k].data = Kept!UpdateOf(message, k)
             /\ ~(k \in written /\ Kept!UpdateOf(message, k) # 0) => table[k] = row[k]
  <2>1. PICK i \in 0 .. Len(log) : i = Kept!UpdateOf(message, k) /\ (i # 0 => log[i].kind = k)
    BY UpdateIs
  <2>2. CASE k \in written /\ i # 0
    <3>1. i \in 1 .. Len(log) /\ log[i].kind = k
      BY <2>1, <2>2, KeptFacts
    <3>2. table[k] = Kept!Upsert(row[k], i)
      BY <1>1, <2>1, <2>2
    <3> QED BY <2>1, <2>2, <3>1, <3>2, UpsertIs
  <2>3. CASE ~(k \in written /\ i # 0)
    <3>1. table[k] = row[k]
      BY <1>1, <2>1, <2>3
    <3> QED BY <2>1, <2>3, <3>1, KeptFacts DEF KeptInv, RowInv
  <2> QED BY <2>2, <2>3
<1> QED BY <1>2, <1>3

LEMMA TailFacts ==
    ASSUME NEW S, NEW s \in Seq(S), s # << >>
    PROVE  /\ Head(s) = s[1] /\ Tail(s) \in Seq(S) /\ Len(s) \in Nat \ {0} /\ Len(Tail(s)) = Len(s) - 1
           /\ \A i \in 1 .. Len(s) - 1 : Tail(s)[i] = s[i + 1]
OBVIOUS

\* What is shown after one message.
LEMMA ShowIs ==
    ASSUME KeptInv, NEW message \in KeptMessages, NEW k \in Kept!Kinds, NEW show,
           show = Kept!Show(message)
    PROVE  /\ show \in [Kept!Kinds -> 0 .. Len(log)]
           /\ show[k] = shown[k] \/ (show[k] = Kept!UpdateOf(message, k) /\ show[k] # 0)
           /\ ~message.main /\ log[message.upto].kind = k => show[k] = message.upto
           /\ ~message.main /\ log[message.upto].kind # k => show[k] = shown[k]
           /\ message.main /\ Kept!Ascending(k) => show[k] >= shown[k]
<1>1. /\ message.upto \in 1 .. Len(log) /\ Len(log) \in Nat
      /\ shown \in [Kept!Kinds -> 0 .. Len(log)]
  BY KeptFacts DEF KeptMessages
<1>2. CASE ~message.main
  <2>1. log[message.upto].kind \in Kept!Kinds
    BY <1>1, KeptFacts DEF KeptItems
  <2>2. show = [shown EXCEPT ![log[message.upto].kind] = message.upto]
    BY <1>2 DEF Kept!Show
  <2>3. log[message.upto].kind = k => Kept!UpdateOf(message, k) = message.upto
    BY <1>2 DEF Kept!UpdateOf
  <2>4. message.upto \in 0 .. Len(log) /\ message.upto # 0
    BY <1>1
  <2> QED BY <1>1, <1>2, <2>1, <2>2, <2>3, <2>4
<1>3. CASE message.main
  <2>1. "report" \in Kept!Kinds
    BY DEF Kept!Kinds
  <2>2. PICK old \in 0 .. Len(log) : old = shown["report"] /\ (old # 0 => log[old].kind = "report")
    BY <2>1, KeptFacts
  <2>3. PICK last \in 0 .. Len(log) :
          last = Kept!UpdateOf(message, "report") /\ (last # 0 => log[last].kind = "report")
    BY <2>1, UpdateIs
  <2>4. show = IF Kept!Stamp(old) < Kept!Stamp(last)
                 THEN [shown EXCEPT !["report"] = last] ELSE shown
    BY <1>3, <2>2, <2>3 DEF Kept!Show
  <2>5. CASE ~(Kept!Stamp(old) < Kept!Stamp(last))
    <3>1. show = shown /\ shown[k] \in 0 .. Len(log)
      BY <1>1, <2>4, <2>5
    <3>2. shown[k] >= shown[k]
      BY <1>1, <3>1
    <3> QED BY <1>1, <1>3, <3>1, <3>2
  <2>6. CASE Kept!Stamp(old) < Kept!Stamp(last)
    <3>1. last # 0 /\ Kept!Stamp(last) = log[last].at
      <4>1. Kept!Stamp(old) \in 0 .. MaxStamp /\ MaxStamp \in Nat
        BY StampIs, KeptFacts
      <4>2. last = 0 => Kept!Stamp(last) = 0
        BY StampIs
      <4>3. last # 0
        BY <2>6, <4>1, <4>2
      <4> QED BY <4>3, StampIs
    <3>2. ASSUME Kept!Ascending("report") PROVE last >= old
      <4>1. SUFFICES ASSUME last < old PROVE FALSE
        BY <1>1
      <4>2. old # 0 /\ old \in DOMAIN log /\ last \in DOMAIN log
        <5>1. DOMAIN log = 1 .. Len(log)
          BY KeptFacts
        <5>2. old # 0 /\ old \in 1 .. Len(log) /\ last \in 1 .. Len(log)
          BY <1>1, <3>1, <4>1
        <5> QED BY <5>1, <5>2
      <4>3. log[last].at < log[old].at /\ Kept!Stamp(old) = log[old].at
        BY <2>2, <2>3, <3>1, <3>2, <4>1, <4>2, StampIs DEF Kept!Ascending
      <4>4. Kept!Stamp(old) \in Int /\ Kept!Stamp(last) \in Int
        BY StampIs, KeptFacts
      <4> QED BY <2>6, <3>1, <4>3, <4>4
    <3>3. show = [shown EXCEPT !["report"] = last]
      BY <2>4, <2>6
    <3>4. k # "report" => show[k] = shown[k] /\ shown[k] >= shown[k]
      BY <1>1, <3>3
    <3> QED BY <1>1, <1>3, <2>1, <2>2, <2>3, <3>1, <3>2, <3>3, <3>4
  <2> QED BY <2>5, <2>6
<1> QED BY <1>2, <1>3

\* One request of the state task.
LEMMA ProcessStep ==
    ASSUME KeptInv, Kept!Process PROVE KeptInv'
<1>1. /\ channel # << >> /\ row' = Kept!Store(Head(channel), Kept!Kinds)
      /\ shown' = Kept!Show(Head(channel)) /\ channel' = Tail(channel)
      /\ UNCHANGED <<log, next, sending, main, mains, crashes, entered, excused>>
  BY DEF Kept!Process
<1>2. PICK c \in Nat \ {0} : c = Len(channel)
  BY <1>1, KeptFacts, TailFacts
<1>3. /\ Head(channel) = channel[1] /\ channel' \in Seq(KeptMessages) /\ Len(channel') = c - 1
      /\ \A j \in 1 .. c - 1 : channel'[j] = channel[j + 1]
  BY <1>1, <1>2, KeptFacts, TailFacts
<1>4. c - 1 \in Nat /\ 1 \in 1 .. c /\ \A j \in 1 .. c - 1 : j + 1 \in 1 .. c /\ 1 < j + 1
  BY <1>2
<1>5. PICK message \in KeptMessages : message = channel[1]
  BY <1>2, <1>4, KeptFacts
<1>6. PICK n \in Nat : n = Len(log)
  <2>1. Len(log) \in Nat
    BY KeptFacts
  <2> QED BY <2>1
<1>7. PICK table : table = row'
  OBVIOUS
<1>8. PICK show : show = shown'
  OBVIOUS
<1>9. table = Kept!Store(message, Kept!Kinds) /\ show = Kept!Show(message)
  BY <1>1, <1>3, <1>5, <1>7, <1>8
<1>10. \A k : (Kept!Ascending(k)' <=> Kept!Ascending(k))
  BY <1>1 DEF Kept!Ascending
<1>11. \A k : \A j \in 1 .. c - 1 : Pends(k, j)' <=> Pends(k, j + 1)
  BY <1>1, <1>3 DEF Pends
<1>12. Kept!TypeOK'
  <2>1. table \in [Kept!Kinds -> [data : 0 .. n, at : 0 .. MaxStamp]]
    BY <1>6, <1>9, StoreIs
  <2>2. show \in [Kept!Kinds -> 0 .. n]
    <3>1. "report" \in Kept!Kinds
      BY DEF Kept!Kinds
    <3> QED BY <1>6, <1>9, <3>1, ShowIs
  <2>3. \A k \in Kept!Kinds : show[k] # 0 => log[show[k]].kind = k
    <3> SUFFICES ASSUME NEW k \in Kept!Kinds, show[k] # 0 PROVE log[show[k]].kind = k
      OBVIOUS
    <3>1. show[k] = shown[k] \/ show[k] = Kept!UpdateOf(message, k)
      BY <1>9, ShowIs
    <3>2. shown[k] # 0 => log[shown[k]].kind = k
      BY KeptFacts
    <3>3. Kept!UpdateOf(message, k) # 0 => log[Kept!UpdateOf(message, k)].kind = k
      BY UpdateIs
    <3> QED BY <3>1, <3>2, <3>3
  <2>4. Len(channel') <= ChannelCap
    BY <1>2, <1>3, KeptFacts
  <2>5. channel' \in Seq([main : BOOLEAN, upto : 1 .. n])
    BY <1>3, <1>6 DEF KeptMessages
  <2> QED BY <1>1, <1>6, <1>7, <1>8, <2>1, <2>2, <2>3, <2>4, <2>5 DEF KeptInv, Kept!TypeOK
<1>13. RowInv'
  <2>1. ASSUME NEW k \in Kept!Kinds
        PROVE  /\ table[k].data # 0 => log[table[k].data].kind = k /\ table[k].at <= log[table[k].data].at
               /\ table[k].data = 0 => table[k].at = 0
               /\ show[k] # 0 => table[k].data # 0
    <3>1. /\ table[k].data # 0 => log[table[k].data].kind = k /\ table[k].at <= log[table[k].data].at
          /\ table[k].data = 0 => table[k].at = 0
          /\ row[k].data # 0 => table[k].data # 0
          /\ Kept!UpdateOf(message, k) # 0 => table[k].data # 0
      BY <1>9, StoreIs
    <3>2. show[k] = shown[k] \/ (show[k] = Kept!UpdateOf(message, k) /\ show[k] # 0)
      BY <1>9, ShowIs
    <3>3. shown[k] # 0 => row[k].data # 0
      BY DEF KeptInv, RowInv
    <3> QED BY <3>1, <3>2, <3>3
  <2> QED BY <1>1, <1>7, <1>8, <2>1 DEF RowInv
<1>14. EnteredInv'
  BY <1>1 DEF KeptInv, EnteredInv
<1>15. ASSUME NEW k \in Kept!Kinds
       PROVE  /\ Pends(k, 1) => show[k] = message.upto
              /\ ~Pends(k, 1) /\ Kept!Ascending(k) => show[k] >= shown[k]
              /\ ~message.main /\ ~Pends(k, 1) => show[k] = shown[k] /\ table[k] = row[k]
  <2>1. /\ ~message.main /\ log[message.upto].kind = k => show[k] = message.upto
        /\ ~message.main /\ log[message.upto].kind # k => show[k] = shown[k]
        /\ message.main /\ Kept!Ascending(k) => show[k] >= shown[k]
    BY <1>9, ShowIs
  <2>2. shown[k] >= shown[k]
    BY <1>6, KeptFacts
  <2>3. ~message.main /\ log[message.upto].kind # k => Kept!UpdateOf(message, k) = 0
    BY DEF Kept!UpdateOf
  <2>4. Kept!UpdateOf(message, k) = 0 => table[k] = row[k]
    BY <1>9, StoreIs
  <2> QED BY <1>5, <2>1, <2>2, <2>3, <2>4 DEF Pends
<1>16. \A j \in 1 .. c : channel[j].upto \in 1 .. n
  BY <1>2, <1>6, KeptFacts DEF KeptMessages
<1>17. ChannelInv'
  <2> SUFFICES ASSUME NEW k \in Kept!Kinds \ excused
               PROVE  /\ \A j \in 1 .. c - 1 : Pends(k, j)' => channel'[j].upto <= entered[k]
                      /\ \A a, b \in 1 .. c - 1 :
                            a < b /\ Pends(k, a)' /\ Pends(k, b)' => channel'[a].upto < channel'[b].upto
                      /\ \/ \E j \in 1 .. c - 1 : Pends(k, j)' /\ channel'[j].upto = entered[k]
                         \/ /\ \A j \in 1 .. c - 1 : ~Pends(k, j)'
                            /\ Kept!Ascending(k) => show[k] >= entered[k]
    BY <1>1, <1>3, <1>8, <1>10 DEF ChannelInv
  <2> SUFFICES /\ \A j \in 1 .. c - 1 : Pends(k, j + 1) => channel[j + 1].upto <= entered[k]
               /\ \A a, b \in 1 .. c - 1 :
                     a < b /\ Pends(k, a + 1) /\ Pends(k, b + 1)
                     => channel[a + 1].upto < channel[b + 1].upto
               /\ \/ \E j \in 1 .. c - 1 : Pends(k, j + 1) /\ channel[j + 1].upto = entered[k]
                  \/ /\ \A j \in 1 .. c - 1 : ~Pends(k, j + 1)
                     /\ Kept!Ascending(k) => show[k] >= entered[k]
    BY <1>3, <1>11
  <2>1. /\ \A j \in 1 .. c : Pends(k, j) => channel[j].upto <= entered[k]
        /\ \A a, b \in 1 .. c : a < b /\ Pends(k, a) /\ Pends(k, b) => channel[a].upto < channel[b].upto
        /\ \/ \E j \in 1 .. c : Pends(k, j) /\ channel[j].upto = entered[k]
           \/ /\ \A j \in 1 .. c : ~Pends(k, j)
              /\ Kept!Ascending(k) => shown[k] >= entered[k]
    BY <1>2 DEF KeptInv, ChannelInv
  <2>2. \A j \in 1 .. c - 1 : Pends(k, j + 1) => channel[j + 1].upto <= entered[k]
    BY <1>4, <2>1
  <2>3. \A a, b \in 1 .. c - 1 :
          a < b /\ Pends(k, a + 1) /\ Pends(k, b + 1) => channel[a + 1].upto < channel[b + 1].upto
    <3>1. \A a, b \in 1 .. c - 1 : a < b => a + 1 < b + 1
      OBVIOUS
    <3> QED BY <1>4, <2>1, <3>1
  <2>4. show[k] \in 0 .. n /\ shown[k] \in 0 .. n /\ entered[k] \in 0 .. n
    BY <1>6, <1>9, ShowIs, KeptFacts
  <2>5. CASE Pends(k, 1) /\ channel[1].upto = entered[k]
    <3>1. show[k] >= entered[k]
      BY <1>5, <1>15, <2>4, <2>5
    <3>2. ASSUME NEW j \in 1 .. c - 1, Pends(k, j + 1) PROVE FALSE
      <4>1. channel[1].upto < channel[j + 1].upto
        BY <1>4, <2>1, <2>5, <3>2
      <4>2. channel[j + 1].upto <= entered[k] /\ channel[j + 1].upto \in 1 .. n
        BY <1>4, <1>16, <2>2, <3>2
      <4> QED BY <2>4, <2>5, <4>1, <4>2
    <3> QED BY <2>2, <2>3, <3>1, <3>2
  <2>6. CASE \E j \in 1 .. c : j # 1 /\ Pends(k, j) /\ channel[j].upto = entered[k]
    <3>1. PICK j \in 1 .. c : j # 1 /\ Pends(k, j) /\ channel[j].upto = entered[k]
      BY <2>6
    <3>2. j - 1 \in 1 .. c - 1 /\ (j - 1) + 1 = j
      BY <3>1
    <3>3. \E i \in 1 .. c - 1 : Pends(k, i + 1) /\ channel[i + 1].upto = entered[k]
      BY <3>1, <3>2
    <3> QED BY <2>2, <2>3, <3>3
  <2>7. CASE (\A j \in 1 .. c : ~Pends(k, j)) /\ (Kept!Ascending(k) => shown[k] >= entered[k])
    <3>1. Kept!Ascending(k) => show[k] >= entered[k]
      BY <1>4, <1>15, <2>4, <2>7
    <3>2. \A j \in 1 .. c - 1 : ~Pends(k, j + 1)
      BY <1>4, <2>7
    <3> QED BY <2>2, <2>3, <3>1, <3>2
  <2> QED BY <2>1, <2>5, <2>6, <2>7
<1>18. ShownInv'
  <2> SUFFICES ASSUME mains = 0
               PROVE  /\ \A j \in 1 .. c - 1 : ~channel[j + 1].main
                      /\ \A k \in Kept!Kinds \ excused :
                            Kept!Ascending(k) =>
                              /\ table[k].data = show[k] /\ show[k] <= entered[k]
                              /\ \A j \in 1 .. c - 1 :
                                    Pends(k, j + 1) => show[k] < channel[j + 1].upto
    BY <1>1, <1>3, <1>7, <1>8, <1>10, <1>11 DEF ShownInv
  <2>1. \A j \in 1 .. c : ~channel[j].main
    BY <1>2 DEF KeptInv, ShownInv
  <2>2. ASSUME NEW k \in Kept!Kinds \ excused, Kept!Ascending(k)
        PROVE  /\ table[k].data = show[k] /\ show[k] <= entered[k]
               /\ \A j \in 1 .. c - 1 : Pends(k, j + 1) => show[k] < channel[j + 1].upto
    <3>1. /\ row[k].data = shown[k] /\ shown[k] <= entered[k]
          /\ \A j \in 1 .. c : Pends(k, j) => shown[k] < channel[j].upto
      BY <1>2, <2>2 DEF KeptInv, ShownInv
    <3>2. CASE ~Pends(k, 1)
      BY <1>4, <1>5, <1>15, <2>1, <3>1, <3>2
    <3>3. CASE Pends(k, 1)
      <4>1. show[k] = message.upto /\ message.upto <= entered[k] /\ shown[k] < message.upto
        BY <1>2, <1>4, <1>5, <1>15, <3>1, <3>3 DEF KeptInv, ChannelInv
      <4>2. \A j \in 1 .. c - 1 : Pends(k, j + 1) => message.upto < channel[j + 1].upto
        BY <1>2, <1>4, <1>5, <3>3 DEF KeptInv, ChannelInv
      <4>3. Kept!UpdateOf(message, k) = message.upto /\ log[message.upto].kind = k
        BY <1>5, <3>3 DEF Pends, Kept!UpdateOf
      <4>4. message.upto \in 1 .. n /\ message.upto # 0 /\ row[k].data \in 0 .. n
        BY <1>4, <1>5, <1>6, <1>16, KeptFacts
      <4>5. row[k].at < log[message.upto].at
        <5>1. log[message.upto].at \in 1 .. MaxStamp /\ MaxStamp \in Nat /\ row[k].at \in 0 .. MaxStamp
          BY <1>6, <4>4, KeptFacts DEF KeptItems
        <5>2. CASE row[k].data = 0
          <6>1. row[k].at = 0
            BY <5>2 DEF KeptInv, RowInv
          <6> QED BY <5>1, <6>1
        <5>3. CASE row[k].data # 0
          <6>1. log[row[k].data].kind = k /\ row[k].at <= log[row[k].data].at
            BY <5>3 DEF KeptInv, RowInv
          <6>2. row[k].data \in 1 .. n /\ row[k].data < message.upto
            BY <3>1, <4>1, <4>4, <5>3
          <6>3. DOMAIN log = 1 .. n
            BY <1>6, KeptFacts
          <6>4. log[row[k].data].at < log[message.upto].at
            BY <2>2, <4>3, <4>4, <6>1, <6>2, <6>3 DEF Kept!Ascending
          <6>5. log[row[k].data].at \in Int
            BY <1>6, <6>2, KeptFacts DEF KeptItems
          <6> QED BY <5>1, <6>1, <6>4, <6>5
        <5> QED BY <5>2, <5>3
      <4>6. table[k].data = message.upto
        BY <1>9, <4>3, <4>4, <4>5, StoreIs
      <4> QED BY <4>1, <4>2, <4>6
    <3> QED BY <3>2, <3>3
  <2> QED BY <1>4, <2>1, <2>2
<1> QED BY <1>12, <1>13, <1>14, <1>17, <1>18 DEF KeptInv

\* A kind that is not excused at a stop shows what it showed before.
LEMMA RestartStep ==
    ASSUME KeptInv, Kept!Restart PROVE KeptInv'
<1>1. PICK table :
        /\ \E written : table = IF channel = << >> THEN row ELSE Kept!Store(Head(channel), written)
        /\ row' = table /\ shown' = Kept!LoadPersistent(table)
        /\ excused' = excused \cup {k \in Kept!Kinds : table[k].data # shown[k] \/ k \in Kept!Pending}
  BY DEF Kept!Restart
<1>2. /\ crashes < MaxCrashes /\ channel' = << >> /\ sending' = {} /\ crashes' = crashes + 1
      /\ UNCHANGED <<log, next, main, mains, entered>>
  BY DEF Kept!Restart
<1>3. /\ table \in [Kept!Kinds -> [data : 0 .. Len(log), at : 0 .. MaxStamp]]
      /\ \A k \in Kept!Kinds :
            /\ table[k].data # 0 => log[table[k].data].kind = k /\ table[k].at <= log[table[k].data].at
            /\ table[k].data = 0 => table[k].at = 0
  <2>1. CASE channel = << >>
    BY <1>1, <2>1, KeptFacts DEF KeptInv, RowInv
  <2>2. CASE channel # << >>
    <3>1. Head(channel) \in KeptMessages
      BY <2>2, KeptFacts
    <3> QED BY <1>1, <2>2, <3>1, StoreIs
  <2> QED BY <2>1, <2>2
<1>4. PICK show : show = shown'
  OBVIOUS
<1>5. /\ show \in [Kept!Kinds -> 0 .. Len(log)]
      /\ \A k \in Kept!Kinds : show[k] = table[k].data
  BY <1>1, <1>3, <1>4 DEF Kept!LoadPersistent
<1>6. /\ excused \subseteq excused' /\ excused' \subseteq Kept!Kinds
      /\ \A k \in Kept!Kinds \ excused' : show[k] = shown[k] /\ k \notin Kept!Pending
  BY <1>1, <1>5, KeptFacts
<1>7. Len(channel') = 0 /\ 1 .. 0 = {}
  BY <1>2
<1>8. Kept!TypeOK'
  <2>1. channel' \in Seq([main : BOOLEAN, upto : 1 .. Len(log)]) /\ 0 <= ChannelCap
    BY <1>2, KeptFacts
  <2>2. crashes' \in 0 .. MaxCrashes
    BY <1>2, KeptFacts
  <2>3. \A k \in Kept!Kinds : show[k] # 0 => log[show[k]].kind = k
    BY <1>3, <1>5
  <2>4. row' \in [Kept!Kinds -> [data : 0 .. Len(log), at : 0 .. MaxStamp]]
    BY <1>1, <1>3
  <2>5. /\ log \in Seq([kind : Kept!Kinds, at : 1 .. MaxStamp, own : BOOLEAN]) /\ Len(log) <= MaxItems
        /\ next \in 1 .. (Len(log) + 1) /\ main \in 0 .. Len(log) /\ mains \in 0 .. MaxMains
        /\ entered \in [Kept!Kinds -> 0 .. Len(log)]
    BY DEF KeptInv, Kept!TypeOK
  <2> QED BY <1>2, <1>4, <1>5, <1>6, <1>7, <2>1, <2>2, <2>3, <2>4, <2>5 DEF Kept!TypeOK
<1>9. RowInv'
  BY <1>1, <1>2, <1>3, <1>4, <1>5 DEF RowInv
<1>10. \A k \in Kept!Kinds \ excused' :
         /\ \A j \in 1 .. Len(channel) : ~Pends(k, j)
         /\ \A i \in sending : log[i].kind # k
  <2> SUFFICES ASSUME NEW k \in Kept!Kinds \ excused'
               PROVE  /\ \A j \in 1 .. Len(channel) : ~Pends(k, j)
                      /\ \A i \in sending : log[i].kind # k
    OBVIOUS
  <2>1. \A j \in 1 .. Len(channel) : channel[j] \in Kept!Range(channel)
    BY KeptFacts DEF Kept!Range
  <2>2. k \notin Kept!Pending
    BY <1>6
  <2>3. ASSUME NEW j \in 1 .. Len(channel), Pends(k, j) PROVE FALSE
    BY <2>1, <2>2, <2>3 DEF Kept!Pending, Pends
  <2>4. \A i \in sending : log[i].kind # k
    BY <2>2 DEF Kept!Pending
  <2> QED BY <2>3, <2>4
<1>11. EnteredInv'
  <2>1. ASSUME NEW k \in Kept!Kinds \ excused', NEW i \in 1 .. Len(log),
               log[i].kind = k, log[i].own \/ i < next
        PROVE  i <= entered[k]
    <3>1. i \in sending \/ i <= entered[k]
      BY <1>6, <2>1 DEF KeptInv, EnteredInv
    <3> QED BY <1>10, <2>1, <3>1
  <2> QED BY <1>2, <2>1 DEF KeptInv, EnteredInv
<1>12. \A k : (Kept!Ascending(k)' <=> Kept!Ascending(k))
  BY <1>2 DEF Kept!Ascending
<1>13. ChannelInv'
  <2>1. \A k \in Kept!Kinds \ excused' : Kept!Ascending(k) => show[k] >= entered[k]
    BY <1>6, <1>10 DEF KeptInv, ChannelInv
  <2> QED BY <1>2, <1>4, <1>7, <1>12, <2>1 DEF ChannelInv
<1>14. ShownInv'
  <2>1. \A k \in Kept!Kinds \ excused' : mains = 0 /\ Kept!Ascending(k) => show[k] <= entered[k]
    BY <1>6 DEF KeptInv, ShownInv
  <2> QED BY <1>1, <1>2, <1>4, <1>5, <1>7, <1>12, <2>1 DEF ShownInv
<1> QED BY <1>8, <1>9, <1>11, <1>13, <1>14 DEF KeptInv

LEMMA KeptStart ==
    ASSUME Kept!Init PROVE KeptInv
<1>1. /\ log = << >> /\ next = 1 /\ sending = {} /\ channel = << >> /\ main = 0 /\ mains = 0
      /\ crashes = 0 /\ excused = {} /\ row = [k \in Kept!Kinds |-> [data |-> 0, at |-> 0]]
      /\ shown = [k \in Kept!Kinds |-> 0] /\ entered = [k \in Kept!Kinds |-> 0]
  BY DEF Kept!Init, Kept!NoRow
<1>2. Len(log) = 0 /\ Len(channel) = 0 /\ 1 .. 0 = {}
  BY <1>1
<1>3. /\ ChannelCap \in Nat /\ MaxItems \in Nat /\ MaxStamp \in Nat /\ MaxMains \in Nat
      /\ MaxCrashes \in Nat
  BY KeptAssumption DEF Kept!Bounded
<1>4. Kept!TypeOK
  <2>1. log \in Seq([kind : Kept!Kinds, at : 1 .. MaxStamp, own : BOOLEAN])
        /\ channel \in Seq([main : BOOLEAN, upto : 1 .. 0])
    BY <1>1
  <2>2. row \in [Kept!Kinds -> [data : 0 .. 0, at : 0 .. MaxStamp]]
        /\ shown \in [Kept!Kinds -> 0 .. 0] /\ entered \in [Kept!Kinds -> 0 .. 0]
    BY <1>1, <1>3
  <2> QED BY <1>1, <1>2, <1>3, <2>1, <2>2 DEF Kept!TypeOK
<1>5. RowInv /\ EnteredInv
  BY <1>1, <1>2 DEF RowInv, EnteredInv
<1>6. ChannelInv /\ ShownInv
  BY <1>1, <1>2 DEF ChannelInv, ShownInv
<1> QED BY <1>4, <1>5, <1>6 DEF KeptInv

LEMMA KeptStep ==
    ASSUME KeptInv, Kept!Next PROVE KeptInv'
<1>1. CASE Kept!OthersUpdate
  <2>1. PICK k \in Kept!Kinds, t \in 1 .. MaxStamp :
          log' = Append(log, [kind |-> k, at |-> t, own |-> FALSE])
    BY <1>1 DEF Kept!OthersUpdate
  <2>2. PICK item : item = [kind |-> k, at |-> t, own |-> FALSE]
    OBVIOUS
  <2>3. item \in KeptItems /\ ~item.own
    BY <2>2 DEF KeptItems
  <2> QED BY <1>1, <2>1, <2>2, <2>3, KeptLogGrows DEF Kept!OthersUpdate
<1>2. CASE Kept!SendMetaInfo
  <2>1. PICK t \in 1 .. MaxStamp :
          log' = Append(log, [kind |-> "meta", at |-> t, own |-> TRUE])
    BY <1>2 DEF Kept!SendMetaInfo
  <2>2. PICK item : item = [kind |-> "meta", at |-> t, own |-> TRUE]
    OBVIOUS
  <2>3. item \in KeptItems /\ item.own
    BY <2>2 DEF KeptItems, Kept!Kinds
  <2>4. Len(log') = Len(log) + 1
    BY <2>1, <2>2, <2>3, KeptFacts, AppendFacts
  <2> QED BY <1>2, <2>1, <2>2, <2>3, <2>4, KeptLogGrows DEF Kept!SendMetaInfo
<1>3. CASE \E i \in sending : Kept!UpdateOwnState(i)
  <2>1. PICK i \in sending : Kept!UpdateOwnState(i)
    BY <1>3
  <2>2. i \in 1 .. Len(log)
    BY KeptFacts
  <2> QED BY <2>1, <2>2, EnterStep DEF Kept!UpdateOwnState
<1>4. CASE Kept!Deliver
  <2>1. next \in 1 .. Len(log)
    BY <1>4, KeptFacts DEF Kept!Deliver
  <2>2. CASE log[next].own
    BY <1>4, <2>2, OwnIsPassed DEF Kept!Deliver
  <2>3. CASE ~log[next].own
    BY <1>4, <2>1, <2>3, EnterStep DEF Kept!Deliver
  <2> QED BY <2>2, <2>3
<1> QED BY <1>1, <1>2, <1>3, <1>4, SendMainStep, ProcessStep, RestartStep DEF Kept!Next

\* The invariant says what the run checks.
LEMMA KeptResult ==
    ASSUME KeptInv
    PROVE  Kept!QuietShowsLatest /\ Kept!RowIsShown /\ Kept!RowNotBeforeFirst
<1>1. Kept!QuietShowsLatest
  <2> SUFFICES ASSUME NEW k \in Kept!Kinds \ excused, Kept!Ascending(k), next > Len(log),
                      channel = << >>, sending = {}
               PROVE  shown[k] = Kept!LastOf(k, Len(log))
    BY DEF Kept!QuietShowsLatest
  <2>1. PICK n \in Nat : n = Len(log)
    <3>1. Len(log) \in Nat
      BY KeptFacts
    <3> QED BY <3>1
  <2>2. PICK last \in 0 .. n : /\ last = Kept!LastOf(k, n)
                               /\ last # 0 => log[last].kind = k
                               /\ \A i \in 1 .. n : log[i].kind = k => i <= last
    <3>1. n \in 0 .. Len(log)
      BY <2>1
    <3> QED BY <3>1, LastIs
  <2>3. shown[k] \in 0 .. n /\ (shown[k] # 0 => log[shown[k]].kind = k) /\ entered[k] \in 0 .. n
    BY <2>1, KeptFacts
  <2>4. shown[k] >= entered[k]
    <3>1. Len(channel) = 0 /\ 1 .. 0 = {}
      OBVIOUS
    <3> QED BY <3>1 DEF KeptInv, ChannelInv
  <2>5. last # 0 => last <= entered[k]
    <3>1. last # 0 => last \in 1 .. Len(log) /\ last < next
      BY <2>1, <2>2, KeptFacts
    <3> QED BY <2>2, <3>1 DEF KeptInv, EnteredInv
  <2>6. shown[k] <= last
    BY <2>2, <2>3
  <2> QED BY <2>1, <2>2, <2>3, <2>4, <2>5, <2>6
<1>2. Kept!RowIsShown
  BY DEF Kept!RowIsShown, KeptInv, ShownInv
<1>3. Kept!RowNotBeforeFirst
  <2> SUFFICES ASSUME NEW k \in Kept!Kinds
               PROVE  Kept!Stamp(row[k].data) >= row[k].at /\ (shown[k] # 0 => row[k] # Kept!NoRow)
    BY DEF Kept!RowNotBeforeFirst
  <2>1. PICK old \in [data : 0 .. Len(log), at : 0 .. MaxStamp] : old = row[k]
    BY KeptFacts
  <2>2. /\ old.data # 0 => old.at <= log[old.data].at
        /\ old.data = 0 => old.at = 0
        /\ shown[k] # 0 => old.data # 0
    BY <2>1 DEF KeptInv, RowInv
  <2>3. /\ old.data = 0 => Kept!Stamp(old.data) = 0
        /\ old.data # 0 => Kept!Stamp(old.data) = log[old.data].at /\ Kept!Stamp(old.data) \in 1 .. MaxStamp
    BY StampIs
  <2>4. old.at \in Int /\ MaxStamp \in Nat
    BY KeptFacts
  <2> QED BY <2>1, <2>2, <2>3, <2>4 DEF Kept!NoRow
<1> QED BY <1>1, <1>2, <1>3

\* Updates come through two channels, are acknowledged before they are written, and a
\* stop may fall between two writes: still, what a client shows, at rest and after a
\* restart, is what ShowsWhatItWasTold says, for any number of updates, crashes and
\* views of the user's state.
THEOREM AlwaysShowsWhatItWasTold == DevicesSpec => []ShowsWhatItWasTold
<1>1. DevicesInit => KeptInv
  BY KeptStart DEF DevicesInit
<1>2. [DevicesNext]_devicesVars => Kept!Next \/ UNCHANGED storeVars
  BY DEF DevicesNext, devicesVars
<1>3. KeptInv /\ [DevicesNext]_devicesVars => KeptInv'
  BY <1>2, KeptStep, KeptStutter DEF storeVars
<1>4. KeptInv => ShowsWhatItWasTold
  BY KeptResult DEF ShowsWhatItWasTold
<1> QED BY <1>1, <1>3, <1>4, PTL DEF DevicesSpec

-----------------------------------------------------------------------------
(* The storage.                                                            *)

RowsAt(db, table, key) == {r \in db : r.table = table /\ r.key = key}
ValuesAt(db, table, key) == {r.value : r \in RowsAt(db, table, key)}
Without(db, doomed) == db \ doomed
ProposalRows(db, g) == {r \in db : r.table = "openmls_proposal" /\ r.key[1] = g}
HeldAt(mem, name) == {mem[k] : k \in {name} \cap DOMAIN mem}
ListAt(mem, name) == IF name \in DOMAIN mem THEN mem[name] ELSE << >>
Listed(list) == {list[i] : i \in 1 .. Len(list)}
Once(list) == \A i, j \in 1 .. Len(list) : list[i] = list[j] => i = j

\* One row for a key; the lists in memory are lists.
StoredTypes(db, mem) ==
    /\ \A r \in db : r.value \in Values
    /\ \A r, s \in db : r.table = s.table /\ r.key = s.key => r = s
    /\ \A r \in db : r.table = "openmls_proposal" =>
          \E g \in GroupIds, x \in ProposalRefs : r.key = <<g, x>>
    /\ \A g \in GroupIds : /\ ListAt(mem, <<"leaf_nodes", g>>) \in Seq(Values)
                           /\ ListAt(mem, <<"proposals", g>>) \in Seq(ProposalRefs)

\* The answers to each read; the proposals one by one, and none queued twice.
DataAgrees(db, mem, g, t) ==
    ValuesAt(db, "openmls_group_data", <<g, Storage!ToStr[t]>>) = HeldAt(mem, <<"group_data", g, t>>)
LeavesAgree(db, mem, rep, g) ==
    \/ <<"leaf_nodes", g>> \in rep
    \/ ValuesAt(db, "openmls_own_leaf_node", <<g>>) = Listed(ListAt(mem, <<"leaf_nodes", g>>))
ProposalsAgree(db, mem, rep, g) ==
    \/ <<"proposals", g>> \in rep
    \/ /\ Once(ListAt(mem, <<"proposals", g>>))
       /\ \A x \in Listed(ListAt(mem, <<"proposals", g>>)) : <<"proposal", g, x>> \in DOMAIN mem
       /\ \A x \in ProposalRefs :
             ValuesAt(db, "openmls_proposal", <<g, x>>)
             = IF x \in Listed(ListAt(mem, <<"proposals", g>>)) THEN {mem[<<"proposal", g, x>>]} ELSE {}
KeyAgrees(db, mem, rep, table, k) ==
    <<table, k>> \in rep \/ ValuesAt(db, table, <<k>>) = HeldAt(mem, <<table, k>>)

StorageOK(db, mem, rep) ==
    /\ StoredTypes(db, mem)
    /\ \A g \in GroupIds : /\ LeavesAgree(db, mem, rep, g) /\ ProposalsAgree(db, mem, rep, g)
                           /\ \A t \in DataTypes : DataAgrees(db, mem, g, t)
    /\ \A table \in KeyTables, k \in Keys : KeyAgrees(db, mem, rep, table, k)

StorageInv == calls \in 0 .. MaxCalls /\ StorageOK(rows, memory, repeated)

\* Nothing was written under a name.
SameItem(new, mem, name) ==
    /\ name \in DOMAIN new <=> name \in DOMAIN mem
    /\ name \in DOMAIN mem => new[name] = mem[name]

LEMMA ItemFrame ==
    ASSUME NEW new, NEW mem, NEW name, SameItem(new, mem, name)
    PROVE  HeldAt(new, name) = HeldAt(mem, name) /\ ListAt(new, name) = ListAt(mem, name)
<1>1. ListAt(new, name) = ListAt(mem, name)
  BY DEF ListAt, SameItem
<1>2. HeldAt(new, name) = HeldAt(mem, name)
  BY DEF HeldAt, SameItem
<1> QED BY <1>1, <1>2

\* What a row written, or rows deleted, change.
LEMMA RowWritten ==
    ASSUME NEW db, NEW mem, NEW table, NEW key, NEW v \in Values, NEW new,
           new = (db \ RowsAt(db, table, key)) \cup {Storage!Row(table, key, v)},
           StoredTypes(db, mem),
           table = "openmls_proposal" => \E g \in GroupIds, x \in ProposalRefs : key = <<g, x>>
    PROVE  /\ StoredTypes(new, mem) /\ ValuesAt(new, table, key) = {v}
           /\ \A other, k : other # table \/ k # key => ValuesAt(new, other, k) = ValuesAt(db, other, k)
<1>1. PICK row1 : row1 = Storage!Row(table, key, v)
  OBVIOUS
<1>2. row1.table = table /\ row1.key = key /\ row1.value = v
  BY <1>1 DEF Storage!Row
<1>3. \A r : r \in new <=> (r \in db /\ ~(r.table = table /\ r.key = key)) \/ r = row1
  BY <1>1 DEF RowsAt
<1>4. RowsAt(new, table, key) = {row1}
  BY <1>2, <1>3 DEF RowsAt
<1>5. ValuesAt(new, table, key) = {v}
  BY <1>2, <1>4 DEF ValuesAt
<1>6. \A other, k : other # table \/ k # key => RowsAt(new, other, k) = RowsAt(db, other, k)
  BY <1>2, <1>3 DEF RowsAt
<1>7. \A other, k : other # table \/ k # key => ValuesAt(new, other, k) = ValuesAt(db, other, k)
  BY <1>6 DEF ValuesAt
<1>8. StoredTypes(new, mem)
  BY <1>2, <1>3 DEF StoredTypes
<1> QED BY <1>5, <1>7, <1>8

LEMMA RowDeleted ==
    ASSUME NEW db, NEW mem, StoredTypes(db, mem), NEW table, NEW key, NEW new,
           new = Without(db, RowsAt(db, table, key))
    PROVE  /\ StoredTypes(new, mem) /\ ValuesAt(new, table, key) = {}
           /\ \A other, k : other # table \/ k # key => ValuesAt(new, other, k) = ValuesAt(db, other, k)
<1>1. \A r : r \in new <=> r \in db /\ ~(r.table = table /\ r.key = key)
  BY DEF Without, RowsAt
<1>2. RowsAt(new, table, key) = {}
  BY <1>1 DEF RowsAt
<1>3. \A other, k : other # table \/ k # key => RowsAt(new, other, k) = RowsAt(db, other, k)
  BY <1>1 DEF RowsAt
<1>4. StoredTypes(new, mem)
  BY <1>1 DEF StoredTypes
<1> QED BY <1>2, <1>3, <1>4 DEF ValuesAt

LEMMA GroupCleared ==
    ASSUME NEW db, NEW mem, StoredTypes(db, mem), NEW g, NEW new, new = Without(db, ProposalRows(db, g))
    PROVE  /\ StoredTypes(new, mem)
           /\ \A x \in ProposalRefs : ValuesAt(new, "openmls_proposal", <<g, x>>) = {}
           /\ \A table, key : table # "openmls_proposal" \/ (\A x \in ProposalRefs : key # <<g, x>>)
                              => ValuesAt(new, table, key) = ValuesAt(db, table, key)
<1>1. \A r : r \in new <=> r \in db /\ ~(r.table = "openmls_proposal" /\ r.key[1] = g)
  BY DEF Without, ProposalRows
<1>2. StoredTypes(new, mem)
  BY <1>1 DEF StoredTypes
<1>3. \A x : RowsAt(new, "openmls_proposal", <<g, x>>) = {}
  BY <1>1 DEF RowsAt
<1>4. ASSUME NEW table, NEW key, table # "openmls_proposal" \/ (\A x \in ProposalRefs : key # <<g, x>>)
      PROVE  RowsAt(new, table, key) = RowsAt(db, table, key)
  <2> SUFFICES ASSUME NEW r \in db, r.table = table, r.key = key, r \notin new PROVE FALSE
    BY <1>1 DEF RowsAt
  <2>1. r.table = "openmls_proposal" /\ r.key[1] = g
    BY <1>1
  <2>2. PICK h \in GroupIds, x \in ProposalRefs : r.key = <<h, x>>
    BY <2>1 DEF StoredTypes
  <2>3. h = g
    BY <2>1, <2>2
  <2> QED BY <1>4, <2>1, <2>2, <2>3
<1> QED BY <1>2, <1>3, <1>4 DEF ValuesAt

LEMMA WithFacts ==
    ASSUME NEW mem, NEW name, NEW v, NEW new, new = Storage!With(mem, name, v)
    PROVE  /\ HeldAt(new, name) = {v} /\ ListAt(new, name) = v
           /\ name \in DOMAIN new /\ new[name] = v
           /\ \A other : other # name => SameItem(new, mem, other)
<1>1. /\ DOMAIN new = DOMAIN mem \cup {name} /\ new[name] = v
      /\ \A other \in DOMAIN mem : other # name => new[other] = mem[other]
  BY DEF Storage!With
<1>2. HeldAt(new, name) = {v} /\ ListAt(new, name) = v
  BY <1>1 DEF HeldAt, ListAt
<1> QED BY <1>1, <1>2 DEF SameItem

LEMMA RestrictFacts ==
    ASSUME NEW mem, NEW gone, NEW new, new = Storage!Restrict(mem, DOMAIN mem \ gone)
    PROVE  /\ \A name \in gone : HeldAt(new, name) = {} /\ ListAt(new, name) = << >>
           /\ \A name : name \notin gone => SameItem(new, mem, name)
<1>1. /\ DOMAIN new = DOMAIN mem \ gone
      /\ \A name \in DOMAIN mem : name \notin gone => new[name] = mem[name]
  BY DEF Storage!Restrict
<1>2. \A name \in gone : HeldAt(new, name) = {} /\ ListAt(new, name) = << >>
  BY <1>1 DEF HeldAt, ListAt
<1> QED BY <1>1, <1>2 DEF SameItem

LEMMA ItemErased ==
    ASSUME NEW mem, NEW name, NEW new, new = Storage!Restrict(mem, DOMAIN mem \ {name})
    PROVE  /\ HeldAt(new, name) = {} /\ ListAt(new, name) = << >>
           /\ \A other : other # name => SameItem(new, mem, other)
<1>1. PICK gone : gone = {name}
  OBVIOUS
<1>2. /\ \A x \in gone : HeldAt(new, x) = {} /\ ListAt(new, x) = << >>
      /\ \A x : x \notin gone => SameItem(new, mem, x)
  BY <1>1, RestrictFacts
<1> QED BY <1>1, <1>2

LEMMA ToStrDiffers ==
    ASSUME NEW t \in DOMAIN Storage!ToStr, NEW u \in DOMAIN Storage!ToStr,
           Storage!ToStr[t] = Storage!ToStr[u]
    PROVE  t = u
BY DEF Storage!ToStr

LEMMA RemovedAt ==
    ASSUME NEW S, NEW s \in Seq(S), NEW i \in 1 .. Len(s), NEW t, t = Storage!RemoveAt(s, i)
    PROVE  /\ t \in Seq(S) /\ Len(t) = Len(s) - 1
           /\ \A j \in 1 .. Len(s) - 1 : t[j] = IF j < i THEN s[j] ELSE s[j + 1]
<1>1. Len(s) \in Nat
  OBVIOUS
<1>2. PICK a : a = SubSeq(s, 1, i - 1)
  OBVIOUS
<1>3. PICK b : b = SubSeq(s, i + 1, Len(s))
  OBVIOUS
<1>4. a \in Seq(S) /\ Len(a) = i - 1 /\ \A j \in 1 .. i - 1 : a[j] = s[j]
  BY <1>1, <1>2
<1>5. b \in Seq(S) /\ Len(b) = Len(s) - i /\ \A j \in 1 .. Len(s) - i : b[j] = s[j + i]
  BY <1>1, <1>3
<1>6. t = a \o b
  BY <1>2, <1>3 DEF Storage!RemoveAt
<1>7. t \in Seq(S) /\ Len(t) = Len(s) - 1
  BY <1>1, <1>4, <1>5, <1>6
<1>8. ASSUME NEW j \in 1 .. Len(s) - 1 PROVE t[j] = IF j < i THEN s[j] ELSE s[j + 1]
  <2>1. t[j] = IF j <= Len(a) THEN a[j] ELSE b[j - Len(a)]
    BY <1>1, <1>4, <1>5, <1>6
  <2>2. CASE j < i
    BY <1>1, <1>4, <2>1, <2>2
  <2>3. CASE ~(j < i)
    <3>1. j - (i - 1) \in 1 .. Len(s) - i /\ (j - (i - 1)) + i = j + 1
      BY <1>1, <2>3
    <3> QED BY <1>1, <1>4, <1>5, <2>1, <2>3, <3>1
  <2> QED BY <2>2, <2>3
<1> QED BY <1>7, <1>8

LEMMA RemovedFirst ==
    ASSUME NEW S, NEW s \in Seq(S), NEW e, NEW t, t = Storage!RemoveFirst(s, e)
    PROVE  \/ t = s /\ \A i \in 1 .. Len(s) : s[i] # e
           \/ \E i \in 1 .. Len(s) : s[i] = e /\ t = Storage!RemoveAt(s, i)
<1>1. CASE \A i \in 1 .. Len(s) : s[i] # e
  <2>1. t = s
    BY <1>1 DEF Storage!RemoveFirst
  <2> QED BY <1>1, <2>1
<1>2. CASE \E i \in 1 .. Len(s) : s[i] = e
  <2>1. PICK I : I = {i \in 1 .. Len(s) : s[i] = e}
    OBVIOUS
  <2>2. I # {} /\ I \subseteq Nat
    BY <1>2, <2>1
  <2>3. Storage!Min(I) \in I
    <3>1. \E x \in I : \A y \in I : x <= y
      BY <2>2, LeastNat
    <3> QED BY <3>1 DEF Storage!Min
  <2>4. t = Storage!RemoveAt(s, Storage!SelectInSeq(s, LAMBDA v : v = e))
    BY <1>2 DEF Storage!RemoveFirst
  <2>5. Storage!SelectInSeq(s, LAMBDA v : v = e) = Storage!Min(I)
    BY <2>1, <2>2 DEF Storage!SelectInSeq
  <2> QED BY <2>1, <2>3, <2>4, <2>5
<1> QED BY <1>1, <1>2

LEMMA DataFrame ==
    ASSUME NEW db, NEW mem, NEW new, NEW held, NEW g, NEW t, DataAgrees(db, mem, g, t),
           ValuesAt(new, "openmls_group_data", <<g, Storage!ToStr[t]>>)
             = ValuesAt(db, "openmls_group_data", <<g, Storage!ToStr[t]>>),
           SameItem(held, mem, <<"group_data", g, t>>)
    PROVE  DataAgrees(new, held, g, t)
BY ItemFrame DEF DataAgrees

LEMMA LeavesFrame ==
    ASSUME NEW db, NEW mem, NEW rep, NEW new, NEW held, NEW again, NEW g,
           LeavesAgree(db, mem, rep, g),
           ValuesAt(new, "openmls_own_leaf_node", <<g>>) = ValuesAt(db, "openmls_own_leaf_node", <<g>>),
           SameItem(held, mem, <<"leaf_nodes", g>>),
           <<"leaf_nodes", g>> \in rep => <<"leaf_nodes", g>> \in again
    PROVE  LeavesAgree(new, held, again, g)
BY ItemFrame DEF LeavesAgree

LEMMA ProposalsFrame ==
    ASSUME NEW db, NEW mem, NEW rep, NEW new, NEW held, NEW again, NEW g,
           ListAt(mem, <<"proposals", g>>) \in Seq(ProposalRefs),
           ProposalsAgree(db, mem, rep, g),
           \A x \in ProposalRefs :
              /\ ValuesAt(new, "openmls_proposal", <<g, x>>) = ValuesAt(db, "openmls_proposal", <<g, x>>)
              /\ SameItem(held, mem, <<"proposal", g, x>>),
           SameItem(held, mem, <<"proposals", g>>),
           <<"proposals", g>> \in rep => <<"proposals", g>> \in again
    PROVE  ProposalsAgree(new, held, again, g)
<1>1. PICK list \in Seq(ProposalRefs) : list = ListAt(mem, <<"proposals", g>>)
  OBVIOUS
<1>2. ListAt(held, <<"proposals", g>>) = list
  BY <1>1, ItemFrame
<1>3. Listed(list) \subseteq ProposalRefs
  BY DEF Listed
<1>4. CASE <<"proposals", g>> \in rep
  BY <1>4 DEF ProposalsAgree
<1>5. CASE <<"proposals", g>> \notin rep
  <2>1. /\ Once(list)
        /\ \A x \in Listed(list) : <<"proposal", g, x>> \in DOMAIN mem
        /\ \A x \in ProposalRefs :
              ValuesAt(db, "openmls_proposal", <<g, x>>)
              = IF x \in Listed(list) THEN {mem[<<"proposal", g, x>>]} ELSE {}
    BY <1>1, <1>5 DEF ProposalsAgree
  <2>2. \A x \in Listed(list) : /\ <<"proposal", g, x>> \in DOMAIN held
                                /\ held[<<"proposal", g, x>>] = mem[<<"proposal", g, x>>]
    BY <1>3, <2>1 DEF SameItem
  <2>3. \A x \in ProposalRefs :
              ValuesAt(new, "openmls_proposal", <<g, x>>)
              = IF x \in Listed(list) THEN {held[<<"proposal", g, x>>]} ELSE {}
    BY <2>1, <2>2
  <2> QED BY <1>2, <2>1, <2>2, <2>3 DEF ProposalsAgree
<1> QED BY <1>4, <1>5

LEMMA KeyFrame ==
    ASSUME NEW db, NEW mem, NEW rep, NEW new, NEW held, NEW again, NEW table, NEW k,
           KeyAgrees(db, mem, rep, table, k),
           ValuesAt(new, table, <<k>>) = ValuesAt(db, table, <<k>>),
           SameItem(held, mem, <<table, k>>), <<table, k>> \in rep => <<table, k>> \in again
    PROVE  KeyAgrees(new, held, again, table, k)
BY ItemFrame DEF KeyAgrees

\* The lists in memory after a write to one name.
LEMMA TypesFrame ==
    ASSUME NEW db, NEW mem, NEW held, StoredTypes(db, mem),
           \A g \in GroupIds :
              /\ \/ SameItem(held, mem, <<"leaf_nodes", g>>)
                 \/ ListAt(held, <<"leaf_nodes", g>>) \in Seq(Values)
              /\ \/ SameItem(held, mem, <<"proposals", g>>)
                 \/ ListAt(held, <<"proposals", g>>) \in Seq(ProposalRefs)
    PROVE  StoredTypes(db, held)
<1>1. \A g \in GroupIds : /\ ListAt(held, <<"leaf_nodes", g>>) \in Seq(Values)
                          /\ ListAt(held, <<"proposals", g>>) \in Seq(ProposalRefs)
  <2> SUFFICES ASSUME NEW g \in GroupIds
               PROVE  /\ ListAt(held, <<"leaf_nodes", g>>) \in Seq(Values)
                      /\ ListAt(held, <<"proposals", g>>) \in Seq(ProposalRefs)
    OBVIOUS
  <2>1. /\ ListAt(mem, <<"leaf_nodes", g>>) \in Seq(Values)
        /\ ListAt(mem, <<"proposals", g>>) \in Seq(ProposalRefs)
    BY DEF StoredTypes
  <2>2. \A name : SameItem(held, mem, name) => ListAt(held, name) = ListAt(mem, name)
    BY ItemFrame
  <2> QED BY <2>1, <2>2
<1> QED BY <1>1 DEF StoredTypes

\* Names, by their labels.
LEMMA NamesDiffer ==
    ASSUME NEW g, NEW x, NEW h, NEW y
    PROVE  /\ <<"group_data", g, x>> # <<"leaf_nodes", h>> /\ <<"group_data", g, x>> # <<"proposals", h>>
           /\ <<"group_data", g, x>> # <<"proposal", h, y>> /\ <<"leaf_nodes", g>> # <<"proposals", h>>
           /\ <<"leaf_nodes", g>> # <<"proposal", h, y>> /\ <<"proposals", g>> # <<"proposal", h, y>>
           /\ << >> # <<"leaf_nodes", g>> /\ << >> # <<"proposals", g>>
<1>1. (\A a, b, c : <<a, b, c>>[1] = a) /\ (\A a, b : <<a, b>>[1] = a)
  OBVIOUS
<1> QED BY <1>1

LEMMA KeyNamesDiffer ==
    ASSUME NEW g, NEW x, NEW table \in KeyTables, NEW k
    PROVE  /\ <<"group_data", g, x>> # <<table, k>> /\ <<"leaf_nodes", g>> # <<table, k>>
           /\ <<"proposals", g>> # <<table, k>> /\ <<"proposal", g, x>> # <<table, k>>
           /\ table # "openmls_group_data" /\ table # "openmls_own_leaf_node"
           /\ table # "openmls_proposal" /\ << >> # <<table, k>>
<1>1. table \in Storage!AllKeyTables
  BY StorageAssumption
<1>2. /\ table # "group_data" /\ table # "leaf_nodes" /\ table # "proposals" /\ table # "proposal"
      /\ table # "openmls_group_data" /\ table # "openmls_own_leaf_node" /\ table # "openmls_proposal"
  BY <1>1 DEF Storage!AllKeyTables
<1>3. (\A a, b, c : <<a, b, c>>[1] = a) /\ (\A a, b : <<a, b>>[1] = a)
  OBVIOUS
<1> QED BY <1>2, <1>3

\* A write, or a delete, of one kind leaves the other kinds alone.
LEMMA DataCall ==
    ASSUME NEW db, NEW mem, NEW rep, NEW new, NEW held, NEW again, StorageOK(db, mem, rep),
           StoredTypes(new, mem), NEW g \in GroupIds, NEW t \in DataTypes,
           \A table, key : table # "openmls_group_data" \/ key # <<g, Storage!ToStr[t]>>
                           => ValuesAt(new, table, key) = ValuesAt(db, table, key),
           \A name : name # <<"group_data", g, t>> => SameItem(held, mem, name),
           \A name : name # <<"group_data", g, t>> => (name \in again <=> name \in rep),
           DataAgrees(new, held, g, t)
    PROVE  StorageOK(new, held, again)
<1>1. StoredTypes(new, held)
  BY NamesDiffer, TypesFrame
<1>2. \A h \in GroupIds : LeavesAgree(new, held, again, h)
  BY NamesDiffer, LeavesFrame DEF StorageOK
<1>3. \A h \in GroupIds : ProposalsAgree(new, held, again, h)
  <2> SUFFICES ASSUME NEW h \in GroupIds PROVE ProposalsAgree(new, held, again, h)
    OBVIOUS
  <2>1. ListAt(mem, <<"proposals", h>>) \in Seq(ProposalRefs) /\ ProposalsAgree(db, mem, rep, h)
    BY DEF StorageOK, StoredTypes
  <2>2. /\ SameItem(held, mem, <<"proposals", h>>)
        /\ <<"proposals", h>> \in rep => <<"proposals", h>> \in again
        /\ \A x \in ProposalRefs :
             /\ SameItem(held, mem, <<"proposal", h, x>>)
             /\ ValuesAt(new, "openmls_proposal", <<h, x>>) = ValuesAt(db, "openmls_proposal", <<h, x>>)
    BY NamesDiffer
  <2> QED BY <2>1, <2>2, ProposalsFrame
<1>4. ASSUME NEW h \in GroupIds, NEW u \in DataTypes PROVE DataAgrees(new, held, h, u)
  <2>1. CASE h = g /\ u = t
    BY <2>1
  <2>2. CASE ~(h = g /\ u = t)
    <3>1. <<"group_data", h, u>> # <<"group_data", g, t>>
      BY <2>2
    <3>2. <<h, Storage!ToStr[u]>> # <<g, Storage!ToStr[t]>>
      BY <2>2, ToStrDiffers, StorageAssumption
    <3> QED BY <3>1, <3>2, DataFrame DEF StorageOK
  <2> QED BY <2>1, <2>2
<1>5. \A table \in KeyTables, k \in Keys : KeyAgrees(new, held, again, table, k)
  BY KeyNamesDiffer, KeyFrame DEF StorageOK
<1> QED BY <1>1, <1>2, <1>3, <1>4, <1>5 DEF StorageOK

LEMMA LeavesCall ==
    ASSUME NEW db, NEW mem, NEW rep, NEW new, NEW held, NEW again, StorageOK(db, mem, rep),
           StoredTypes(new, mem), NEW g \in GroupIds,
           \A table, key : table # "openmls_own_leaf_node" \/ key # <<g>>
                           => ValuesAt(new, table, key) = ValuesAt(db, table, key),
           \A name : name # <<"leaf_nodes", g>> => SameItem(held, mem, name),
           \A name : name # <<"leaf_nodes", g>> => (name \in again <=> name \in rep),
           ListAt(held, <<"leaf_nodes", g>>) \in Seq(Values), LeavesAgree(new, held, again, g)
    PROVE  StorageOK(new, held, again)
<1>1. StoredTypes(new, held)
  <2>1. \A h \in GroupIds : h # g => <<"leaf_nodes", h>> # <<"leaf_nodes", g>>
    OBVIOUS
  <2>2. \A h \in GroupIds : <<"proposals", h>> # <<"leaf_nodes", g>>
    BY NamesDiffer
  <2> QED BY <2>1, <2>2, TypesFrame
<1>2. ASSUME NEW h \in GroupIds PROVE LeavesAgree(new, held, again, h)
  <2>1. CASE h = g
    BY <2>1
  <2>2. CASE h # g
    <3>1. <<"leaf_nodes", h>> # <<"leaf_nodes", g>> /\ <<h>> # <<g>>
      BY <2>2
    <3> QED BY <3>1, LeavesFrame DEF StorageOK
  <2> QED BY <2>1, <2>2
<1>3. \A h \in GroupIds : ProposalsAgree(new, held, again, h)
  <2> SUFFICES ASSUME NEW h \in GroupIds PROVE ProposalsAgree(new, held, again, h)
    OBVIOUS
  <2>1. ListAt(mem, <<"proposals", h>>) \in Seq(ProposalRefs) /\ ProposalsAgree(db, mem, rep, h)
    BY DEF StorageOK, StoredTypes
  <2>2. /\ SameItem(held, mem, <<"proposals", h>>)
        /\ <<"proposals", h>> \in rep => <<"proposals", h>> \in again
        /\ \A x \in ProposalRefs :
             /\ SameItem(held, mem, <<"proposal", h, x>>)
             /\ ValuesAt(new, "openmls_proposal", <<h, x>>) = ValuesAt(db, "openmls_proposal", <<h, x>>)
    BY NamesDiffer
  <2> QED BY <2>1, <2>2, ProposalsFrame
<1>4. \A h \in GroupIds, u \in DataTypes : DataAgrees(new, held, h, u)
  BY NamesDiffer, DataFrame DEF StorageOK
<1>5. \A table \in KeyTables, k \in Keys : KeyAgrees(new, held, again, table, k)
  BY KeyNamesDiffer, KeyFrame DEF StorageOK
<1> QED BY <1>1, <1>2, <1>3, <1>4, <1>5 DEF StorageOK

LEMMA KeyCall ==
    ASSUME NEW db, NEW mem, NEW rep, NEW new, NEW held, NEW again, StorageOK(db, mem, rep),
           StoredTypes(new, mem), NEW table \in KeyTables, NEW k \in Keys,
           \A other, key : other # table \/ key # <<k>>
                           => ValuesAt(new, other, key) = ValuesAt(db, other, key),
           \A name : name # <<table, k>> => SameItem(held, mem, name),
           \A name : name # <<table, k>> => (name \in again <=> name \in rep),
           KeyAgrees(new, held, again, table, k)
    PROVE  StorageOK(new, held, again)
<1>1. StoredTypes(new, held)
  BY KeyNamesDiffer, TypesFrame
<1>2. \A h \in GroupIds : LeavesAgree(new, held, again, h)
  BY KeyNamesDiffer, LeavesFrame DEF StorageOK
<1>3. \A h \in GroupIds : ProposalsAgree(new, held, again, h)
  <2> SUFFICES ASSUME NEW h \in GroupIds PROVE ProposalsAgree(new, held, again, h)
    OBVIOUS
  <2>1. ListAt(mem, <<"proposals", h>>) \in Seq(ProposalRefs) /\ ProposalsAgree(db, mem, rep, h)
    BY DEF StorageOK, StoredTypes
  <2>2. /\ SameItem(held, mem, <<"proposals", h>>)
        /\ <<"proposals", h>> \in rep => <<"proposals", h>> \in again
        /\ \A x \in ProposalRefs :
             /\ SameItem(held, mem, <<"proposal", h, x>>)
             /\ ValuesAt(new, "openmls_proposal", <<h, x>>) = ValuesAt(db, "openmls_proposal", <<h, x>>)
    BY KeyNamesDiffer
  <2> QED BY <2>1, <2>2, ProposalsFrame
<1>4. \A h \in GroupIds, u \in DataTypes : DataAgrees(new, held, h, u)
  BY KeyNamesDiffer, DataFrame DEF StorageOK
<1>5. ASSUME NEW other \in KeyTables, NEW j \in Keys PROVE KeyAgrees(new, held, again, other, j)
  <2>1. CASE other = table /\ j = k
    BY <2>1
  <2>2. CASE ~(other = table /\ j = k)
    <3>1. <<other, j>> # <<table, k>> /\ (other # table \/ <<j>> # <<k>>)
      BY <2>2
    <3> QED BY <3>1, KeyFrame DEF StorageOK
  <2> QED BY <2>1, <2>2
<1> QED BY <1>1, <1>2, <1>3, <1>4, <1>5 DEF StorageOK

\* The names of the proposals of a group.
LEMMA ProposalsCall ==
    ASSUME NEW db, NEW mem, NEW rep, NEW new, NEW held, NEW again, StorageOK(db, mem, rep),
           StoredTypes(new, mem), NEW g \in GroupIds,
           \A table, key : table # "openmls_proposal" \/ (\A x \in ProposalRefs : key # <<g, x>>)
                           => ValuesAt(new, table, key) = ValuesAt(db, table, key),
           \A name : name # <<"proposals", g>> /\ (\A x \in ProposalRefs : name # <<"proposal", g, x>>)
                     => SameItem(held, mem, name),
           \A name : name # <<"proposals", g>> /\ name # << >> => (name \in again <=> name \in rep),
           ListAt(held, <<"proposals", g>>) \in Seq(ProposalRefs), ProposalsAgree(new, held, again, g)
    PROVE  StorageOK(new, held, again)
<1>1. StoredTypes(new, held)
  <2>1. \A h \in GroupIds : h # g => /\ <<"proposals", h>> # <<"proposals", g>>
                                     /\ \A x : <<"proposals", h>> # <<"proposal", g, x>>
    BY NamesDiffer
  <2>2. \A h \in GroupIds : /\ <<"leaf_nodes", h>> # <<"proposals", g>>
                            /\ \A x : <<"leaf_nodes", h>> # <<"proposal", g, x>>
    BY NamesDiffer
  <2> QED BY <2>1, <2>2, TypesFrame
<1>2. \A h \in GroupIds : LeavesAgree(new, held, again, h)
  BY NamesDiffer, LeavesFrame DEF StorageOK
<1>3. ASSUME NEW h \in GroupIds PROVE ProposalsAgree(new, held, again, h)
  <2>1. CASE h = g
    BY <2>1
  <2>2. CASE h # g
    <3>1. /\ <<"proposals", h>> # <<"proposals", g>> /\ <<"proposals", h>> # << >>
          /\ \A x : <<"proposals", h>> # <<"proposal", g, x>>
      BY <2>2, NamesDiffer
    <3>2. \A x, y : /\ <<"proposal", h, x>> # <<"proposal", g, y>> /\ <<h, x>> # <<g, y>>
                    /\ <<"proposal", h, x>> # <<"proposals", g>>
      BY <2>2, NamesDiffer
    <3>3. /\ SameItem(held, mem, <<"proposals", h>>)
          /\ \A x \in ProposalRefs :
               /\ SameItem(held, mem, <<"proposal", h, x>>)
               /\ ValuesAt(new, "openmls_proposal", <<h, x>>) = ValuesAt(db, "openmls_proposal", <<h, x>>)
      BY <3>1, <3>2
    <3> QED BY <3>1, <3>3, ProposalsFrame DEF StorageOK, StoredTypes
  <2> QED BY <2>1, <2>2
<1>4. \A h \in GroupIds, u \in DataTypes : DataAgrees(new, held, h, u)
  BY NamesDiffer, DataFrame DEF StorageOK
<1>5. \A table \in KeyTables, k \in Keys : KeyAgrees(new, held, again, table, k)
  BY KeyNamesDiffer, KeyFrame DEF StorageOK
<1> QED BY <1>1, <1>2, <1>3, <1>4, <1>5 DEF StorageOK

\* The reads of the model.
LEMMA Reads ==
    /\ \A table, key : Storage!Select(table, key) = RowsAt(rows, table, key)
    /\ \A name : Storage!GetList(name) = ListAt(memory, name) /\ Storage!Get(name) = HeldAt(memory, name)
BY DEF Storage!Select, RowsAt, Storage!GetList, ListAt, Storage!Get, HeldAt

LEMMA WriteGroupDataStep ==
    ASSUME StorageOK(rows, memory, repeated), NEW g \in GroupIds, NEW t \in DataTypes, NEW v \in Values,
           Storage!WriteGroupData(g, t, v)
    PROVE  StorageOK(rows', memory', repeated')
<1>1. PICK key : key = <<g, Storage!ToStr[t]>>
  OBVIOUS
<1>2. /\ rows' = (rows \ RowsAt(rows, "openmls_group_data", key))
                   \cup {Storage!Row("openmls_group_data", key, v)}
      /\ repeated' = repeated /\ memory' = Storage!With(memory, <<"group_data", g, t>>, v)
  BY <1>1, Reads DEF Storage!WriteGroupData, Storage!SqliteWriteGroupData, Storage!InsertOrReplace,
                     Storage!Put
<1>3. StoredTypes(rows, memory)
  BY DEF StorageOK
<1>4. /\ StoredTypes(rows', memory) /\ ValuesAt(rows', "openmls_group_data", key) = {v}
      /\ \A other, k : other # "openmls_group_data" \/ k # key
                       => ValuesAt(rows', other, k) = ValuesAt(rows, other, k)
  BY <1>2, <1>3, RowWritten
<1>5. /\ HeldAt(memory', <<"group_data", g, t>>) = {v}
      /\ \A name : name # <<"group_data", g, t>> => SameItem(memory', memory, name)
  BY <1>2, WithFacts
<1>6. DataAgrees(rows', memory', g, t)
  BY <1>1, <1>4, <1>5 DEF DataAgrees
<1>7. \A name : name \in repeated' <=> name \in repeated
  BY <1>2
<1> QED BY <1>1, <1>4, <1>5, <1>6, <1>7, DataCall

LEMMA DeleteGroupDataStep ==
    ASSUME StorageOK(rows, memory, repeated), NEW g \in GroupIds, NEW t \in DataTypes,
           Storage!DeleteGroupData(g, t)
    PROVE  StorageOK(rows', memory', repeated')
<1>1. PICK key : key = <<g, Storage!ToStr[t]>>
  OBVIOUS
<1>2. /\ rows' = Without(rows, RowsAt(rows, "openmls_group_data", key))
      /\ repeated' = repeated \ {<<"group_data", g, t>>}
      /\ memory' = Storage!Restrict(memory, DOMAIN memory \ {<<"group_data", g, t>>})
  BY <1>1, Reads DEF Storage!DeleteGroupData, Storage!SqliteDeleteGroupData, Storage!DeleteRows,
                     Storage!Erase, Without
<1>3. StoredTypes(rows, memory)
  BY DEF StorageOK
<1>5. /\ StoredTypes(rows', memory) /\ ValuesAt(rows', "openmls_group_data", key) = {}
      /\ \A other, k : other # "openmls_group_data" \/ k # key
                       => ValuesAt(rows', other, k) = ValuesAt(rows, other, k)
  BY <1>2, <1>3, RowDeleted
<1>6. /\ HeldAt(memory', <<"group_data", g, t>>) = {}
      /\ \A name : name # <<"group_data", g, t>> => SameItem(memory', memory, name)
  BY <1>2, ItemErased
<1>7. DataAgrees(rows', memory', g, t)
  BY <1>1, <1>5, <1>6 DEF DataAgrees
<1>8. \A name : name # <<"group_data", g, t>> => (name \in repeated' <=> name \in repeated)
  BY <1>2
<1> QED BY <1>1, <1>5, <1>6, <1>7, <1>8, DataCall

\* A plain insert writes a row, or is refused.
LEMMA InsertIs ==
    ASSUME NEW table, NEW key, NEW v \in Values, NEW item, Storage!Insert(table, key, v, item),
           StoredTypes(rows, memory),
           table = "openmls_proposal" => \E g \in GroupIds, x \in ProposalRefs : key = <<g, x>>
    PROVE  /\ StoredTypes(rows', memory)
           /\ \/ /\ ValuesAt(rows, table, key) = {} /\ RowsAt(rows, table, key) = {}
                 /\ ValuesAt(rows', table, key) = {v}
                 /\ repeated' = repeated
              \/ item \in repeated'
           /\ \A name : name # item => (name \in repeated' <=> name \in repeated)
           /\ \A other, k : other # table \/ k # key => ValuesAt(rows', other, k) = ValuesAt(rows, other, k)
<1>1. CASE RowsAt(rows, table, key) = {}
  <2>1. rows' = rows \cup {Storage!Row(table, key, v)} /\ repeated' = repeated
    BY <1>1, Reads DEF Storage!Insert
  <2>2. rows' = (rows \ RowsAt(rows, table, key)) \cup {Storage!Row(table, key, v)}
    BY <1>1, <2>1
  <2>3. ValuesAt(rows, table, key) = {}
    BY <1>1 DEF ValuesAt
  <2> QED BY <1>1, <2>1, <2>2, <2>3, RowWritten
<1>2. CASE RowsAt(rows, table, key) # {}
  <2>1. rows' = rows /\ repeated' = repeated \cup {item}
    BY <1>2, Reads DEF Storage!Insert
  <2> QED BY <2>1
<1> QED BY <1>1, <1>2

LEMMA AppendLeafStep ==
    ASSUME StorageOK(rows, memory, repeated), NEW g \in GroupIds, NEW v \in Values,
           Storage!SqliteAppendOwnLeafNode(g, v),
           Storage!Put(<<"leaf_nodes", g>>, Append(Storage!GetList(<<"leaf_nodes", g>>), v))
    PROVE  StorageOK(rows', memory', repeated')
<1>1. StoredTypes(rows, memory)
  BY DEF StorageOK
<1>2. PICK name : name = <<"leaf_nodes", g>>
  OBVIOUS
<1>3. PICK list \in Seq(Values) : list = ListAt(memory, name)
  BY <1>1, <1>2 DEF StoredTypes
<1>4. PICK longer \in Seq(Values) : longer = Append(list, v)
  BY <1>3, AppendFacts
<1>5. memory' = Storage!With(memory, name, longer)
  BY <1>2, <1>3, <1>4, Reads DEF Storage!Put
<1>6. /\ ListAt(memory', name) = longer
      /\ \A other : other # name => SameItem(memory', memory, other)
  BY <1>5, WithFacts
<1>7. Storage!Insert("openmls_own_leaf_node", <<g>>, v, name)
  BY <1>2 DEF Storage!SqliteAppendOwnLeafNode
<1>8. /\ StoredTypes(rows', memory)
      /\ \/ /\ ValuesAt(rows, "openmls_own_leaf_node", <<g>>) = {}
            /\ ValuesAt(rows', "openmls_own_leaf_node", <<g>>) = {v} /\ repeated' = repeated
         \/ name \in repeated'
      /\ \A other : other # name => (other \in repeated' <=> other \in repeated)
      /\ \A other, k : other # "openmls_own_leaf_node" \/ k # <<g>>
                       => ValuesAt(rows', other, k) = ValuesAt(rows, other, k)
  BY <1>1, <1>7, InsertIs
<1>9. LeavesAgree(rows', memory', repeated', g)
  <2>1. CASE name \in repeated'
    BY <1>2, <2>1 DEF LeavesAgree
  <2>2. CASE name \notin repeated'
    <3>1. Listed(list) = {}
      BY <1>2, <1>3, <1>8, <2>2 DEF StorageOK, LeavesAgree
    <3>2. Len(list) = 0
      <4>1. Len(list) \in Nat /\ \A i \in 1 .. Len(list) : list[i] \in Listed(list)
        BY <1>3 DEF Listed
      <4> QED BY <3>1, <4>1
    <3>3. Len(longer) = 1 /\ longer[1] = v
      BY <1>3, <1>4, <3>2, AppendFacts
    <3>4. Listed(longer) = {v}
      BY <3>3 DEF Listed
    <3> QED BY <1>2, <1>6, <1>8, <2>2, <3>4 DEF LeavesAgree
  <2> QED BY <2>1, <2>2
<1> QED BY <1>2, <1>6, <1>8, <1>9, LeavesCall

LEMMA DeleteLeavesStep ==
    ASSUME StorageOK(rows, memory, repeated), NEW g \in GroupIds,
           Storage!SqliteDeleteOwnLeafNodes(g), Storage!Erase({<<"leaf_nodes", g>>})
    PROVE  StorageOK(rows', memory', repeated')
<1>1. PICK name : name = <<"leaf_nodes", g>>
  OBVIOUS
<1>2. /\ rows' = Without(rows, RowsAt(rows, "openmls_own_leaf_node", <<g>>))
      /\ repeated' = repeated \ {name} /\ memory' = Storage!Restrict(memory, DOMAIN memory \ {name})
  BY <1>1, Reads DEF Storage!SqliteDeleteOwnLeafNodes, Storage!DeleteRows, Storage!Erase, Without
<1>3. StoredTypes(rows, memory)
  BY DEF StorageOK
<1>4. /\ StoredTypes(rows', memory) /\ ValuesAt(rows', "openmls_own_leaf_node", <<g>>) = {}
      /\ \A other, k : other # "openmls_own_leaf_node" \/ k # <<g>>
                       => ValuesAt(rows', other, k) = ValuesAt(rows, other, k)
  BY <1>2, <1>3, RowDeleted
<1>5. /\ ListAt(memory', name) = << >>
      /\ \A other : other # name => SameItem(memory', memory, other)
  BY <1>2, ItemErased
<1>6. Listed(<< >>) = {} /\ << >> \in Seq(Values)
  BY DEF Listed
<1>7. LeavesAgree(rows', memory', repeated', g)
  BY <1>1, <1>4, <1>5, <1>6 DEF LeavesAgree
<1>8. \A other : other # name => (other \in repeated' <=> other \in repeated)
  BY <1>2
<1> QED BY <1>1, <1>4, <1>5, <1>6, <1>7, <1>8, LeavesCall

LEMMA WriteKeyStep ==
    ASSUME StorageOK(rows, memory, repeated), NEW table \in KeyTables, NEW k \in Keys, NEW v \in Values,
           Storage!WriteKey(table, k, v)
    PROVE  StorageOK(rows', memory', repeated')
<1>1. /\ Storage!Insert(table, <<k>>, v, <<table, k>>) /\ memory' = Storage!With(memory, <<table, k>>, v)
  BY DEF Storage!WriteKey, Storage!SqliteWriteKey, Storage!Put
<1>2. table # "openmls_proposal"
  BY KeyNamesDiffer
<1>3. /\ StoredTypes(rows', memory)
      /\ ValuesAt(rows', table, <<k>>) = {v} \/ <<table, k>> \in repeated'
      /\ \A other : other # <<table, k>> => (other \in repeated' <=> other \in repeated)
      /\ \A other, key : other # table \/ key # <<k>>
                         => ValuesAt(rows', other, key) = ValuesAt(rows, other, key)
  BY <1>1, <1>2, InsertIs DEF StorageOK
<1>4. /\ HeldAt(memory', <<table, k>>) = {v}
      /\ \A other : other # <<table, k>> => SameItem(memory', memory, other)
  BY <1>1, WithFacts
<1>5. KeyAgrees(rows', memory', repeated', table, k)
  BY <1>3, <1>4 DEF KeyAgrees
<1> QED BY <1>3, <1>4, <1>5, KeyCall

LEMMA DeleteKeyStep ==
    ASSUME StorageOK(rows, memory, repeated), NEW table \in KeyTables, NEW k \in Keys,
           Storage!DeleteKey(table, k)
    PROVE  StorageOK(rows', memory', repeated')
<1>1. /\ rows' = Without(rows, RowsAt(rows, table, <<k>>)) /\ repeated' = repeated \ {<<table, k>>}
      /\ memory' = Storage!Restrict(memory, DOMAIN memory \ {<<table, k>>})
  BY Reads DEF Storage!DeleteKey, Storage!SqliteDeleteKey, Storage!DeleteRows, Storage!Erase, Without
<1>2. StoredTypes(rows, memory)
  BY DEF StorageOK
<1>3. /\ StoredTypes(rows', memory) /\ ValuesAt(rows', table, <<k>>) = {}
      /\ \A other, key : other # table \/ key # <<k>>
                         => ValuesAt(rows', other, key) = ValuesAt(rows, other, key)
  BY <1>1, <1>2, RowDeleted
<1>4. /\ HeldAt(memory', <<table, k>>) = {}
      /\ \A other : other # <<table, k>> => SameItem(memory', memory, other)
  BY <1>1, ItemErased
<1>5. KeyAgrees(rows', memory', repeated', table, k)
  BY <1>3, <1>4 DEF KeyAgrees
<1>6. \A other : other # <<table, k>> => (other \in repeated' <=> other \in repeated)
  BY <1>1
<1> QED BY <1>3, <1>4, <1>5, <1>6, KeyCall

LEMMA QueueProposalStep ==
    ASSUME StorageOK(rows, memory, repeated), NEW g \in GroupIds, NEW x \in ProposalRefs, NEW v \in Values,
           Storage!SqliteQueueProposal(g, x, v), Storage!MemoryQueueProposal(g, x, v)
    PROVE  StorageOK(rows', memory', repeated')
<1>1. StoredTypes(rows, memory)
  BY DEF StorageOK
<1>2. PICK name : name = <<"proposals", g>>
  OBVIOUS
<1>3. PICK item : item = <<"proposal", g, x>>
  OBVIOUS
<1>4. name # item
  BY <1>2, <1>3, NamesDiffer
<1>5. PICK list \in Seq(ProposalRefs) : list = ListAt(memory, name)
  BY <1>1, <1>2 DEF StoredTypes
<1>6. PICK longer \in Seq(ProposalRefs) : longer = Append(list, x)
  BY <1>5, AppendFacts
<1>7. PICK between : between = Storage!With(memory, name, longer)
  OBVIOUS
<1>8. memory' = Storage!With(between, item, v)
  BY <1>2, <1>3, <1>5, <1>6, <1>7, Reads DEF Storage!MemoryQueueProposal
<1>9. ListAt(between, name) = longer /\ \A other : other # name => SameItem(between, memory, other)
  BY <1>7, WithFacts
<1>10. /\ item \in DOMAIN memory' /\ memory'[item] = v
       /\ \A other : other # item => SameItem(memory', between, other)
  BY <1>8, WithFacts
<1>11. ListAt(memory', name) = longer
  BY <1>4, <1>9, <1>10, ItemFrame
<1>12. \A other : other # name /\ other # item => SameItem(memory', memory, other)
  BY <1>9, <1>10 DEF SameItem
<1>13. Storage!Insert("openmls_proposal", <<g, x>>, v, name)
  BY <1>2 DEF Storage!SqliteQueueProposal
<1>14. /\ StoredTypes(rows', memory)
       /\ \/ /\ ValuesAt(rows, "openmls_proposal", <<g, x>>) = {}
             /\ ValuesAt(rows', "openmls_proposal", <<g, x>>) = {v} /\ repeated' = repeated
          \/ name \in repeated'
       /\ \A other : other # name => (other \in repeated' <=> other \in repeated)
       /\ \A other, k : other # "openmls_proposal" \/ k # <<g, x>>
                        => ValuesAt(rows', other, k) = ValuesAt(rows, other, k)
  BY <1>1, <1>13, InsertIs
<1>15. ProposalsAgree(rows', memory', repeated', g)
  <2>1. CASE name \in repeated'
    BY <1>2, <2>1 DEF ProposalsAgree
  <2>2. CASE name \notin repeated'
    <3>1. /\ ValuesAt(rows, "openmls_proposal", <<g, x>>) = {}
          /\ ValuesAt(rows', "openmls_proposal", <<g, x>>) = {v} /\ repeated' = repeated
      BY <1>14, <2>2
    <3>2. /\ Once(list)
          /\ \A y \in Listed(list) : <<"proposal", g, y>> \in DOMAIN memory
          /\ \A y \in ProposalRefs :
                ValuesAt(rows, "openmls_proposal", <<g, y>>)
                = IF y \in Listed(list) THEN {memory[<<"proposal", g, y>>]} ELSE {}
      BY <1>2, <1>5, <2>2, <3>1 DEF StorageOK, ProposalsAgree
    <3>3. x \notin Listed(list)
      BY <3>1, <3>2
    <3>4. PICK n \in Nat : n = Len(list) /\ Len(longer) = n + 1 /\ longer[n + 1] = x
                           /\ \A i \in 1 .. n : longer[i] = list[i]
      BY <1>5, <1>6, AppendFacts
    <3>5. \A i \in 1 .. n : list[i] # x /\ list[i] \in Listed(list)
      BY <3>3, <3>4 DEF Listed
    <3>6. \A i \in 1 .. n + 1 : i \in 1 .. n \/ i = n + 1
      BY <3>4
    <3>7. Once(longer)
      BY <3>2, <3>4, <3>5, <3>6 DEF Once
    <3>8. Listed(longer) = Listed(list) \cup {x}
      <4>1. \A y \in Listed(longer) : y \in Listed(list) \cup {x}
        BY <3>4, <3>5, <3>6 DEF Listed
      <4>2. \A y \in Listed(list) : y \in Listed(longer)
        <5>1. \A i \in 1 .. n : i \in 1 .. n + 1
          BY <3>4
        <5> QED BY <3>4, <5>1 DEF Listed
      <4>3. x \in Listed(longer)
        <5>1. n + 1 \in 1 .. n + 1
          BY <3>4
        <5> QED BY <3>4, <5>1 DEF Listed
      <4> QED BY <4>1, <4>2, <4>3
    <3>9. \A y : y # x => /\ <<"proposal", g, y>> # item /\ <<"proposal", g, y>> # name
                          /\ <<g, y>> # <<g, x>>
      BY <1>2, <1>3, NamesDiffer
    <3>10. \A y \in Listed(longer) :
             /\ <<"proposal", g, y>> \in DOMAIN memory'
             /\ y # x => memory'[<<"proposal", g, y>>] = memory[<<"proposal", g, y>>]
      BY <1>3, <1>10, <1>12, <3>2, <3>8, <3>9 DEF SameItem
    <3>11. ASSUME NEW y \in ProposalRefs
           PROVE  ValuesAt(rows', "openmls_proposal", <<g, y>>)
                  = IF y \in Listed(longer) THEN {memory'[<<"proposal", g, y>>]} ELSE {}
      <4>1. CASE y = x
        BY <1>3, <1>10, <3>1, <3>8, <4>1
      <4>2. CASE y # x
        BY <1>14, <3>2, <3>8, <3>9, <3>10, <4>2
      <4> QED BY <4>1, <4>2
    <3> QED BY <1>2, <1>11, <3>7, <3>10, <3>11 DEF ProposalsAgree
  <2> QED BY <2>1, <2>2
<1>16. /\ \A table, key : table # "openmls_proposal" \/ (\A y \in ProposalRefs : key # <<g, y>>)
                          => ValuesAt(rows', table, key) = ValuesAt(rows, table, key)
       /\ \A other : other # <<"proposals", g>> /\ (\A y \in ProposalRefs : other # <<"proposal", g, y>>)
                     => SameItem(memory', memory, other)
       /\ \A other : other # <<"proposals", g>> /\ other # << >> => (other \in repeated' <=> other \in repeated)
  BY <1>2, <1>3, <1>12, <1>14
<1>17. ListAt(memory', <<"proposals", g>>) \in Seq(ProposalRefs)
  BY <1>2, <1>6, <1>11
<1> QED BY <1>14, <1>15, <1>16, <1>17, ProposalsCall

\* A list without one of its elements.
LEMMA ListedWithout ==
    ASSUME NEW S, NEW s \in Seq(S), NEW x, NEW t, t = Storage!RemoveFirst(s, x)
    PROVE  t \in Seq(S) /\ (Once(s) => Once(t) /\ Listed(t) = Listed(s) \ {x})
<1>1. CASE t = s /\ \A i \in 1 .. Len(s) : s[i] # x
  BY <1>1 DEF Listed
<1>2. ASSUME NEW i \in 1 .. Len(s), s[i] = x, t = Storage!RemoveAt(s, i)
      PROVE  t \in Seq(S) /\ (Once(s) => Once(t) /\ Listed(t) = Listed(s) \ {x})
  <2>1. PICK n \in Nat : n = Len(s)
    OBVIOUS
  <2>2. /\ t \in Seq(S) /\ Len(t) = n - 1
        /\ \A j \in 1 .. n - 1 : t[j] = IF j < i THEN s[j] ELSE s[j + 1]
    BY <1>2, <2>1, RemovedAt
  <2>3. ASSUME Once(s) PROVE Once(t) /\ Listed(t) = Listed(s) \ {x}
    <3> DEFINE at(j) == IF j < i THEN j ELSE j + 1
    <3>1. \A j \in 1 .. n - 1 : at(j) \in 1 .. n /\ at(j) # i /\ t[j] = s[at(j)]
      BY <2>1, <2>2
    <3>2. \A j, k \in 1 .. n - 1 : at(j) = at(k) => j = k
      BY <2>1
    <3>3. \A k \in 1 .. n : k # i => \E j \in 1 .. n - 1 : at(j) = k
      <4> SUFFICES ASSUME NEW k \in 1 .. n, k # i PROVE \E j \in 1 .. n - 1 : at(j) = k
        OBVIOUS
      <4>1. CASE k < i
        <5>1. k \in 1 .. n - 1 /\ at(k) = k
          BY <2>1, <4>1
        <5> QED BY <5>1
      <4>2. CASE k > i
        <5>1. k - 1 \in 1 .. n - 1 /\ at(k - 1) = k
          BY <2>1, <4>2
        <5> QED BY <5>1
      <4> QED BY <2>1, <4>1, <4>2
    <3>4. \A j, k \in 1 .. n : s[j] = s[k] => j = k
      BY <2>1, <2>3 DEF Once
    <3> HIDE DEF at
    <3>5. \A j, k \in 1 .. n - 1 : t[j] = t[k] => j = k
      BY <3>1, <3>2, <3>4
    <3>6. Once(t)
      BY <2>2, <3>5 DEF Once
    <3>7. \A y \in Listed(t) : y \in Listed(s) /\ y # x
      BY <1>2, <2>1, <2>2, <3>1, <3>4 DEF Listed
    <3>8. \A y \in Listed(s) : y # x => y \in Listed(t)
      <4> SUFFICES ASSUME NEW k \in 1 .. n, s[k] # x PROVE s[k] \in Listed(t)
        BY <2>1 DEF Listed
      <4>1. PICK j \in 1 .. n - 1 : at(j) = k
        BY <1>2, <3>3
      <4>2. t[j] = s[k]
        BY <3>1, <4>1
      <4> QED BY <2>2, <4>2 DEF Listed
    <3> QED BY <3>6, <3>7, <3>8
  <2> QED BY <2>2, <2>3
<1> QED BY <1>1, <1>2, RemovedFirst

LEMMA RemoveProposalStep ==
    ASSUME StorageOK(rows, memory, repeated), NEW g \in GroupIds, NEW x \in ProposalRefs,
           Storage!SqliteRemoveProposal(g, x), Storage!MemoryRemoveProposal(g, x)
    PROVE  StorageOK(rows', memory', repeated')
<1>1. StoredTypes(rows, memory)
  BY DEF StorageOK
<1>2. PICK name : name = <<"proposals", g>>
  OBVIOUS
<1>3. PICK item : item = <<"proposal", g, x>>
  OBVIOUS
<1>4. name # item
  BY <1>2, <1>3, NamesDiffer
<1>5. PICK list \in Seq(ProposalRefs) : list = ListAt(memory, name)
  BY <1>1, <1>2 DEF StoredTypes
<1>6. PICK rest : rest = Storage!RemoveFirst(list, x)
  OBVIOUS
<1>7. rest \in Seq(ProposalRefs) /\ (Once(list) => Once(rest) /\ Listed(rest) = Listed(list) \ {x})
  BY <1>5, <1>6, ListedWithout
<1>8. PICK between : between = Storage!Restrict(memory, DOMAIN memory \ {item})
  OBVIOUS
<1>9. memory' = Storage!With(between, name, rest)
  BY <1>2, <1>3, <1>5, <1>6, <1>8, Reads DEF Storage!MemoryRemoveProposal
<1>10. \A other : other # item => SameItem(between, memory, other)
  BY <1>8, ItemErased
<1>11. /\ ListAt(memory', name) = rest
       /\ \A other : other # name => SameItem(memory', between, other)
  BY <1>9, WithFacts
<1>12. \A other : other # name /\ other # item => SameItem(memory', memory, other)
  BY <1>10, <1>11 DEF SameItem
<1>13. rows' = Without(rows, RowsAt(rows, "openmls_proposal", <<g, x>>)) /\ repeated' = repeated \ {<< >>}
  BY Reads DEF Storage!SqliteRemoveProposal, Storage!DeleteRows, Without
<1>14. /\ StoredTypes(rows', memory) /\ ValuesAt(rows', "openmls_proposal", <<g, x>>) = {}
       /\ \A other, k : other # "openmls_proposal" \/ k # <<g, x>>
                        => ValuesAt(rows', other, k) = ValuesAt(rows, other, k)
  BY <1>1, <1>13, RowDeleted
<1>15. \A other : other # << >> => (other \in repeated' <=> other \in repeated)
  BY <1>13
<1>16. ProposalsAgree(rows', memory', repeated', g)
  <2>1. name \in repeated' <=> name \in repeated
    BY <1>2, <1>15, NamesDiffer
  <2>2. CASE name \in repeated
    BY <1>2, <2>1, <2>2 DEF ProposalsAgree
  <2>3. CASE name \notin repeated
    <3>1. /\ Once(list)
          /\ \A y \in Listed(list) : <<"proposal", g, y>> \in DOMAIN memory
          /\ \A y \in ProposalRefs :
                ValuesAt(rows, "openmls_proposal", <<g, y>>)
                = IF y \in Listed(list) THEN {memory[<<"proposal", g, y>>]} ELSE {}
      BY <1>2, <1>5, <2>3 DEF StorageOK, ProposalsAgree
    <3>2. Once(rest) /\ \A y : y \in Listed(rest) <=> y \in Listed(list) /\ y # x
      BY <1>7, <3>1
    <3>3. \A y : y # x => /\ <<"proposal", g, y>> # item /\ <<"proposal", g, y>> # name
                          /\ <<g, y>> # <<g, x>>
      BY <1>2, <1>3, NamesDiffer
    <3>4. \A y \in Listed(rest) :
             /\ <<"proposal", g, y>> \in DOMAIN memory'
             /\ memory'[<<"proposal", g, y>>] = memory[<<"proposal", g, y>>]
      BY <1>12, <3>1, <3>2, <3>3 DEF SameItem
    <3>5. ASSUME NEW y \in ProposalRefs
          PROVE  ValuesAt(rows', "openmls_proposal", <<g, y>>)
                 = IF y \in Listed(rest) THEN {memory'[<<"proposal", g, y>>]} ELSE {}
      <4>1. CASE y = x
        BY <1>14, <3>2, <4>1
      <4>2. CASE y # x
        BY <1>14, <3>1, <3>2, <3>3, <3>4, <4>2
      <4> QED BY <4>1, <4>2
    <3> QED BY <1>2, <1>11, <3>2, <3>4, <3>5 DEF ProposalsAgree
  <2> QED BY <2>2, <2>3
<1>17. /\ \A table, key : table # "openmls_proposal" \/ (\A y \in ProposalRefs : key # <<g, y>>)
                          => ValuesAt(rows', table, key) = ValuesAt(rows, table, key)
       /\ \A other : other # <<"proposals", g>> /\ (\A y \in ProposalRefs : other # <<"proposal", g, y>>)
                     => SameItem(memory', memory, other)
  BY <1>2, <1>3, <1>12, <1>14
<1>18. ListAt(memory', <<"proposals", g>>) \in Seq(ProposalRefs)
  BY <1>2, <1>7, <1>11
<1> QED BY <1>14, <1>15, <1>16, <1>17, <1>18, ProposalsCall

LEMMA ClearProposalsStep ==
    ASSUME StorageOK(rows, memory, repeated), NEW g \in GroupIds, Storage!SqliteClearProposalQueue(g),
           Storage!Erase({<<"proposals", g>>} \cup {<<"proposal", g, x>> : x \in ProposalRefs})
    PROVE  StorageOK(rows', memory', repeated')
<1>1. StoredTypes(rows, memory)
  BY DEF StorageOK
<1>2. PICK gone : gone = {<<"proposals", g>>} \cup {<<"proposal", g, x>> : x \in ProposalRefs}
  OBVIOUS
<1>3. memory' = Storage!Restrict(memory, DOMAIN memory \ gone)
  BY <1>2 DEF Storage!Erase
<1>4. /\ \A other \in gone : ListAt(memory', other) = << >>
      /\ \A other : other \notin gone => SameItem(memory', memory, other)
  BY <1>3, RestrictFacts
<1>5. ListAt(memory', <<"proposals", g>>) = << >>
  BY <1>2, <1>4
<1>6. \A other : other # <<"proposals", g>> /\ (\A x \in ProposalRefs : other # <<"proposal", g, x>>)
                 => SameItem(memory', memory, other)
  BY <1>2, <1>4
<1>7. rows' = Without(rows, ProposalRows(rows, g)) /\ repeated' = repeated \ {<<"proposals", g>>}
  BY DEF Storage!SqliteClearProposalQueue, Storage!DeleteRows, Storage!SelectGroup, Without, ProposalRows
<1>8. /\ StoredTypes(rows', memory)
      /\ \A x \in ProposalRefs : ValuesAt(rows', "openmls_proposal", <<g, x>>) = {}
      /\ \A table, key : table # "openmls_proposal" \/ (\A x \in ProposalRefs : key # <<g, x>>)
                         => ValuesAt(rows', table, key) = ValuesAt(rows, table, key)
  BY <1>1, <1>7, GroupCleared
<1>9. Listed(<< >>) = {} /\ Once(<< >>) /\ << >> \in Seq(ProposalRefs)
  BY DEF Listed, Once
<1>10. ProposalsAgree(rows', memory', repeated', g)
  BY <1>5, <1>8, <1>9 DEF ProposalsAgree
<1>11. \A other : other # <<"proposals", g>> => (other \in repeated' <=> other \in repeated)
  BY <1>7
<1> QED BY <1>5, <1>6, <1>8, <1>9, <1>10, <1>11, ProposalsCall

LEMMA StorageStart ==
    ASSUME Storage!Init PROVE StorageInv
<1>1. rows = {} /\ memory = << >> /\ repeated = {} /\ calls = 0
  BY DEF Storage!Init
<1>2. DOMAIN memory = {}
  BY <1>1
<1>3. \A name : HeldAt(memory, name) = {} /\ ListAt(memory, name) = << >>
  BY <1>2 DEF HeldAt, ListAt
<1>4. \A table, key : ValuesAt(rows, table, key) = {}
  BY <1>1 DEF ValuesAt, RowsAt
<1>5. Listed(<< >>) = {} /\ Once(<< >>)
  BY DEF Listed, Once
<1>6. StoredTypes(rows, memory)
  <2>1. \A S : << >> \in Seq(S)
    OBVIOUS
  <2>2. \A g : /\ ListAt(memory, <<"leaf_nodes", g>>) \in Seq(Values)
               /\ ListAt(memory, <<"proposals", g>>) \in Seq(ProposalRefs)
    BY <1>3, <2>1, Zenon
  <2> QED BY <1>1, <2>2 DEF StoredTypes
<1>7. \A g : /\ LeavesAgree(rows, memory, repeated, g) /\ ProposalsAgree(rows, memory, repeated, g)
             /\ \A t : DataAgrees(rows, memory, g, t)
  BY <1>3, <1>4, <1>5 DEF LeavesAgree, ProposalsAgree, DataAgrees
<1>8. \A table, k : KeyAgrees(rows, memory, repeated, table, k)
  BY <1>3, <1>4 DEF KeyAgrees
<1> QED BY <1>1, <1>6, <1>7, <1>8, StorageAssumption DEF StorageInv, StorageOK

LEMMA StorageStep ==
    ASSUME StorageInv, Storage!Next PROVE StorageInv'
<1>1. StorageOK(rows, memory, repeated)
  BY DEF StorageInv
<1>2. ASSUME NEW g \in GroupIds, NEW t \in DataTypes,
             Storage!DeleteGroupData(g, t) \/ \E v \in Values : Storage!WriteGroupData(g, t, v)
      PROVE  StorageOK(rows', memory', repeated') /\ Storage!Call
  BY <1>1, <1>2, DeleteGroupDataStep, WriteGroupDataStep
     DEF Storage!DeleteGroupData, Storage!WriteGroupData
<1>3. ASSUME NEW g \in GroupIds, Storage!DeleteFromGroup(g)
      PROVE  StorageOK(rows', memory', repeated') /\ Storage!Call
  BY <1>1, <1>3, DeleteLeavesStep, RemoveProposalStep, ClearProposalsStep DEF Storage!DeleteFromGroup
<1>4. ASSUME NEW g \in GroupIds, NEW v \in Values, Storage!WriteToGroup(g, v)
      PROVE  StorageOK(rows', memory', repeated') /\ Storage!Call
  BY <1>1, <1>4, AppendLeafStep, QueueProposalStep DEF Storage!WriteToGroup
<1>5. ASSUME NEW table \in KeyTables, NEW k \in Keys,
             Storage!DeleteKey(table, k) \/ \E v \in Values : Storage!WriteKey(table, k, v)
      PROVE  StorageOK(rows', memory', repeated') /\ Storage!Call
  BY <1>1, <1>5, DeleteKeyStep, WriteKeyStep DEF Storage!DeleteKey, Storage!WriteKey
<1>6. StorageOK(rows', memory', repeated') /\ Storage!Call
  BY <1>2, <1>3, <1>4, <1>5 DEF Storage!Next
<1>7. calls' \in 0 .. MaxCalls
  BY <1>6, StorageAssumption DEF Storage!Call, StorageInv
<1> QED BY <1>6, <1>7 DEF StorageInv

LEMMA StorageStutter ==
    ASSUME StorageInv, UNCHANGED <<rows, memory, repeated, calls>> PROVE StorageInv'
BY DEF StorageInv

\* The invariant says what the run checks.
LEMMA StorageResult ==
    ASSUME StorageInv PROVE Storage!TypeOK /\ Storage!BackendsAgree
<1>1. StorageOK(rows, memory, repeated) /\ StoredTypes(rows, memory)
  BY DEF StorageInv, StorageOK
<1>2. Storage!TypeOK
  BY <1>1 DEF StorageInv, StoredTypes, Storage!TypeOK
<1>3. \A table, key : {r.value : r \in Storage!Select(table, key)} = ValuesAt(rows, table, key)
  BY Reads DEF ValuesAt
<1>4. ASSUME NEW g \in GroupIds, NEW t \in DataTypes
      PROVE  Storage!ReadGroupData("Sqlite", g, t) = Storage!ReadGroupData("Memory", g, t)
  <2>1. DataAgrees(rows, memory, g, t)
    BY <1>1 DEF StorageOK
  <2>2. Storage!ReadGroupData("Sqlite", g, t)
          = ValuesAt(rows, "openmls_group_data", <<g, Storage!ToStr[t]>>)
    BY <1>3 DEF Storage!ReadGroupData, Storage!SqliteGroupData
  <2>3. Storage!ReadGroupData("Memory", g, t) = HeldAt(memory, <<"group_data", g, t>>)
    BY Reads DEF Storage!ReadGroupData
  <2> QED BY <2>1, <2>2, <2>3 DEF DataAgrees
<1>5. ASSUME NEW table \in KeyTables, NEW k \in Keys, <<table, k>> \notin repeated
      PROVE  Storage!ReadKey("Sqlite", table, k) = Storage!ReadKey("Memory", table, k)
  <2>1. KeyAgrees(rows, memory, repeated, table, k)
    BY <1>1 DEF StorageOK
  <2>2. Storage!ReadKey("Sqlite", table, k) = ValuesAt(rows, table, <<k>>)
    BY <1>3 DEF Storage!ReadKey, Storage!SqliteKey
  <2>3. Storage!ReadKey("Memory", table, k) = HeldAt(memory, <<table, k>>)
    BY Reads DEF Storage!ReadKey
  <2> QED BY <1>5, <2>1, <2>2, <2>3 DEF KeyAgrees
<1>6. ASSUME NEW g \in GroupIds, <<"leaf_nodes", g>> \notin repeated
      PROVE  Storage!OwnLeafNodes("Sqlite", g) = Storage!OwnLeafNodes("Memory", g)
  <2>1. PICK list \in Seq(Values) : list = ListAt(memory, <<"leaf_nodes", g>>)
    BY <1>1 DEF StoredTypes
  <2>2. ValuesAt(rows, "openmls_own_leaf_node", <<g>>) = Listed(list)
    BY <1>1, <1>6, <2>1 DEF StorageOK, LeavesAgree
  <2>3. Storage!OwnLeafNodes("Sqlite", g) = ValuesAt(rows, "openmls_own_leaf_node", <<g>>)
    BY <1>3 DEF Storage!OwnLeafNodes, Storage!SqliteOwnLeafNodes
  <2>4. Storage!OwnLeafNodes("Memory", g) = Storage!ToSet(list)
    BY <2>1, Reads DEF Storage!OwnLeafNodes
  <2>5. Storage!ToSet(list) = Listed(list)
    BY <2>1 DEF Storage!ToSet, Listed
  <2> QED BY <2>2, <2>3, <2>4, <2>5
<1>7. ASSUME NEW g \in GroupIds, <<"proposals", g>> \notin repeated
      PROVE  Storage!QueuedProposals("Sqlite", g) = Storage!QueuedProposals("Memory", g)
  <2>1. PICK list \in Seq(ProposalRefs) : list = ListAt(memory, <<"proposals", g>>)
    BY <1>1 DEF StoredTypes
  <2>2. \A x \in ProposalRefs :
          ValuesAt(rows, "openmls_proposal", <<g, x>>)
          = IF x \in Listed(list) THEN {memory[<<"proposal", g, x>>]} ELSE {}
    BY <1>1, <1>7, <2>1 DEF StorageOK, ProposalsAgree
  <2>3. Storage!QueuedProposals("Sqlite", g) = {<<r.key[2], r.value>> : r \in ProposalRows(rows, g)}
    BY DEF Storage!QueuedProposals, Storage!SqliteQueuedProposals, Storage!SelectGroup, ProposalRows
  <2>4. Storage!ToSet(list) = Listed(list) /\ Listed(list) \subseteq ProposalRefs
    BY <2>1 DEF Storage!ToSet, Listed
  <2>5. Storage!QueuedProposals("Memory", g) = {<<x, memory[<<"proposal", g, x>>]>> : x \in Listed(list)}
    BY <2>1, <2>4, Reads DEF Storage!QueuedProposals, Storage!MemoryQueuedProposals
  <2>6. ASSUME NEW r \in ProposalRows(rows, g)
        PROVE  r.key[2] \in Listed(list) /\ r.value = memory[<<"proposal", g, r.key[2]>>]
    <3>1. PICK h \in GroupIds, x \in ProposalRefs : r.key = <<h, x>>
      BY <1>1, <2>6 DEF ProposalRows, StoredTypes
    <3>2. h = g /\ r.key[2] = x /\ r \in RowsAt(rows, "openmls_proposal", <<g, x>>)
      BY <2>6, <3>1 DEF ProposalRows, RowsAt
    <3>3. r.value \in ValuesAt(rows, "openmls_proposal", <<g, x>>)
      BY <3>2 DEF ValuesAt
    <3> QED BY <2>2, <3>1, <3>2, <3>3
  <2>7. ASSUME NEW x \in Listed(list)
        PROVE  \E r \in ProposalRows(rows, g) : r.key[2] = x /\ r.value = memory[<<"proposal", g, x>>]
    <3>1. memory[<<"proposal", g, x>>] \in ValuesAt(rows, "openmls_proposal", <<g, x>>)
      BY <2>2, <2>4
    <3>2. PICK r \in RowsAt(rows, "openmls_proposal", <<g, x>>) : r.value = memory[<<"proposal", g, x>>]
      BY <3>1 DEF ValuesAt
    <3> QED BY <3>2 DEF RowsAt, ProposalRows
  <2>8. ASSUME NEW a \in Storage!QueuedProposals("Sqlite", g)
        PROVE  a \in Storage!QueuedProposals("Memory", g)
    <3>1. PICK r \in ProposalRows(rows, g) : a = <<r.key[2], r.value>>
      BY <2>3, <2>8
    <3>2. PICK x \in Listed(list) : x = r.key[2] /\ r.value = memory[<<"proposal", g, x>>]
      BY <2>6
    <3>3. a = <<x, memory[<<"proposal", g, x>>]>>
      BY <3>1, <3>2
    <3> QED BY <2>5, <3>3
  <2>9. ASSUME NEW a \in Storage!QueuedProposals("Memory", g)
        PROVE  a \in Storage!QueuedProposals("Sqlite", g)
    <3>1. PICK x \in Listed(list) : a = <<x, memory[<<"proposal", g, x>>]>>
      BY <2>5, <2>9
    <3>2. PICK r \in ProposalRows(rows, g) : r.key[2] = x /\ r.value = memory[<<"proposal", g, x>>]
      BY <2>7
    <3>3. a = <<r.key[2], r.value>>
      BY <3>1, <3>2
    <3> QED BY <2>3, <3>3
  <2> QED BY <2>8, <2>9
<1> QED BY <1>2, <1>4, <1>5, <1>6, <1>7 DEF Storage!BackendsAgree

\* SQLite refuses what MemoryStorage replaces or appends, one table holds the data of many
\* kinds, and a proposal is in two places of the memory: still, no read tells the two
\* storages apart, except as BackendsAgree says, after any sequence of calls.
THEOREM BackendsAlwaysAgree == DevicesSpec => []BackendsAgree
<1>1. DevicesInit => StorageInv
  BY StorageStart DEF DevicesInit
<1>2. [DevicesNext]_devicesVars => Storage!Next \/ UNCHANGED storageVars
  BY DEF DevicesNext, devicesVars
<1>3. StorageInv /\ [DevicesNext]_devicesVars => StorageInv'
  BY <1>2, StorageStep, StorageStutter DEF storageVars
<1>4. StorageInv => BackendsAgree
  BY StorageResult DEF BackendsAgree
<1> QED BY <1>1, <1>3, <1>4, PTL DEF DevicesSpec

-----------------------------------------------------------------------------
(* Types of all five parts.                                                *)

\* The update that runs is the one that holds the mutex.
LockInv ==
    /\ request \in [Requests -> {"none", "update", "ok", "error", "lost"}]
    /\ lock \in Requests \cup {"none"}
    /\ \A r \in Requests : (request[r] = "update") <=> (lock = r)

\* Its installer is the only one of the agent's.
UpdateInv == installer["update"].at # "off" => lock # "none" /\ Install!Active

InstallCounts == manual \in 0 .. MaxManual /\ agentCrashes \in 0 .. MaxCrashes

UpdatesInv == LockInv /\ UpdateInv /\ InstallCounts

\* The mutex is given back with an answer.
LEMMA LockReleased ==
    ASSUME Install!InstallAssumption, LockInv, NEW a \in {"ok", "error", "lost"}, lock' = "none",
           \/ request' = [r \in Requests |-> IF r = lock THEN a ELSE request[r]]
           \/ request' = [request EXCEPT ![lock] = a]
    PROVE  LockInv'
<1>1. "none" \notin Requests
  BY DEF Install!InstallAssumption
<1>2. request' = [r \in Requests |-> IF r = lock THEN a ELSE request[r]]
  BY DEF LockInv
<1>3. request' \in [Requests -> {"none", "update", "ok", "error", "lost"}]
  BY <1>2 DEF LockInv
<1>4. \A r \in Requests : request'[r] # "update"
  BY <1>2 DEF LockInv
<1> QED BY <1>1, <1>3, <1>4 DEF LockInv

LEMMA LockTaken ==
    ASSUME Install!InstallAssumption, LockInv, NEW r \in Requests, Install!AskUpdate(r)
    PROVE  LockInv' /\ (lock # "none" => lock' # "none")
<1>1. request[r] = "none" /\ "none" \notin Requests
  BY DEF Install!AskUpdate, Install!InstallAssumption
<1>2. CASE lock = "none"
  <2>1. request' = [request EXCEPT ![r] = "update"] /\ lock' = r
    BY <1>2 DEF Install!AskUpdate
  <2>2. \A q \in Requests : request[q] # "update"
    BY <1>1, <1>2 DEF LockInv
  <2> QED BY <1>1, <1>2, <2>1, <2>2 DEF LockInv
<1>3. CASE lock # "none"
  <2>1. request' = [request EXCEPT ![r] = "error"] /\ lock' = lock
    BY <1>3 DEF Install!AskUpdate
  <2> QED BY <1>1, <1>3, <2>1 DEF LockInv
<1> QED BY <1>2, <1>3

\* A step that neither gives back the mutex nor ends the agent.
LEMMA UpdateGoesOn ==
    ASSUME UpdateInv, lock # "none" => lock' # "none", Install!Active => Install!Active',
           installer'["update"].at # "off" =>
               installer["update"].at # "off" \/ (lock # "none" /\ Install!Active)
    PROVE  UpdateInv'
  BY DEF UpdateInv

\* The service stops or starts again.
LEMMA ServiceSteps ==
    ASSUME Install!InstallAssumption, InstallInv, UpdatesInv,
           \/ Install!StartService \/ Install!StopService \/ Install!AgentCrashes
           \/ Install!PowerLoss \/ Install!DisableService
           \/ \E p \in {"update", "manual"} : Install!Restart(p)
    PROVE  LockInv' /\ UpdateInv'
<1>1. InstallTypes /\ LockInv /\ UpdateInv
  BY DEF InstallInv, UpdatesInv
<1>2. CASE Install!StartService
  <2>1. /\ Install!CutOff({}) /\ ~Install!Active /\ UNCHANGED <<request, lock>>
    BY <1>2 DEF Install!StartService
  <2>2. installer'["update"] = installer["update"]
    BY <1>1, <2>1, CutFacts
  <2>3. installer["update"].at = "off"
    BY <1>1, <2>1 DEF UpdateInv
  <2> QED BY <1>1, <2>1, <2>2, <2>3 DEF LockInv, UpdateInv
<1>3. CASE ~Install!StartService
  <2>1. PICK ps \in SUBSET {"update", "manual"} : "update" \in ps /\ Install!CutOff(ps)
    BY <1>3 DEF Install!StopService, Install!AgentCrashes, Install!PowerLoss,
                Install!DisableService, Install!Restart, Install!Installers
  <2>2. installer'["update"].at = "off"
    BY <1>1, <2>1, CutFacts
  <2>3. \/ UNCHANGED <<request, lock>>
        \/ Install!AgentEnds({"ok", "lost"}) \/ Install!AgentEnds({"lost"})
    BY <1>3 DEF Install!StopService, Install!AgentCrashes, Install!PowerLoss,
                Install!DisableService, Install!Restart
  <2>4. CASE UNCHANGED <<request, lock>>
    BY <1>1, <2>2, <2>4 DEF LockInv, UpdateInv
  <2>5. CASE Install!AgentEnds({"ok", "lost"}) \/ Install!AgentEnds({"lost"})
    <3>1. PICK a \in {"ok", "lost"} :
              request' = [r \in Requests |-> IF r = lock THEN a ELSE request[r]]
      BY <2>5 DEF Install!AgentEnds
    <3>2. lock' = "none"
      BY <2>5 DEF Install!AgentEnds
    <3> QED BY <1>1, <2>2, <3>1, <3>2, LockReleased DEF UpdateInv
  <2> QED BY <2>3, <2>4, <2>5
<1> QED BY <1>2, <1>3

\* The agent and its installer.
LEMMA UpdateSteps ==
    ASSUME Install!InstallAssumption, InstallInv, UpdatesInv,
           \/ Install!Cleanup \/ (\E r \in Requests : Install!AskUpdate(r))
           \/ Install!Downloaded \/ Install!DownloadFails \/ Install!InstallerExits
    PROVE  LockInv' /\ UpdateInv'
<1>1. InstallTypes /\ LockInv /\ UpdateInv
  BY DEF InstallInv, UpdatesInv
<1>2. CASE Install!Cleanup
  <2>1. UNCHANGED <<request, lock, installer>>
    BY <1>2 DEF Install!Cleanup
  <2>2. Install!Active'
    <3>1. service.at = "cleanup" /\ service \in [at : {"off", "cleanup", "run", "failed"},
                    slot : Install!SlotSet \cup {"none"}, next : 1 .. Len(Slots)]
      BY <1>1, <1>2 DEF Install!Cleanup, InstallTypes
    <3>2. \/ service' = [service EXCEPT !.at = "run"]
          \/ service' = [service EXCEPT !.next = service.next + 1]
      BY <1>2 DEF Install!Cleanup
    <3>3. service'.at \in {"cleanup", "run"}
      BY <3>1, <3>2
    <3> QED BY <3>3 DEF Install!Active
  <2> QED BY <1>1, <2>1, <2>2 DEF LockInv, UpdateInv
<1>3. ASSUME NEW r \in Requests, Install!AskUpdate(r) PROVE LockInv' /\ UpdateInv'
  <2>1. LockInv' /\ (lock # "none" => lock' # "none")
    BY <1>1, <1>3, LockTaken
  <2>2. UNCHANGED <<service, installer>>
    BY <1>3 DEF Install!AskUpdate
  <2> QED BY <1>1, <2>1, <2>2 DEF UpdateInv, Install!Active
<1>4. CASE Install!Downloaded
  <2>1. UNCHANGED <<request, lock, service>> /\ lock # "none" /\ Install!Active
    BY <1>4 DEF Install!Downloaded, Install!Active
  <2> QED BY <1>1, <2>1 DEF LockInv, UpdateInv, Install!Active
<1>5. CASE Install!DownloadFails \/ Install!InstallerExits
  <2>1. PICK a \in {"ok", "error"} : Install!Answer(a)
    BY <1>5 DEF Install!DownloadFails, Install!InstallerExits
  <2>2. /\ request' = [request EXCEPT ![lock] = a] /\ lock' = "none"
        /\ installer' = [installer EXCEPT !["update"] = [at |-> "off", slot |-> "none"]]
    BY <2>1 DEF Install!Answer, Install!NoInstaller
  <2>3. installer'["update"].at = "off"
    <3>1. "update" \in DOMAIN installer
      BY <1>1 DEF InstallTypes
    <3>2. installer'["update"] = [at |-> "off", slot |-> "none"]
      BY <2>2, <3>1
    <3> QED BY <3>2
  <2> QED BY <1>1, <2>2, <2>3, LockReleased DEF UpdateInv
<1> QED BY <1>2, <1>3, <1>4, <1>5

\* An installer's own steps: what is off stays so.
LEMMA InstallerSteps ==
    ASSUME Install!InstallAssumption, InstallInv, UpdatesInv, NEW p \in {"update", "manual"},
           \/ Install!PickSlot(p) \/ Install!CreateSlot(p) \/ Install!Copy(p)
           \/ Install!TruncateUnit(p) \/ Install!WriteUnit(p) \/ Install!DaemonReload(p)
           \/ Install!CheckActive(p) \/ Install!InstallerFails(p)
    PROVE  LockInv' /\ UpdateInv'
<1>1. InstallTypes /\ LockInv /\ UpdateInv
  BY DEF InstallInv, UpdatesInv
<1>2. installer[p].at # "off" /\ UNCHANGED <<request, lock, service>>
  BY DEF Install!PickSlot, Install!CreateSlot, Install!Copy, Install!TruncateUnit,
         Install!WriteUnit, Install!DaemonReload, Install!CheckActive, Install!InstallerFails,
         Install!Busy
<1>3. (\E v : installer' = [installer EXCEPT ![p] = v])
      \/ \E a : installer' = [installer EXCEPT ![p].at = a]
  BY DEF Install!PickSlot, Install!CreateSlot, Install!Copy, Install!TruncateUnit,
         Install!WriteUnit, Install!DaemonReload, Install!CheckActive, Install!InstallerFails,
         Install!Goto
<1>4. p # "update" => installer'["update"] = installer["update"]
  <2>1. DOMAIN installer = {"update", "manual"}
    BY <1>1 DEF InstallTypes
  <2> QED BY <1>3, <2>1
<1>5. installer'["update"].at # "off" => installer["update"].at # "off"
  BY <1>2, <1>4
<1> QED BY <1>1, <1>2, <1>5 DEF LockInv, UpdateInv, Install!Active

LEMMA HandSteps ==
    ASSUME Install!InstallAssumption, InstallInv, UpdatesInv,
           \/ Install!InstallByHand \/ Install!Uninstall \/ Install!RemoveBase
           \/ Install!RemoveUnit
    PROVE  LockInv' /\ UpdateInv'
<1>1. InstallTypes /\ LockInv /\ UpdateInv
  BY DEF InstallInv, UpdatesInv
<1>2. UNCHANGED <<request, lock, service>>
  BY DEF Install!InstallByHand, Install!Uninstall, Install!RemoveBase, Install!RemoveUnit
<1>3. UNCHANGED installer \/ \E v : installer' = [installer EXCEPT !["manual"] = v]
  BY DEF Install!InstallByHand, Install!Uninstall, Install!RemoveBase, Install!RemoveUnit,
         Install!Spawn
<1>4. installer'["update"] = installer["update"]
  <2>1. DOMAIN installer = {"update", "manual"}
    BY <1>1 DEF InstallTypes
  <2> QED BY <1>3, <2>1
<1> QED BY <1>1, <1>2, <1>4 DEF LockInv, UpdateInv, Install!Active

LEMMA CountSteps ==
    ASSUME Install!InstallAssumption, InstallCounts, [Install!Next]_(Install!vars)
    PROVE  InstallCounts'
<1>1. MaxManual \in Nat /\ MaxCrashes \in Nat
  BY DEF Install!InstallAssumption
<1>2. /\ manual' = manual \/ (manual < MaxManual /\ manual' = manual + 1)
      /\ agentCrashes' = agentCrashes
         \/ (agentCrashes < MaxCrashes /\ agentCrashes' = agentCrashes + 1)
  BY DEF Install!vars, Install!Next, Install!StartService, Install!StopService,
         Install!AgentCrashes, Install!PowerLoss, Install!Cleanup, Install!AskUpdate,
         Install!Downloaded, Install!DownloadFails, Install!InstallerExits, Install!Answer,
         Install!InstallByHand, Install!Step, Install!InstallerFails, Install!Uninstall,
         Install!RemoveBase, Install!DisableService, Install!RemoveUnit, Install!PickSlot,
         Install!CreateSlot, Install!Copy, Install!TruncateUnit, Install!WriteUnit,
         Install!DaemonReload, Install!CheckActive, Install!Restart
<1> QED BY <1>1, <1>2 DEF InstallCounts

LEMMA UpdatesStep ==
    ASSUME Install!InstallAssumption, InstallInv, UpdatesInv, [Install!Next]_(Install!vars)
    PROVE  UpdatesInv'
<1>1. InstallCounts'
  BY CountSteps DEF UpdatesInv
<1>2. CASE UNCHANGED Install!vars
  BY <1>1, <1>2 DEF Install!vars, UpdatesInv, LockInv, UpdateInv, Install!Active
<1>3. CASE Install!Next
  <2>1. LockInv' /\ UpdateInv'
    BY <1>3, ServiceSteps, UpdateSteps, InstallerSteps, HandSteps
    DEF Install!Next, Install!Step, Install!Installers
  <2> QED BY <1>1, <2>1 DEF UpdatesInv
<1> QED BY <1>2, <1>3

LEMMA UpdatesStart ==
    ASSUME Install!InstallAssumption, Install!Init
    PROVE  UpdatesInv
<1>1. /\ installer["update"].at = "off" /\ request = [r \in Requests |-> "none"]
      /\ lock = "none" /\ manual = 0 /\ agentCrashes = 0
  BY DEF Install!Init, Install!Installers, Install!NoInstaller
<1>2. "none" \notin Requests /\ MaxManual \in Nat /\ MaxCrashes \in Nat
  BY DEF Install!InstallAssumption
<1>3. LockInv
  BY <1>1, <1>2 DEF LockInv
<1> QED BY <1>1, <1>2, <1>3 DEF UpdatesInv, UpdateInv, InstallCounts

LEMMA InstallTypesOK ==
    ASSUME InstallInv, UpdatesInv
    PROVE  Install!TypeOK
<1>1. InstallTypes /\ LockInv /\ UpdateInv /\ InstallCounts
  BY DEF InstallInv, UpdatesInv
<1>2. \A p \in {"update", "manual"} : installer[p].at \in Install!Busy \cup {"off", "done", "failed"}
  <2>1. PICK B : B = Install!Busy \cup {"off", "done", "failed"}
    OBVIOUS
  <2>2. PICK T : T = Install!SlotSet \cup {"none"}
    OBVIOUS
  <2>3. installer \in [{"update", "manual"} -> [at : B, slot : T]]
    BY <1>1, <2>1, <2>2 DEF InstallTypes
  <2> QED BY <2>1, <2>3
<1> QED BY <1>1, <1>2 DEF Install!TypeOK, InstallTypes, LockInv, UpdateInv, InstallCounts,
                          Install!Installers

\* No two clocks are too far apart.
ClocksInv ==
    /\ clock \in [Pki!Machines -> 0 .. MaxTime]
    /\ \A m, n \in Pki!Machines : clock[m] <= clock[n] + MaxSkew

LEMMA ClockSteps ==
    ASSUME ClocksInv, [Pki!Next]_(Pki!vars)
    PROVE  ClocksInv'
<1>1. MaxTime \in Nat /\ MaxSkew \in Nat
  BY CertificatesAssumption DEF Pki!ClocksBounded
<1>2. ASSUME NEW m \in Pki!Machines, Pki!Tick(m) PROVE ClocksInv'
  <2>1. /\ clock[m] < MaxTime /\ \A n \in Pki!Machines : clock[m] < clock[n] + MaxSkew
        /\ clock' = [clock EXCEPT ![m] = clock[m] + 1]
    BY <1>2 DEF Pki!Tick
  <2>2. clock'[m] = clock[m] + 1 /\ \A n \in Pki!Machines : n # m => clock'[n] = clock[n]
    BY <2>1 DEF ClocksInv
  <2>3. \A n \in Pki!Machines : clock[n] \in Nat
    BY <1>1 DEF ClocksInv
  <2>4. clock' \in [Pki!Machines -> 0 .. MaxTime]
    BY <1>1, <2>1 DEF ClocksInv
  <2>5. ASSUME NEW k \in Pki!Machines, NEW n \in Pki!Machines
        PROVE  clock'[k] <= clock'[n] + MaxSkew
    <3>1. clock[k] <= clock[n] + MaxSkew
      BY DEF ClocksInv
    <3> QED BY <1>1, <2>1, <2>2, <2>3, <3>1
  <2> QED BY <2>4, <2>5 DEF ClocksInv
<1>3. (\E m \in Pki!Machines : Pki!Tick(m)) \/ UNCHANGED clock
  BY DEF Pki!Next, Pki!vars, Pki!StartCertificate, Pki!FinishCertificate, Pki!Login, Pki!Package,
         Pki!Upload, Pki!Follow, Pki!Restart
<1>4. CASE UNCHANGED clock
  BY <1>4 DEF ClocksInv
<1> QED BY <1>2, <1>3, <1>4

LEMMA ClocksStart == Pki!Init => ClocksInv
<1> SUFFICES ASSUME Pki!Init PROVE ClocksInv
  OBVIOUS
<1>1. MaxTime \in Nat /\ MaxSkew \in Nat /\ MaxSkew <= MaxTime
  BY CertificatesAssumption DEF Pki!ClocksBounded
<1>2. clock \in [Pki!Machines -> 0 .. MaxSkew]
  BY DEF Pki!Init
<1>3. \A m \in Pki!Machines : clock[m] \in 0 .. MaxTime
  BY <1>1, <1>2
<1>4. ASSUME NEW m \in Pki!Machines, NEW n \in Pki!Machines PROVE clock[m] <= clock[n] + MaxSkew
  <2>1. clock[m] \in 0 .. MaxSkew /\ clock[n] \in 0 .. MaxSkew
    BY <1>2
  <2> QED BY <1>1, <2>1
<1> QED BY <1>2, <1>3, <1>4 DEF ClocksInv

\* What FinishCertificate parses, and the two certificates a server starts with.
LEMMA AllParse ==
    ASSUME CertInv, NEW c \in sessions \cup Pki!Certificates(blocks)
    PROVE  Pki!FromDer(c)
<1>1. c \in sessions \/ c = rootCert \/ \E i \in 1 .. Len(blocks) : c = blocks[i].cert
  BY DEF Pki!Certificates
<1>2. CASE c = rootCert
  <2>1. PICK d \in Nat : d = ValidityDuration["Root"]
    BY DurationFacts
  <2> QED BY <1>2, <2>1 DEF CertInv, CertTypes, Pki!Cert, Pki!FromDer
<1>3. ASSUME c \in Certs, Made(c), c.spki # "root" PROVE Pki!FromDer(c)
  <2>1. /\ c.before \in Nat /\ c.issuer = "root" /\ c.after = c.before + ValidityDuration[c.type]
        /\ c.type \in {"Agent", "UserSession"}
    BY <1>3 DEF Certs, Made
  <2>2. PICK d \in Nat : d = ValidityDuration[c.type]
    BY <2>1, DurationFacts
  <2>3. c.after - c.before = ValidityDuration[c.type]
    BY <2>1, <2>2
  <2> QED BY <1>3, <2>1, <2>3 DEF Pki!FromDer
<1>4. CASE c \in sessions
  BY <1>3, <1>4 DEF CertInv, CertTypes, SessionsInv, KeysInv
<1>5. ASSUME NEW i \in 1 .. Len(blocks), c = blocks[i].cert PROVE Pki!FromDer(c)
  <2>1. CASE i = 1
    <3>1. PICK d \in Nat : d = ValidityDuration["Server"]
      BY DurationFacts
    <3> QED BY <1>5, <2>1, <3>1 DEF CertInv, BlocksInv, Pki!Cert, Pki!FromDer
  <2>2. CASE i # 1
    <3>1. i \in 2 .. Len(blocks)
      BY <2>2
    <3>2. Made(c) /\ c.spki # "root"
      BY <1>5, <3>1 DEF CertInv, BlocksInv, KeysInv
    <3>3. c \in Certs
      BY <1>5, RootFacts
    <3> QED BY <1>3, <3>2, <3>3
  <2> QED BY <2>1, <2>2
<1> QED BY <1>1, <1>2, <1>4, <1>5

LEMMA OneForAKey ==
    ASSUME CertInv, NEW c \in sessions \cup Pki!Certificates(blocks),
           NEW d \in sessions \cup Pki!Certificates(blocks), c.spki = d.spki
    PROVE  c = d
<1>1. \A x \in sessions \cup Pki!Certificates(blocks) :
          x \in sessions \/ x = rootCert \/ \E i \in 1 .. Len(blocks) : x = blocks[i].cert
  BY DEF Pki!Certificates
<1>2. rootCert.spki = "root"
  BY RootFacts
<1> QED BY <1>1, <1>2 DEF CertInv, KeysInv

LEMMA CertificateTypesOK ==
    ASSUME CertInv, ClocksInv
    PROVE  Pki!TypeOK
<1>1. \A c, d \in sessions \cup Pki!Certificates(blocks) : c.spki = d.spki => c = d
  BY OneForAKey
<1>2. \A c \in sessions \cup Pki!Certificates(blocks) : Pki!FromDer(c)
  BY AllParse
<1>3. ASSUME NEW n \in Nodes PROVE seen[n] \in 0 .. Len(blocks) /\ following[n] \in BOOLEAN
  <2>1. /\ seen[n] \in Nat /\ seen[n] <= Len(blocks) /\ following[n] \in BOOLEAN
    BY DEF CertInv, CertTypes
  <2>2. PICK length \in Nat : length = Len(blocks)
    BY RootFacts
  <2> QED BY <2>1, <2>2
<1>4. ASSUME NEW n \in Nodes PROVE work[n].state \in {"none", "making", "made", "packaged"}
  BY WorkTypes
<1>5. outcome \in [Nodes -> {"none", "ok", "parse", "package", "refused", "behind"}]
  BY DEF CertInv, CertTypes
<1> QED BY <1>1, <1>2, <1>3, <1>4, <1>5 DEF Pki!TypeOK, ClocksInv

\* The bounds of the counters.
GroupCounts ==
    /\ running \in BOOLEAN /\ clean \in BOOLEAN
    /\ operations \in 0 .. MaxOperations /\ faults \in 0 .. MaxFaults

TriedInv == \A m \in Members : tried[m] <= Len(owed[m])

\* A ratchet never passes the number of operations, because no message was sent at a
\* later turn than the operation it was sent by.
InTurn(message) == message.type = "GroupMessage" => message.gen <= message.content

MessagesInTurn ==
    \A m \in Members : /\ \A message \in Items(outbox[m]) \cup Items(owed[m]) : InTurn(message)
                       /\ \A a \in Items(handling[m]) : InTurn(a.message)

TurnsInv ==
    /\ \A m \in Members, g \in Groups, x \in Members : gen[m][g][x] <= operations
    /\ MessagesInTurn

LEMMA CountsStep ==
    ASSUME GroupCounts, [Next]_vars
    PROVE  GroupCounts'
<1>1. MaxOperations \in Nat /\ MaxFaults \in Nat
  BY GroupsAssumption
<1>2. /\ operations' = operations \/ (operations < MaxOperations /\ operations' = operations + 1)
      /\ faults' = faults \/ (faults < MaxFaults /\ faults' = faults + 1)
  BY DEF vars, Next, EnsureGroupCreates, EnsureGroupFound, SendReport, RestartServer,
         CreateMetaGroup, AddMember, SendMetaInfo, HandleNewGroup, HandleGroupMessage,
         HandleAddToGroup, Store, HandleWelcome, HandleCommit, HandleContent, Reconnect,
         CreateGroupIfMissing, CreateGroup, CreateMessage, Handle, Receive, Acknowledge, Fail,
         Fault, Count, serverVars
<1>3. running' \in BOOLEAN /\ clean' \in BOOLEAN
  BY Zenon DEF GroupCounts, vars, Next, EnsureGroupCreates, EnsureGroupFound, SendReport,
         RestartServer, CreateMetaGroup, AddMember, SendMetaInfo, HandleNewGroup,
         HandleGroupMessage, HandleAddToGroup, Store, HandleWelcome, HandleCommit, HandleContent,
         Reconnect, CreateGroupIfMissing, CreateMessage, Handle, Receive, Refused, serverVars
<1> QED BY <1>1, <1>2, <1>3 DEF GroupCounts

LEMMA RemoveLength ==
    ASSUME NEW S, NEW s \in Seq(S), NEW k \in 1 .. Len(s)
    PROVE  Len(RemoveAt(s, k)) = Len(s) - 1
<1>1. Len(s) \in Nat /\ k \in Nat /\ 1 <= k /\ k <= Len(s)
  OBVIOUS
<1>2. PICK a, b : a = SubSeq(s, 1, k - 1) /\ b = SubSeq(s, k + 1, Len(s))
  OBVIOUS
<1>3. a \in Seq(S) /\ Len(a) = k - 1
  <2>1. k - 1 \in Nat /\ k - 1 <= Len(s) /\ 1 <= (k - 1) + 1 /\ (k - 1) + 1 - 1 = k - 1
    BY <1>1
  <2> QED BY <1>1, <1>2, <2>1, PartFacts
<1>4. b \in Seq(S) /\ Len(b) = Len(s) - k
  <2>1. k + 1 \in Nat /\ 1 <= k + 1 /\ k + 1 <= Len(s) + 1 /\ Len(s) + 1 - (k + 1) = Len(s) - k
    BY <1>1
  <2> QED BY <1>1, <1>2, <2>1, PartFacts
<1>5. PICK t : t = a \o b
  OBVIOUS
<1>6. t = RemoveAt(s, k)
  BY <1>2, <1>5 DEF RemoveAt
<1>7. Len(t) = Len(a) + Len(b)
  BY <1>3, <1>4, <1>5, ConcatFacts
<1>8. Len(t) = Len(s) - 1
  BY <1>1, <1>3, <1>4, <1>7
<1> QED BY <1>6, <1>8

\* What Acknowledge leaves.
LEMMA AcknowledgeTries ==
    ASSUME GroupsInv, TriedInv, NEW m \in Members, Receive(m), Acknowledge(m)
    PROVE  /\ TriedInv'
           /\ \A x \in Members : Items(owed'[x]) \subseteq Items(owed[x])
<1>1. /\ owed \in [Members -> Seq(Posts)] /\ tried \in [Members -> Nat]
      /\ \A x \in Members : owed[x] \in Seq(Posts) /\ Len(owed[x]) \in Nat
  BY DEF GroupsInv, GroupTypes
<1>2. tried[m] + 1 \in 1 .. Len(owed[m]) /\ tried[m] < Len(owed[m])
  BY NextIsOwed DEF Receive
<1>3. CASE owed' = [owed EXCEPT ![m] = RemoveAt(@, tried[m] + 1)] /\ UNCHANGED tried
  <2>1. PICK t : t = RemoveAt(owed[m], tried[m] + 1)
    OBVIOUS
  <2>2. Items(t) \subseteq Items(owed[m]) /\ Len(t) = Len(owed[m]) - 1
    BY <1>1, <1>2, <2>1, ItemsRemove, RemoveLength
  <2>3. owed'[m] = t /\ \A x \in Members : x # m => owed'[x] = owed[x]
    BY <1>1, <1>3, <2>1
  <2>4. ASSUME NEW x \in Members PROVE tried'[x] <= Len(owed'[x])
    <3>1. CASE x = m
      BY <1>1, <1>2, <1>3, <2>2, <2>3, <3>1
    <3>2. CASE x # m
      BY <1>3, <2>3, <3>2 DEF TriedInv
    <3> QED BY <3>1, <3>2
  <2> QED BY <2>2, <2>3, <2>4 DEF TriedInv
<1>4. CASE tried' = [tried EXCEPT ![m] = 0] /\ UNCHANGED owed
  <2>1. \A x \in Members : tried'[x] <= Len(owed'[x])
    BY <1>1, <1>4 DEF TriedInv
  <2> QED BY <1>4, <2>1 DEF TriedInv
<1> QED BY <1>3, <1>4 DEF Acknowledge

LEMMA TriedStep ==
    ASSUME GroupsInv, TriedInv, [Next]_vars
    PROVE  TriedInv'
<1>1. /\ owed \in [Members -> Seq(Posts)] /\ tried \in [Members -> Nat]
      /\ \A x \in Members : owed[x] \in Seq(Posts) /\ Len(owed[x]) \in Nat /\ tried[x] \in Nat
  BY DEF GroupsInv, GroupTypes
<1>2. CASE UNCHANGED <<owed, tried>>
  BY <1>2 DEF TriedInv
<1>3. ASSUME NEW m \in Members, Receive(m), Acknowledge(m) PROVE TriedInv'
  BY <1>3, AcknowledgeTries
<1>4. ASSUME NEW m \in Members, Receive(m), Fail(m) PROVE TriedInv'
  <2>1. tried' = [tried EXCEPT ![m] = tried[m] + 1] /\ UNCHANGED owed /\ tried[m] < Len(owed[m])
    BY <1>4 DEF Receive, Fail
  <2> QED BY <1>1, <2>1 DEF TriedInv
<1>5. ASSUME NEW m \in Members, Store(m) PROVE TriedInv'
  <2>1. PICK e : e = Head(handling[m])
    OBVIOUS
  <2>2. /\ UNCHANGED tried
        /\ owed' = [x \in Members |-> IF x \in e.receivers
                                        THEN Append(owed[x], e.message) ELSE owed[x]]
    BY <1>5, <2>1 DEF Store
  <2>3. e.message \in Posts
    <3>1. handling[m] \in Seq(Answers) /\ handling[m] # << >>
      BY <1>5 DEF GroupsInv, GroupTypes, Store
    <3>2. e \in Answers
      BY <2>1, <3>1, ItemsTail
    <3> QED BY <3>2 DEF Answers
  <2>4. ASSUME NEW x \in Members PROVE tried'[x] <= Len(owed'[x])
    <3>1. Len(Append(owed[x], e.message)) = Len(owed[x]) + 1
      BY <1>1, <2>3, ItemsAppend
    <3>2. owed'[x] = Append(owed[x], e.message) \/ owed'[x] = owed[x]
      BY <2>2
    <3>3. PICK n \in Nat, k \in Nat : n = Len(owed[x]) /\ k = tried[x]
      BY <1>1
    <3>4. k <= n
      BY <3>3 DEF TriedInv
    <3>5. Len(owed'[x]) = n + 1 \/ Len(owed'[x]) = n
      BY <3>1, <3>2, <3>3
    <3>6. k <= Len(owed'[x])
      BY <3>4, <3>5
    <3> QED BY <2>2, <3>3, <3>6
  <2> QED BY <2>4 DEF TriedInv
<1>6. CASE RestartServer \/ \E m \in Members : Reconnect(m)
  <2>1. UNCHANGED owed /\ \A x \in Members : tried'[x] = 0 \/ tried'[x] = tried[x]
    BY <1>1, <1>6 DEF RestartServer, Reconnect
  <2> QED BY <1>1, <2>1 DEF TriedInv
<1>7. \/ UNCHANGED <<owed, tried>>
      \/ RestartServer
      \/ \E m \in Members : \/ Receive(m) /\ (Acknowledge(m) \/ Fail(m))
                            \/ Store(m) \/ Reconnect(m)
  BY DEF vars, Next, EnsureGroupCreates, EnsureGroupFound, SendReport,
         CreateMetaGroup, AddMember, SendMetaInfo, HandleNewGroup, HandleGroupMessage,
         HandleAddToGroup, HandleWelcome, HandleCommit, HandleContent,
         CreateGroupIfMissing, CreateMessage, Handle, serverVars
<1> QED BY <1>2, <1>3, <1>4, <1>5, <1>6, <1>7

\* A member sends a message.
LEMMA SentInTurn ==
    ASSUME GroupsInv, MessagesInTurn, NEW m \in Members, NEW w, InTurn(w), Send(m, w),
           UNCHANGED <<owed, handling>>
    PROVE  MessagesInTurn'
<1>1. PICK S : S = Posts \cup {w}
  OBVIOUS
<1>2. outbox \in [Members -> Seq(Posts)]
  BY DEF GroupsInv, GroupTypes
<1>3. outbox[m] \in Seq(S) /\ w \in S
  <2>1. PICK s \in Seq(Posts) : s = outbox[m]
    BY <1>2
  <2>2. Len(s) \in Nat /\ s \in [1 .. Len(s) -> S]
    BY <1>1, <2>1
  <2>3. s \in Seq(S)
    BY <2>2, SeqOfFunction
  <2> QED BY <1>1, <2>1, <2>3
<1>4. outbox'[m] = Append(outbox[m], w) /\ \A k \in Members : k # m => outbox'[k] = outbox[k]
  BY <1>2 DEF Send
<1>5. Items(outbox'[m]) = Items(outbox[m]) \cup {w}
  BY <1>3, <1>4, ItemsAppend
<1> QED BY <1>4, <1>5 DEF MessagesInTurn, InTurn

\* The server passes on what it was sent, or a welcome.
LEMMA RespondInTurn ==
    ASSUME GroupsInv', NEW m \in Members, NEW q, Respond(m, q),
           handling \in [Members -> Seq(Answers)],
           \A i \in DOMAIN q : \E r, w : q[i] = To(r, w) /\ InTurn(w)
    PROVE  /\ \A a \in Items(handling'[m]) : InTurn(a.message)
           /\ \A k \in Members : k # m => handling'[k] = handling[k]
<1>1. PICK s : s = [i \in DOMAIN q |-> [q[i] EXCEPT !.receivers = @ \ {m}]]
  OBVIOUS
<1>2. handling'[m] = s /\ \A k \in Members : k # m => handling'[k] = handling[k]
  BY <1>1 DEF Respond
<1>3. s \in Seq(Answers)
  BY <1>2 DEF GroupsInv, GroupTypes
<1>4. DOMAIN s = 1 .. Len(s) /\ DOMAIN s = DOMAIN q
  BY <1>1, <1>3
<1>5. ASSUME NEW i \in 1 .. Len(s) PROVE InTurn(s[i].message)
  <2>1. PICK r, w : q[i] = To(r, w) /\ InTurn(w)
    BY <1>4
  <2>2. s[i] = [q[i] EXCEPT !.receivers = @ \ {m}]
    BY <1>1, <1>4
  <2>3. s[i].message = w
    BY <2>1, <2>2 DEF To
  <2> QED BY <2>1, <2>3
<1> QED BY <1>2, <1>5 DEF Items

LEMMA HandledInTurn ==
    ASSUME GroupsInv, GroupsInv', MessagesInTurn, NEW m \in Members,
           HandleNewGroup(m) \/ HandleGroupMessage(m) \/ HandleAddToGroup(m)
    PROVE  MessagesInTurn'
<1>1. PICK w : w = Head(outbox[m])
  OBVIOUS
<1>2. Handle(m) /\ Taken(m, w)
  BY <1>1, HandleTakes DEF HandleNewGroup, HandleGroupMessage, HandleAddToGroup
<1>3. InTurn(w) /\ InTurn(Welcome(w))
  BY <1>2 DEF Taken, MessagesInTurn, InTurn, Welcome
<1>4. handling \in [Members -> Seq(Answers)]
  BY DEF GroupsInv, GroupTypes
<1>5. \/ UNCHANGED handling
      \/ \E r : Respond(m, <<To(r, w)>>)
      \/ \E r : Respond(m, <<To(r, Welcome(w))>>)
      \/ Respond(m, << >>)
      \/ \E r, x : Respond(m, <<To(r, w), To(x, Welcome(w))>>)
  BY <1>1 DEF HandleNewGroup, HandleGroupMessage, HandleAddToGroup, Refused
<1>6. /\ \A a \in Items(handling'[m]) : InTurn(a.message)
      /\ \A k \in Members : k # m => handling'[k] = handling[k]
  <2>1. CASE UNCHANGED handling
    BY <2>1 DEF MessagesInTurn
  <2>2. ASSUME NEW r, Respond(m, <<To(r, w)>>) \/ Respond(m, <<To(r, Welcome(w))>>)
        PROVE  /\ \A a \in Items(handling'[m]) : InTurn(a.message)
               /\ \A k \in Members : k # m => handling'[k] = handling[k]
    <3>1. PICK v \in {w, Welcome(w)} : Respond(m, <<To(r, v)>>)
      BY <2>2
    <3>2. PICK q : q = <<To(r, v)>>
      OBVIOUS
    <3>3. InTurn(v) /\ \A i \in DOMAIN q : q[i] = To(r, v)
      BY <1>3, <3>1, <3>2
    <3> QED BY <1>4, <3>1, <3>2, <3>3, RespondInTurn
  <2>3. CASE Respond(m, << >>)
    <3>1. PICK q : q = << >>
      OBVIOUS
    <3>2. \A i \in DOMAIN q : FALSE
      BY <3>1
    <3> QED BY <1>4, <2>3, <3>1, <3>2, RespondInTurn
  <2>4. ASSUME NEW r, NEW x, Respond(m, <<To(r, w), To(x, Welcome(w))>>)
        PROVE  /\ \A a \in Items(handling'[m]) : InTurn(a.message)
               /\ \A k \in Members : k # m => handling'[k] = handling[k]
    <3>1. PICK q : q = <<To(r, w), To(x, Welcome(w))>>
      OBVIOUS
    <3>2. \A i \in DOMAIN q : q[i] = To(r, w) \/ q[i] = To(x, Welcome(w))
      BY <3>1
    <3>3. \A i \in DOMAIN q : \E y, v : q[i] = To(y, v) /\ InTurn(v)
      BY <1>3, <3>2, Zenon
    <3> QED BY <1>4, <2>4, <3>1, <3>3, RespondInTurn
  <2> QED BY <1>5, <2>1, <2>2, <2>3, <2>4
<1>7. UNCHANGED owed /\ Items(outbox'[m]) \subseteq Items(outbox[m])
      /\ \A k \in Members : k # m => outbox'[k] = outbox[k]
  BY <1>2 DEF Handle, Taken
<1> QED BY <1>6, <1>7 DEF MessagesInTurn

LEMMA StoredInTurn ==
    ASSUME GroupsInv, MessagesInTurn, NEW m \in Members, Store(m)
    PROVE  MessagesInTurn'
<1>1. PICK s, e, t : s = handling[m] /\ e = Head(s) /\ t = Tail(s)
  OBVIOUS
<1>2. /\ s # << >> /\ handling' = [handling EXCEPT ![m] = t] /\ UNCHANGED outbox
      /\ owed' = [x \in Members |-> IF x \in e.receivers THEN Append(owed[x], e.message) ELSE owed[x]]
  BY <1>1 DEF Store
<1>3. handling \in [Members -> Seq(Answers)] /\ owed \in [Members -> Seq(Posts)]
  BY DEF GroupsInv, GroupTypes
<1>4. e \in Answers /\ Items(s) = {e} \cup Items(t)
  BY <1>1, <1>2, <1>3, ItemsTail
<1>5. e.message \in Posts /\ InTurn(e.message)
  BY <1>1, <1>4 DEF Answers, MessagesInTurn
<1>6. handling'[m] = t /\ \A k \in Members : k # m => handling'[k] = handling[k]
  BY <1>2, <1>3
<1>7. \A x \in Members : Items(Append(owed[x], e.message)) = Items(owed[x]) \cup {e.message}
  BY <1>3, <1>5, ItemsAppend
<1>8. ASSUME NEW x \in Members, NEW message \in Items(owed'[x]) PROVE InTurn(message)
  <2>1. message \in Items(owed[x]) \/ message = e.message
    BY <1>2, <1>7, <1>8
  <2> QED BY <1>5, <2>1 DEF MessagesInTurn
<1>9. ASSUME NEW x \in Members, NEW a \in Items(handling'[x]) PROVE InTurn(a.message)
  <2>1. a \in Items(handling[x])
    BY <1>1, <1>4, <1>6, <1>9
  <2> QED BY <2>1 DEF MessagesInTurn
<1> QED BY <1>2, <1>8, <1>9 DEF MessagesInTurn, InTurn

\* Messages are only taken away.
LEMMA FewerInTurn ==
    ASSUME MessagesInTurn,
           \A x \in Members : /\ Items(outbox'[x]) \subseteq Items(outbox[x])
                              /\ Items(owed'[x]) \subseteq Items(owed[x])
                              /\ Items(handling'[x]) \subseteq Items(handling[x])
    PROVE  MessagesInTurn'
  BY DEF MessagesInTurn, InTurn

\* A ratchet moves.
LEMMA RatchetMoves ==
    ASSUME GroupsInv, NEW m \in Members, NEW g \in Groups, NEW s \in Members, NEW n,
           gen' = [gen EXCEPT ![m][g][s] = n], NEW k \in Members, NEW h \in Groups,
           NEW x \in Members
    PROVE  gen'[k][h][x] = gen[k][h][x] \/ gen'[k][h][x] = n
<1>1. PICK d : d = gen[m]
  OBVIOUS
<1>2. PICK f : f = d[g]
  OBVIOUS
<1>3. PICK f2 : f2 = [f EXCEPT ![s] = n]
  OBVIOUS
<1>4. PICK d2 : d2 = [d EXCEPT ![g] = f2]
  OBVIOUS
<1>5. gen' = [gen EXCEPT ![m] = d2]
  BY <1>1, <1>2, <1>3, <1>4
<1>6. /\ gen \in [Members -> [Groups -> [Members -> Nat]]] /\ d \in [Groups -> [Members -> Nat]]
      /\ f \in [Members -> Nat]
  BY <1>1, <1>2 DEF GroupsInv, GroupTypes
<1>7. CASE k = m /\ h = g
  <2>1. gen'[k] = d2 /\ d2[h] = f2
    BY <1>4, <1>5, <1>6, <1>7
  <2>2. f2[x] = f[x] \/ f2[x] = n
    BY <1>3, <1>6
  <2> QED BY <1>1, <1>2, <1>7, <2>1, <2>2
<1>8. CASE k = m /\ h # g
  BY <1>1, <1>4, <1>5, <1>6, <1>8
<1>9. CASE k # m
  BY <1>5, <1>6, <1>9
<1> QED BY <1>7, <1>8, <1>9

LEMMA RatchetsReset ==
    ASSUME GroupsInv, NEW m \in Members, NEW g \in Groups, NEW l, NewEpoch(m, g, l),
           NEW k \in Members, NEW h \in Groups, NEW x \in Members
    PROVE  gen'[k][h][x] = gen[k][h][x] \/ gen'[k][h][x] = 0
<1>1. PICK d : d = gen[m]
  OBVIOUS
<1>2. PICK d2 : d2 = [d EXCEPT ![g] = FreshGen]
  OBVIOUS
<1>3. gen' = [gen EXCEPT ![m] = d2]
  BY <1>1, <1>2 DEF NewEpoch
<1>4. gen \in [Members -> [Groups -> [Members -> Nat]]] /\ d \in [Groups -> [Members -> Nat]]
  BY <1>1 DEF GroupsInv, GroupTypes
<1>5. CASE k = m /\ h = g
  <2>1. gen'[k] = d2 /\ d2[h] = FreshGen
    BY <1>2, <1>3, <1>4, <1>5
  <2> QED BY <2>1 DEF FreshGen
<1>6. CASE k = m /\ h # g
  BY <1>1, <1>2, <1>3, <1>4, <1>6
<1>7. CASE k # m
  BY <1>3, <1>4, <1>7
<1> QED BY <1>5, <1>6, <1>7

LEMMA CreationTurns ==
    ASSUME GroupsInv, TurnsInv, NEW m \in Members, NEW g \in Groups,
           CreateGroupIfMissing(m, g) \/ \E x \in Members : AddMember(m, g, x)
    PROVE  TurnsInv'
<1>1. /\ operations' = operations + 1 /\ (\E l : NewEpoch(m, g, l)) /\ UNCHANGED <<owed, handling>>
      /\ \E type \in {"NewDeviceGroup", "AddToGroup"} :
            \E l : Send(m, MessageToServer(type, g, m, l))
  BY DEF CreateGroupIfMissing, CreateGroup, AddMember, Count, serverVars
<1>2. PICK type \in {"NewDeviceGroup", "AddToGroup"} :
          \E l : Send(m, MessageToServer(type, g, m, l))
  BY <1>1
<1>3. PICK l : Send(m, MessageToServer(type, g, m, l))
  BY <1>2
<1>4. InTurn(MessageToServer(type, g, m, l))
  BY <1>2 DEF InTurn, MessageToServer
<1>5. MessagesInTurn'
  BY <1>1, <1>3, <1>4, SentInTurn DEF TurnsInv
<1>6. ASSUME NEW k \in Members, NEW h \in Groups, NEW x \in Members
      PROVE  gen'[k][h][x] <= operations'
  <2>1. gen[k][h][x] <= operations /\ operations \in Nat /\ gen[k][h][x] \in Nat
    BY DEF TurnsInv, GroupsInv, GroupTypes
  <2>2. gen'[k][h][x] = gen[k][h][x] \/ gen'[k][h][x] = 0
    BY <1>1, RatchetsReset
  <2> QED BY <1>1, <2>1, <2>2
<1> QED BY <1>5, <1>6 DEF TurnsInv

LEMMA MessageTurns ==
    ASSUME GroupsInv, TurnsInv, NEW m \in Members, NEW g \in Groups, CreateMessage(m, g)
    PROVE  TurnsInv'
<1>1. PICK n : n = gen[m][g][m]
  OBVIOUS
<1>2. PICK w : w = [type |-> "GroupMessage", group |-> g, by |-> m, log |-> group[m][g],
                    gen |-> n, content |-> operations]
  OBVIOUS
<1>3. /\ operations' = operations + 1 /\ Send(m, w) /\ gen' = [gen EXCEPT ![m][g][m] = n + 1]
      /\ UNCHANGED <<owed, handling>>
  BY <1>1, <1>2 DEF CreateMessage, Count, serverVars
<1>4. n <= operations /\ operations \in Nat /\ n \in Nat
  BY <1>1 DEF TurnsInv, GroupsInv, GroupTypes
<1>5. InTurn(w)
  BY <1>2, <1>4 DEF InTurn
<1>6. MessagesInTurn'
  BY <1>3, <1>5, SentInTurn DEF TurnsInv
<1>7. ASSUME NEW k \in Members, NEW h \in Groups, NEW x \in Members
      PROVE  gen'[k][h][x] <= operations'
  <2>1. gen[k][h][x] <= operations /\ gen[k][h][x] \in Nat
    BY DEF TurnsInv, GroupsInv, GroupTypes
  <2>2. gen'[k][h][x] = gen[k][h][x] \/ gen'[k][h][x] = n + 1
    BY <1>3, RatchetMoves
  <2> QED BY <1>3, <1>4, <2>1, <2>2
<1> QED BY <1>6, <1>7 DEF TurnsInv

LEMMA ReceiveTurns ==
    ASSUME GroupsInv, TriedInv, TurnsInv, NEW m \in Members,
           HandleWelcome(m) \/ HandleCommit(m) \/ HandleContent(m)
    PROVE  TurnsInv'
<1>1. PICK v : v = NextOwed(m)
  OBVIOUS
<1>2. Receive(m)
  BY DEF HandleWelcome, HandleCommit, HandleContent
<1>3. v \in Posts /\ v \in Underway(m)
  BY <1>1, <1>2, NextIsOwed
<1>4. UNCHANGED <<operations, outbox, handling>>
  BY <1>2 DEF Receive
<1>5. Acknowledge(m) \/ Fail(m)
  BY DEF HandleWelcome, HandleCommit, HandleContent
<1>6. \A x \in Members : Items(owed'[x]) \subseteq Items(owed[x])
  <2>1. CASE Acknowledge(m)
    BY <1>2, <2>1, AcknowledgeTries
  <2>2. CASE Fail(m)
    BY <2>2 DEF Fail
  <2> QED BY <1>5, <2>1, <2>2
<1>7. MessagesInTurn'
  BY <1>4, <1>6, FewerInTurn DEF TurnsInv
<1>8. operations \in Nat
      /\ \A k \in Members, h \in Groups, x \in Members :
            gen[k][h][x] <= operations /\ gen[k][h][x] \in Nat
  BY DEF TurnsInv, GroupsInv, GroupTypes
<1>9. ASSUME NEW k \in Members, NEW h \in Groups, NEW x \in Members
      PROVE  gen'[k][h][x] <= operations'
  <2>1. CASE UNCHANGED gen
    BY <1>4, <1>8, <2>1
  <2>2. CASE \E g \in Groups : \E l : NewEpoch(m, g, l)
    <3>1. gen'[k][h][x] = gen[k][h][x] \/ gen'[k][h][x] = 0
      BY <2>2, RatchetsReset
    <3> QED BY <1>4, <1>8, <3>1
  <2>3. CASE v.type = "GroupMessage" /\ gen' = [gen EXCEPT ![m][v.group][v.by] = v.gen + 1]
    <3>1. v.group \in Groups /\ v.by \in Members /\ v.gen \in Nat /\ v.content \in Nat
      BY <1>3, <2>3, PostFacts
    <3>2. v.gen <= v.content
      <4>1. tried[m] + 1 \in 1 .. Len(owed[m]) /\ v = owed[m][tried[m] + 1]
        BY <1>1, <1>2, NextIsOwed DEF NextOwed
      <4>2. v \in Items(owed[m])
        BY <4>1 DEF Items
      <4> QED BY <2>3, <4>2 DEF TurnsInv, MessagesInTurn, InTurn
    <3>3. v.content < operations
      <4>1. v \in Flying
        BY <1>3, <2>3, FlyingAre
      <4> QED BY <4>1 DEF GroupsInv, SentInOrder
    <3>4. gen'[k][h][x] = gen[k][h][x] \/ gen'[k][h][x] = v.gen + 1
      BY <2>3, <3>1, RatchetMoves
    <3> QED BY <1>4, <1>8, <3>1, <3>2, <3>3, <3>4
  <2>4. \/ UNCHANGED gen
        \/ NewEpoch(m, v.group, v.log)
        \/ v.type = "GroupMessage" /\ gen' = [gen EXCEPT ![m][v.group][v.by] = v.gen + 1]
    BY <1>1 DEF HandleWelcome, HandleCommit, HandleContent, Fail
  <2>5. v.group \in Groups
    BY <1>3, PostFacts
  <2> QED BY <2>1, <2>2, <2>3, <2>4, <2>5
<1> QED BY <1>7, <1>9 DEF TurnsInv

LEMMA FaultTurns ==
    ASSUME GroupsInv, TurnsInv, RestartServer \/ \E m \in Members : Reconnect(m)
    PROVE  TurnsInv'
<1>1. UNCHANGED <<gen, operations, owed>>
  BY DEF RestartServer, Reconnect
<1>2. \A x \in Members : /\ outbox'[x] = outbox[x] \/ outbox'[x] = << >>
                         /\ handling'[x] = handling[x] \/ handling'[x] = << >>
  BY DEF RestartServer, Reconnect, GroupsInv, GroupTypes
<1>3. Items(<< >>) = {}
  BY DEF Items
<1>4. MessagesInTurn'
  BY <1>1, <1>2, <1>3, FewerInTurn DEF TurnsInv
<1> QED BY <1>1, <1>4 DEF TurnsInv

LEMMA TurnsStep ==
    ASSUME GroupsInv, GroupsInv', TriedInv, TurnsInv, [Next]_vars
    PROVE  TurnsInv'
<1>1. Device \in Members /\ MetaCreators \subseteq Members /\ Adders \subseteq Members
      /\ "DeviceGroup" \in Groups /\ "DeviceMetaGroup" \in Groups
  BY GroupsAssumption DEF Groups
<1>2. CASE EnsureGroupFound \/ UNCHANGED vars
  <2>1. UNCHANGED <<gen, operations, owed, outbox, handling>>
    BY <1>2 DEF EnsureGroupFound, vars, serverVars
  <2>2. MessagesInTurn'
    BY <2>1, FewerInTurn DEF TurnsInv
  <2> QED BY <2>1, <2>2 DEF TurnsInv
<1>3. CASE EnsureGroupCreates \/ \E m \in MetaCreators : CreateMetaGroup(m)
  BY <1>1, <1>3, CreationTurns DEF EnsureGroupCreates, CreateMetaGroup
<1>4. CASE \E m \in Adders, g \in Groups, x \in Members : AddMember(m, g, x)
  BY <1>1, <1>4, CreationTurns
<1>5. CASE SendReport \/ \E m \in Members : SendMetaInfo(m)
  BY <1>1, <1>5, MessageTurns DEF SendReport, SendMetaInfo
<1>6. CASE RestartServer \/ \E m \in Members : Reconnect(m)
  BY <1>6, FaultTurns
<1>7. ASSUME NEW m \in Members, HandleWelcome(m) \/ HandleCommit(m) \/ HandleContent(m)
      PROVE  TurnsInv'
  BY <1>7, ReceiveTurns
<1>8. ASSUME NEW m \in Members,
             HandleNewGroup(m) \/ HandleGroupMessage(m) \/ HandleAddToGroup(m) \/ Store(m)
      PROVE  TurnsInv'
  <2>1. UNCHANGED <<gen, operations>>
    BY <1>8 DEF HandleNewGroup, HandleGroupMessage, HandleAddToGroup, Store, Handle
  <2>2. MessagesInTurn'
    BY <1>8, HandledInTurn, StoredInTurn DEF TurnsInv
  <2> QED BY <2>1, <2>2 DEF TurnsInv
<1> QED BY <1>2, <1>3, <1>4, <1>5, <1>6, <1>7, <1>8, Zenon DEF Next

\* The inductive invariant of all five parts.
TypesInv ==
    /\ GroupsInv /\ GroupCounts /\ TriedInv /\ TurnsInv
    /\ StorageInv /\ KeptInv
    /\ InstallInv /\ UpdatesInv
    /\ CertInv /\ ClocksInv

LEMMA GroupTypesStart == Init => GroupCounts /\ TriedInv /\ TurnsInv
<1> SUFFICES ASSUME Init PROVE GroupCounts /\ TriedInv /\ TurnsInv
  OBVIOUS
<1>1. GroupCounts
  <2>1. running = FALSE /\ clean = TRUE /\ operations = 0 /\ faults = 0
    BY DEF Init
  <2>2. MaxOperations \in Nat /\ MaxFaults \in Nat
    BY GroupsAssumption
  <2>3. running \in BOOLEAN /\ clean \in BOOLEAN
    BY <2>1
  <2>4. operations \in 0 .. MaxOperations /\ faults \in 0 .. MaxFaults
    BY <2>1, <2>2
  <2> QED BY <2>3, <2>4 DEF GroupCounts
<1>2. Len(<< >>) = 0 /\ Items(<< >>) = {}
  BY DEF Items
<1>3. \A m \in Members : /\ owed[m] = << >> /\ outbox[m] = << >> /\ handling[m] = << >>
                         /\ tried[m] = 0
  BY DEF Init
<1>4. TriedInv
  BY <1>2, <1>3 DEF TriedInv
<1>5. MessagesInTurn
  BY <1>2, <1>3 DEF MessagesInTurn
<1>6. operations = 0 /\ \A m \in Members, g \in Groups, x \in Members : gen[m][g][x] = 0
  BY DEF Init, FreshGen
<1> QED BY <1>1, <1>4, <1>5, <1>6 DEF TurnsInv

LEMMA GroupTypesOK ==
    ASSUME GroupsInv, GroupCounts, TriedInv, TurnsInv
    PROVE  TypeOK
<1>1. MaxOperations \in Nat /\ operations \in 0 .. MaxOperations
  BY GroupsAssumption DEF GroupCounts
<1>2. ASSUME NEW m \in Members PROVE tried[m] \in 0 .. Len(owed[m])
  <2>1. tried[m] \in Nat /\ Len(owed[m]) \in Nat /\ tried[m] <= Len(owed[m])
    BY DEF GroupsInv, GroupTypes, TriedInv
  <2> QED BY <2>1
<1>3. ASSUME NEW m \in Members, NEW g \in Groups
      PROVE  /\ GroupMembers(group[m][g]) \subseteq Members
             /\ gen[m][g] \in [Members -> 0 .. MaxOperations]
  <2>1. group[m][g] \in Logs /\ gen[m][g] \in [Members -> Nat]
    BY GroupFacts
  <2>2. \A x \in Members : gen[m][g][x] \in Nat /\ gen[m][g][x] <= operations
    BY <2>1 DEF TurnsInv
  <2>3. \A x \in Members : gen[m][g][x] \in 0 .. MaxOperations
    BY <1>1, <2>2
  <2> QED BY <2>1, <2>3, MembersAre
<1>4. ASSUME NEW g \in Groups
      PROVE  /\ GroupMembers(stored[g]) \subseteq Members
             /\ cached[g] # NoGroup => stored[g] # NoGroup
  <2>1. stored[g] \in Logs /\ (cached[g] # NoGroup => cached[g] = stored[g])
    BY DEF GroupsInv, GroupTypes, ServerInv
  <2> QED BY <2>1, MembersAre
<1> QED BY <1>2, <1>3, <1>4 DEF TypeOK, GroupCounts

\* What TypeOK says of each part beyond types (the mutex of an update and its installer,
\* one certificate for a key and clocks that stay together, ratchets and the messages
\* that were tried, the primary keys of the storage, the capacity of the client's
\* channel), for every value of the constants.
THEOREM DevicesTypesAreCorrect == DevicesSpec => []DevicesTypeOK
<1>1. DevicesInit => TypesInv
  BY GroupsStart, GroupTypesStart, StorageStart, KeptStart, InstallStart, UpdatesStart,
     CertStart, ClocksStart, InstallAssumption DEF DevicesInit, TypesInv
<1>2. TypesInv /\ [DevicesNext]_devicesVars => TypesInv'
  <2> SUFFICES ASSUME TypesInv, [DevicesNext]_devicesVars PROVE TypesInv'
    OBVIOUS
  <2>1. [Next]_vars
    BY DEF DevicesNext, devicesVars, vars
  <2>2. GroupsInv'
    BY <2>1, GroupsStep DEF TypesInv
  <2>3. GroupCounts' /\ TriedInv' /\ TurnsInv'
    BY <2>1, <2>2, CountsStep, TriedStep, TurnsStep DEF TypesInv
  <2>4. [Install!Next]_(Install!vars)
    BY DEF DevicesNext, devicesVars, installVars, Install!vars
  <2>5. InstallInv' /\ UpdatesInv'
    BY <2>4, InstallStep, UpdatesStep, InstallAssumption DEF TypesInv
  <2>6. [Pki!Next]_(Pki!vars)
    BY DEF DevicesNext, devicesVars, certificateVars, Pki!vars
  <2>7. CertInv' /\ ClocksInv'
    BY <2>6, CertStep, ClockSteps DEF TypesInv
  <2>8. StorageInv' /\ KeptInv'
    <3>1. /\ Storage!Next \/ UNCHANGED storageVars
          /\ Kept!Next \/ UNCHANGED storeVars
      BY DEF DevicesNext, devicesVars
    <3> QED BY <3>1, StorageStep, StorageStutter, KeptStep, KeptStutter
            DEF TypesInv, storageVars, storeVars
  <2> QED BY <2>2, <2>3, <2>5, <2>7, <2>8 DEF TypesInv
<1>3. TypesInv => DevicesTypeOK
  BY GroupTypesOK, InstallTypesOK, CertificateTypesOK, StorageResult
  DEF TypesInv, DevicesTypeOK, KeptInv
<1> QED BY <1>1, <1>2, <1>3, PTL DEF DevicesSpec
================================================================================
