----------------------------- MODULE AgentInstall ------------------------------
(***************************************************************************)
(* Installing and updating an agent on Linux (installer/agent.rs,          *)
(* installer/agent/update.rs, shared/commands/update_agent.rs; agent.rs:   *)
(* cleanup_on_start).  Versions live side by side in the slots a..z of     *)
(* /opt/svalin; the service manager's unit file names the one that runs.   *)
(* An installer is started by hand, or by the agent itself when a client   *)
(* asks for an update: then it belongs to the agent's service and is       *)
(* killed with it.  An agent that starts removes every slot but its own.   *)
(*                                                                         *)
(* systemd is external: it runs what it loaded of the unit file, restarts  *)
(* an agent that crashed, and kills all processes of a service it stops.   *)
(* Left out: Windows (a create_service of its own, todo!() in uninstall),  *)
(* what is in an executable, and the agent's data.                         *)
(***************************************************************************)
EXTENDS Integers, Sequences, SequencesExt

CONSTANTS
    Slots,          \* sequence of the slots, in the order they are looked at
    Requests,       \* updates clients ask for
    MaxManual,      \* installations by hand
    MaxCrashes

VARIABLES
    disk,       \* [slot -> "free", "torn" or "ok"]
    unit,       \* unit file: "none", "torn" or a slot
    loaded,     \* what systemd has read of it: "none", "bad" or a slot
    service,    \* the agent: [at |-> "off", "cleanup", "run" or "failed", slot, next]
    installer,  \* [Installers -> [at, slot]]
    request,    \* [Requests -> "none", "update", "ok", "error" or "lost"]
    lock,       \* request that holds the handler's mutex, or "none"
    removal,    \* uninstall: "off", "base", "stop", "unit", "done" or "cut"
    manual, crashes,
    raced       \* two installers ran at once, an agent started during one, or one was
                \* cut off between writing the unit file and having it loaded

vars == <<disk, unit, loaded, service, installer, request, lock, removal, manual, crashes, raced>>

Installers == {"update", "manual"}
SlotSet == Range(Slots)
NoInstaller == [at |-> "off", slot |-> "none"]
Busy == {"pick", "create", "copy", "unit", "write", "reload", "check", "restart"}
Off == [at |-> "off", slot |-> "none", next |-> 1]
Active == service.at \in {"cleanup", "run"}

\* There are slots, and no slot or request is called what stands for none.
InstallAssumption ==
    /\ Slots \in Seq(SlotSet) /\ Slots # <<>>
    /\ {"none", "torn", "bad"} \cap SlotSet = {}
    /\ "none" \notin Requests
    /\ {MaxManual, MaxCrashes} \subseteq Nat

TypeOK ==
    /\ disk \in [SlotSet -> {"free", "torn", "ok"}]
    /\ unit \in SlotSet \cup {"none", "torn"} /\ loaded \in SlotSet \cup {"none", "bad"}
    /\ service.at \in {"off", "cleanup", "run", "failed"}
    /\ \A p \in Installers : installer[p].at \in Busy \cup {"off", "done", "failed"}
    /\ request \in [Requests -> {"none", "update", "ok", "error", "lost"}]
    /\ lock \in Requests \cup {"none"}
    /\ removal \in {"off", "base", "stop", "unit", "done", "cut"}
    /\ manual \in 0..MaxManual /\ crashes \in 0..MaxCrashes /\ raced \in BOOLEAN
    \* The update that runs is the one that holds the mutex, and its installer is
    \* the only one of the agent's.
    /\ \A r \in Requests : (request[r] = "update") <=> (lock = r)
    /\ installer["update"].at # "off" => lock # "none" /\ Active

Init ==
    \* Nothing is installed, or the first slot is and its agent runs.
    /\ \/ /\ disk = [s \in SlotSet |-> "free"]
          /\ unit = "none" /\ loaded = "none" /\ service = Off
       \/ /\ disk = [s \in SlotSet |-> IF s = Slots[1] THEN "ok" ELSE "free"]
          /\ unit = Slots[1] /\ loaded = Slots[1]
          /\ service = [at |-> "run", slot |-> Slots[1], next |-> Len(Slots)]
    /\ installer = [p \in Installers |-> NoInstaller]
    /\ request = [r \in Requests |-> "none"] /\ lock = "none"
    /\ removal = "off" /\ manual = 0 /\ crashes = 0 /\ raced = FALSE

-----------------------------------------------------------------------------
(* The service manager.                                                    *)

\* An executable that is missing or torn does not start.
Started ==
    IF loaded \in SlotSet /\ disk[loaded] = "ok"
      THEN [at |-> "cleanup", slot |-> loaded, next |-> 1]
      ELSE [Off EXCEPT !.at = "failed"]

\* The agent's process ends; a of answers is what its handler could still say.
AgentEnds(answers) ==
    /\ \E a \in answers : request' = [r \in Requests |-> IF r = lock THEN a ELSE request[r]]
    /\ lock' = "none"

\* Installers are cut off; in the worst place, what systemd will read next is not
\* what it has loaded.
CutOff(ps) ==
    /\ installer' = [p \in Installers |-> IF p \in ps THEN NoInstaller ELSE installer[p]]
    /\ raced' = \/ raced
                \/ \E p \in ps : installer[p].at \in {"write", "reload"}
                \/ service'.at = "cleanup" /\ \E p \in Installers \ ps : installer[p].at \in Busy

StartService ==
    /\ ~Active /\ loaded \in SlotSet
    /\ service' = Started
    /\ CutOff({})
    /\ UNCHANGED <<disk, unit, loaded, request, lock, removal, manual, crashes>>

\* The administrator stops the service.  The handler is cancelled and answers Ok
\* if it is fast enough, whatever the update has come to.
StopService ==
    /\ Active
    /\ service' = Off
    /\ CutOff({"update"})
    /\ AgentEnds({"ok", "lost"})
    /\ UNCHANGED <<disk, unit, loaded, removal, manual, crashes>>

\* The agent crashes; Restart=on-failure.
AgentCrashes ==
    /\ Active /\ crashes < MaxCrashes /\ crashes' = crashes + 1
    /\ service' = Started
    /\ CutOff({"update"})
    /\ AgentEnds({"lost"})
    /\ UNCHANGED <<disk, unit, loaded, removal, manual>>

\* The machine goes down and comes back; the service is not enabled by anyone.
PowerLoss ==
    /\ crashes < MaxCrashes /\ crashes' = crashes + 1
    /\ service' = Off /\ loaded' = IF unit = "torn" THEN "bad" ELSE unit
    /\ CutOff(Installers)
    /\ removal' = IF removal \in {"off", "done"} THEN removal ELSE "cut"
    /\ AgentEnds({"lost"})
    /\ UNCHANGED <<disk, unit, manual>>

-----------------------------------------------------------------------------
(* The agent.                                                              *)

\* cleanup_old_installations, one slot; after the last one the agent serves.
Cleanup ==
    /\ service.at = "cleanup"
    /\ disk' = IF Slots[service.next] = service.slot THEN disk
               ELSE [disk EXCEPT ![Slots[service.next]] = "free"]
    /\ service' = IF service.next = Len(Slots) THEN [service EXCEPT !.at = "run"]
                  ELSE [service EXCEPT !.next = @ + 1]
    /\ UNCHANGED <<unit, loaded, installer, request, lock, removal, manual, crashes, raced>>

AskUpdateQueued(r) ==
    /\ service.at = "run" /\ request[r] = "none"
    /\ request' = [request EXCEPT ![r] = "update"] /\ lock' = r
    /\ UNCHANGED <<disk, unit, loaded, service, installer, removal, manual, crashes, raced>>

\* UpdateAgentHandler::handle: "update already in progress".
AskUpdate(r) ==
    /\ service.at = "run" /\ request[r] = "none"
    /\ IF lock = "none"
         THEN request' = [request EXCEPT ![r] = "update"] /\ lock' = r
         ELSE request' = [request EXCEPT ![r] = "error"] /\ UNCHANGED lock
    /\ UNCHANGED <<disk, unit, loaded, service, installer, removal, manual, crashes, raced>>

Spawn(p) ==
    /\ installer' = [installer EXCEPT ![p] = [at |-> "pick", slot |-> "none"]]
    /\ raced' = \/ raced
                \/ service.at = "cleanup"
                \/ \E q \in Installers \ {p} : installer[q].at \in Busy

\* update_agent: the file is complete, and the installer in it is started.
Downloaded ==
    /\ service.at = "run" /\ lock # "none" /\ installer["update"].at = "off"
    /\ Spawn("update")
    /\ UNCHANGED <<disk, unit, loaded, service, request, lock, removal, manual, crashes>>

Answer(result) ==
    /\ request' = [request EXCEPT ![lock] = result] /\ lock' = "none"
    /\ installer' = [installer EXCEPT !["update"] = NoInstaller]
    /\ UNCHANGED <<disk, unit, loaded, service, removal, manual, crashes, raced>>

DownloadFails ==
    /\ service.at = "run" /\ lock # "none" /\ installer["update"].at = "off"
    /\ Answer("error")

InstallerExits ==
    /\ service.at = "run" /\ lock # "none" /\ installer["update"].at \in {"done", "failed"}
    /\ Answer(IF installer["update"].at = "done" THEN "ok" ELSE "error")

-----------------------------------------------------------------------------
(* install_agent, by p.                                                    *)

InstallByHand ==
    /\ manual < MaxManual /\ manual' = manual + 1
    /\ installer["manual"].at \notin Busy /\ removal \in {"off", "done", "cut"}
    /\ removal' = IF removal = "done" THEN "off" ELSE removal
    /\ Spawn("manual")
    /\ UNCHANGED <<disk, unit, loaded, service, request, lock, crashes>>

Goto(p, where) == installer' = [installer EXCEPT ![p].at = where]

\* get_agent_install_location: the first slot that does not exist.
FreeSlots == {i \in DOMAIN Slots : disk[Slots[i]] = "free"}

PickFirst(p) ==
    /\ installer[p].at = "pick"
    /\ installer' = [installer EXCEPT ![p] = [at |-> "create", slot |-> Slots[1]]]
    /\ UNCHANGED <<disk, unit, loaded, service, request, lock, removal, manual, crashes, raced>>

PickSlot(p) ==
    /\ installer[p].at = "pick"
    /\ \/ FreeSlots = {} /\ Goto(p, "failed")
       \/ \E i \in FreeSlots :
             /\ \A j \in FreeSlots : i <= j
             /\ installer' = [installer EXCEPT ![p] = [at |-> "create", slot |-> Slots[i]]]
    /\ UNCHANGED <<disk, unit, loaded, service, request, lock, removal, manual, crashes, raced>>

CreateSlotAnyway(p) ==
    /\ installer[p].at = "create"
    /\ disk' = [disk EXCEPT ![installer[p].slot] = "torn"] /\ Goto(p, "copy")
    /\ UNCHANGED <<unit, loaded, service, request, lock, removal, manual, crashes, raced>>

\* ensure_parent_exists, and the copy begins: over a file that is there by now,
\* unless it is being executed.
CreateSlot(p) ==
    /\ installer[p].at = "create"
    /\ IF Active /\ service.slot = installer[p].slot
         THEN Goto(p, "failed") /\ UNCHANGED disk
         ELSE disk' = [disk EXCEPT ![installer[p].slot] = "torn"] /\ Goto(p, "copy")
    /\ UNCHANGED <<unit, loaded, service, request, lock, removal, manual, crashes, raced>>

\* The copy ends; in a directory that was removed nothing is left of it.
Copy(p) ==
    /\ installer[p].at = "copy"
    /\ disk' = [disk EXCEPT ![installer[p].slot] = IF @ = "free" THEN "free" ELSE "ok"]
    /\ Goto(p, "unit")
    /\ UNCHANGED <<unit, loaded, service, request, lock, removal, manual, crashes, raced>>

\* create_systemd_service: File::create, write_all.
TruncateUnit(p) ==
    /\ installer[p].at = "unit"
    /\ unit' = "torn" /\ Goto(p, "write")
    /\ UNCHANGED <<disk, loaded, service, request, lock, removal, manual, crashes, raced>>

WriteUnit(p) ==
    /\ installer[p].at = "write"
    /\ unit' = installer[p].slot /\ Goto(p, "reload")
    /\ UNCHANGED <<disk, loaded, service, request, lock, removal, manual, crashes, raced>>

DaemonReload(p) ==
    /\ installer[p].at = "reload"
    /\ loaded' = (IF unit = "torn" THEN "bad" ELSE unit) /\ Goto(p, "check")
    /\ UNCHANGED <<disk, unit, service, request, lock, removal, manual, crashes, raced>>

\* systemctl is-active: a service that does not run is left as it is.
CheckActive(p) ==
    /\ installer[p].at = "check"
    /\ Goto(p, IF Active THEN "restart" ELSE "done")
    /\ UNCHANGED <<disk, unit, loaded, service, request, lock, removal, manual, crashes, raced>>

\* systemctl restart: stops the agent, and with it the installer it has started,
\* and starts what is loaded now.
Restart(p) ==
    /\ installer[p].at = "restart"
    /\ service' = Started
    /\ CutOff({"update"} \cup {p})
    /\ AgentEnds({"ok", "lost"})
    /\ UNCHANGED <<disk, unit, loaded, removal, manual, crashes>>

\* A step fails (disk, systemctl), or the administrator interrupts it.
InstallerFails(p) ==
    /\ installer[p].at \in Busy
    /\ Goto(p, "failed")
    /\ raced' = (raced \/ installer[p].at \in {"write", "reload"})
    /\ UNCHANGED <<disk, unit, loaded, service, request, lock, removal, manual, crashes>>

-----------------------------------------------------------------------------
(* uninstall_agent: the files, then the service.                           *)

Uninstall ==
    /\ removal \in {"off", "cut"} /\ installer["manual"].at \notin Busy
    /\ removal' = "base"
    /\ UNCHANGED <<disk, unit, loaded, service, installer, request, lock, manual, crashes, raced>>

RemoveBase ==
    /\ removal = "base" /\ removal' = "stop"
    /\ disk' = [s \in SlotSet |-> "free"]
    /\ UNCHANGED <<unit, loaded, service, installer, request, lock, manual, crashes, raced>>

\* remove_systemd_service: disable --now, then the unit file.
DisableService ==
    /\ removal = "stop" /\ removal' = "unit"
    /\ service' = Off
    /\ CutOff({"update"})
    /\ IF Active THEN AgentEnds({"ok", "lost"}) ELSE UNCHANGED <<request, lock>>
    /\ UNCHANGED <<disk, unit, loaded, manual, crashes>>

\* systemd forgets a unit that does not run and whose file is gone.
RemoveUnit ==
    /\ removal = "unit" /\ removal' = "done"
    /\ unit' = "none" /\ loaded' = "none"
    /\ UNCHANGED <<disk, service, installer, request, lock, manual, crashes, raced>>

-----------------------------------------------------------------------------
Step(p) ==
    \/ PickSlot(p) \/ CreateSlot(p) \/ Copy(p) \/ TruncateUnit(p) \/ WriteUnit(p)
    \/ DaemonReload(p) \/ CheckActive(p) \/ Restart(p)

Next ==
    \/ StartService \/ StopService \/ AgentCrashes \/ PowerLoss
    \/ Cleanup \/ (\E r \in Requests : AskUpdate(r))
    \/ Downloaded \/ DownloadFails \/ InstallerExits
    \/ InstallByHand \/ (\E p \in Installers : Step(p) \/ InstallerFails(p))
    \/ Uninstall \/ RemoveBase \/ DisableService \/ RemoveUnit

Spec == Init /\ [][Next]_vars

-----------------------------------------------------------------------------
\* An agent never pulls the ground from under itself: whatever updates and
\* installations do at once, the executable that runs stays whole, until the
\* agent is removed.
RunningIsWhole == Active /\ removal = "off" => disk[service.slot] = "ok"

\* The service can be started again: after any step, crash or power loss, what
\* systemd runs is whole, as long as no two installers ran at once, no agent
\* started while one ran, none was cut off between writing the unit file and
\* having it loaded, and the agent is not being removed.
UnitIsRunnable ==
    ~raced /\ removal = "off" /\ loaded \in SlotSet => disk[loaded] = "ok"

\* What systemd runs or would start is whole.
InstalledIsWhole == RunningIsWhole /\ UnitIsRunnable
================================================================================
