------------------------------- MODULE Service -------------------------------
(***************************************************************************)
(* engine/causegraph/service.py and the commands of cli.py that use it:    *)
(* `cg up`, `cg down`, `cg setup`, `cg teardown` and `cg service install`  *)
(* and `uninstall`, run in several terminals, share one pidfile, the port  *)
(* of the UI and two login services, of launchd or of systemd.  Nothing    *)
(* locks the pidfile, and a command may be cut short at any point.         *)
(*                                                                         *)
(* A recorder that ends while the `cg up` that started it still serves the *)
(* UI stays a zombie, as nobody waits for it; signal 0 reaches a zombie.   *)
(***************************************************************************)
EXTENDS Naturals, FiniteSets

CONSTANTS
  Platform,  \* the service managers: "launchd", "systemd"
  Client,    \* terminals
  Pid,       \* the pids the recorder may get
  NoPid,     \* None
  Nobody     \* init, as a parent

ASSUME ServiceAssumption ==
  /\ Platform \subseteq {"launchd", "systemd"}
  /\ IsFiniteSet(Pid) /\ NoPid \notin Pid
  /\ Nobody \notin Client

VARIABLES
  proc,     \* pid -> "free", "recorder", "stray" (a recorder whose pid its `cg up` did not
            \* get to write down), "dying", "zombie" or "other"
  parent,   \* pid -> the client whose child it is
  pidfile,  \* the pid in cged.pid; NoPid when there is no file
  manager,  \* the service manager there is
  recUnit,  \* the recorder's login service: "absent", "written" (the next login
            \* starts it), "active" (it has a recorder of its own), "old" (with the
            \* arguments of an earlier install), "restarting", "failed"
  uiUnit,   \* the UI's, never "old"; "restarting" as long as it does not get the port
  pc,       \* client -> what its command does next
  cmd,      \* client -> the command
  pid,      \* client -> its local pid
  mishaps   \* history: "overlap", "late", "login", "cut", "failure" (see below)

units == <<manager, recUnit, uiUnit>>
vars == <<proc, parent, pidfile, units, pc, cmd, pid, mishaps>>

Command == {"up", "down", "setup", "teardown", "install", "uninstall"}

Init ==
  /\ proc = [p \in Pid |-> "free"] /\ parent = [p \in Pid |-> Nobody]
  /\ pidfile = NoPid
  /\ manager \in Platform
  /\ recUnit = "absent" /\ uiUnit = "absent"
  /\ pc = [c \in Client |-> "idle"]
  /\ cmd = [c \in Client |-> "none"] /\ pid = [c \in Client |-> NoPid]
  /\ mishaps = {}

Goto(c, l) ==
  /\ pc' = [pc EXCEPT ![c] = l]
  /\ cmd' = IF l \in {"idle", "serving"} THEN [cmd EXCEPT ![c] = "none"] ELSE cmd

(* `cg up` serves the UI until Ctrl-C; the other commands return. *)
AtRest(c) == pc[c] \in {"idle", "serving"}

(* "overlap": a command was given while another was under way; "late": a    *)
(* recorder took longer than timeout_s to flush and exit, or a command      *)
(* asked for the login service when systemd was about to restart it;        *)
(* "login": the recorder's login service was started beside a detached      *)
(* recorder; "cut": a command was cut short after it had signalled a        *)
(* recorder and before it had removed the pidfile; "failure": a detached    *)
(* recorder died by itself, or with the machine.                            *)
Mishap(m) == mishaps' = mishaps \cup {m}

-----------------------------------------------------------------------------
(* os.kill(pid, 0) *)
Alive(p) == p # NoPid /\ proc[p] # "free"

(* _read_pid and _alive; a stale pidfile stays. *)
RunningPid == IF Alive(pidfile) THEN pidfile ELSE NoPid

(* What becomes of a process that ends: its parent is there, or init reaps it. *)
Ended(p) == IF parent[p] = Nobody THEN "free" ELSE "zombie"

Begin(c, x) ==
  /\ pc[c] = "idle"
  /\ cmd' = [cmd EXCEPT ![c] = x]
  /\ pc' = [pc EXCEPT ![c] = x]
  /\ IF \A d \in Client : AtRest(d) THEN UNCHANGED mishaps ELSE Mishap("overlap")
  /\ UNCHANGED <<proc, parent, pidfile, units, pid>>

(* launchctl print succeeds for every loaded job; systemctl is-active says  *)
(* "activating" of a unit that is about to be restarted.                    *)
ServiceActive(unit) ==
  IF manager = "launchd" THEN unit \notin {"absent", "written"} ELSE unit \in {"active", "old"}

(* cmd_up: if the UI's login service is there, nothing is to be done.       *)
UpAsksUI(c) ==
  /\ pc[c] = "up"
  /\ Goto(c, IF ServiceActive(uiUnit) THEN "idle" ELSE "up_recorder")
  /\ UNCHANGED <<proc, parent, pidfile, units, pid, mishaps>>

(* Else the recorder's will do instead of a recorder of its own.            *)
UpAsksRecorder(c) ==
  /\ pc[c] = "up_recorder"
  /\ Goto(c, IF ServiceActive(recUnit) THEN "bind" ELSE "start")
  /\ IF ~ServiceActive(recUnit) /\ recUnit = "restarting" THEN Mishap("late")
     ELSE UNCHANGED mishaps
  /\ UNCHANGED <<proc, parent, pidfile, units, pid>>

(* Starts a recorder without looking for one. *)
StartAlways(c) ==
  /\ pc[c] = "start"
  /\ Goto(c, "popen")
  /\ UNCHANGED <<proc, parent, pidfile, units, pid, mishaps>>

Start(c) ==
  /\ pc[c] = "start"
  /\ Goto(c, IF RunningPid # NoPid THEN "bind" ELSE "popen")
  /\ UNCHANGED <<proc, parent, pidfile, units, pid, mishaps>>

Popen(c) ==
  /\ pc[c] = "popen"
  /\ \E p \in Pid :
       /\ proc[p] = "free"
       /\ proc' = [proc EXCEPT ![p] = "recorder"]
       /\ parent' = [parent EXCEPT ![p] = c]
       /\ pid' = [pid EXCEPT ![c] = p]
  /\ Goto(c, "write")
  /\ UNCHANGED <<pidfile, units, mishaps>>

(* find_cged finds nothing, or the fork fails: the command ends. *)
StartFails(c) ==
  /\ pc[c] = "popen"
  /\ Goto(c, "idle")
  /\ UNCHANGED <<proc, parent, pidfile, units, pid, mishaps>>

WritePidfile(c) ==
  /\ pc[c] = "write"
  /\ pidfile' = pid[c]
  /\ pid' = [pid EXCEPT ![c] = NoPid]
  /\ Goto(c, "bind")
  /\ UNCHANGED <<proc, parent, units, mishaps>>

(* The client ends: its children pass to init.                              *)
Exit(c) ==
  /\ Goto(c, "idle")
  /\ proc' = [p \in Pid |-> IF parent[p] = c /\ proc[p] = "zombie" THEN "free" ELSE proc[p]]
  /\ parent' = [p \in Pid |-> IF parent[p] = c THEN Nobody ELSE parent[p]]
  /\ UNCHANGED <<pidfile, units, pid, mishaps>>

PortTaken == uiUnit = "active" \/ \E c \in Client : pc[c] = "serving"

(* server.serve binds the port, or raises and the command ends; the         *)
(* recorder it has started stays.                                           *)
Bind(c) ==
  /\ pc[c] = "bind"
  /\ \/ /\ ~PortTaken
        /\ Goto(c, "serving")
        /\ UNCHANGED <<proc, parent, pidfile, units, pid, mishaps>>
     \/ PortTaken /\ Exit(c)

CtrlC(c) == pc[c] = "serving" /\ Exit(c)

(* cmd_down leaves a managed recorder alone; cmd_setup and     *)
(* cmd_service install stop the detached one.                               *)
Down(c) ==
  /\ pc[c] = "down"
  /\ Goto(c, IF ServiceActive(recUnit) THEN "idle" ELSE "stop")
  /\ UNCHANGED <<proc, parent, pidfile, units, pid, mishaps>>

Setup(c) ==
  /\ pc[c] \in {"setup", "install"}
  /\ Goto(c, "stop")
  /\ UNCHANGED <<proc, parent, pidfile, units, pid, mishaps>>

StopCheck(c) ==
  /\ pc[c] = "stop"
  /\ pid' = [pid EXCEPT ![c] = RunningPid]
  /\ Goto(c, IF RunningPid = NoPid THEN "remove" ELSE "sigterm")
  /\ UNCHANGED <<proc, parent, pidfile, units, mishaps>>

Terminated(p) ==
  CASE proc[p] \in {"recorder", "stray"} -> "dying"
    [] proc[p] = "other" -> "free"
    [] OTHER -> proc[p]

Sigterm(c) ==
  /\ pc[c] = "sigterm"
  /\ proc' = [proc EXCEPT ![pid[c]] = Terminated(pid[c])]
  /\ Goto(c, "wait")
  /\ UNCHANGED <<parent, pidfile, units, pid, mishaps>>

(* Stopped, but the pidfile is forgotten. *)
KeepPidfile(c) ==
  /\ pc[c] = "remove"
  /\ pid' = [pid EXCEPT ![c] = NoPid]
  /\ Goto(c, IF cmd[c] = "down" THEN "idle" ELSE "install_recorder")
  /\ UNCHANGED <<proc, parent, pidfile, units, mishaps>>

(* Does not wait at all. *)
NoWait(c) ==
  /\ pc[c] = "wait"
  /\ Goto(c, "remove")
  /\ UNCHANGED <<proc, parent, pidfile, units, pid, mishaps>>

(* The polling loop ends when the process is gone or timeout_s has passed,  *)
(* which a zombie always uses up.                                           *)
Wait(c) ==
  /\ pc[c] = "wait"
  /\ IF proc[pid[c]] = "dying" THEN Mishap("late") ELSE UNCHANGED mishaps
  /\ Goto(c, "remove")
  /\ UNCHANGED <<proc, parent, pidfile, units, pid>>

(* The pidfile goes, whatever it holds and whether the process is gone. *)
RemovePidfile(c) ==
  /\ pc[c] = "remove"
  /\ pidfile' = NoPid
  /\ pid' = [pid EXCEPT ![c] = NoPid]
  /\ Goto(c, IF cmd[c] = "down" THEN "idle" ELSE "install_recorder")
  /\ UNCHANGED <<proc, parent, units, mishaps>>

(* find_cged finds nothing, when the detached recorder is stopped already. *)
InstallFails(c) ==
  /\ pc[c] = "install_recorder"
  /\ Goto(c, "idle")
  /\ UNCHANGED <<proc, parent, pidfile, units, pid, mishaps>>

(* _install_launchd ends the job there is and loads the new one.            *)
(* _install_systemd writes the unit and enables it, which starts it unless  *)
(* it runs or is about to; a running one keeps its arguments.  Nobody looks *)
(* at whether the service manager did what it was told.                     *)
Installed(unit, new) ==
  IF manager = "launchd" \/ unit = "absent" THEN {new, "written"}
  ELSE IF unit \in {"written", "failed"} THEN {new, unit}
  ELSE {unit}

InstallRecorder(c) ==
  /\ pc[c] = "install_recorder"
  /\ recUnit' \in Installed(recUnit, "active")
                  \cup (IF manager = "systemd" /\ recUnit = "active" THEN {"old"} ELSE {})
  /\ Goto(c, IF cmd[c] = "setup" THEN "install_ui" ELSE "idle")
  /\ UNCHANGED <<proc, parent, pidfile, manager, uiUnit, pid, mishaps>>

InstallUI(c) ==
  /\ pc[c] = "install_ui"
  /\ uiUnit' \in Installed(uiUnit, IF \E d \in Client : pc[d] = "serving" THEN "restarting"
                                   ELSE "active")
  /\ Goto(c, "idle")
  /\ UNCHANGED <<proc, parent, pidfile, manager, recUnit, pid, mishaps>>

(* teardown: the UI's unit, then the recorder's; the service manager is     *)
(* taken to do it.                                                          *)
TeardownUI(c) ==
  /\ pc[c] = "teardown"
  /\ uiUnit' = "absent"
  /\ Goto(c, "uninstall")
  /\ UNCHANGED <<proc, parent, pidfile, manager, recUnit, pid, mishaps>>

(* also cmd_service uninstall *)
UninstallRecorder(c) ==
  /\ pc[c] = "uninstall"
  /\ recUnit' = "absent"
  /\ Goto(c, "idle")
  /\ UNCHANGED <<proc, parent, pidfile, manager, uiUnit, pid, mishaps>>

(* What is left of a launchctl or systemctl that was cut short: the old     *)
(* service unloaded and its file there, or running on with a new file.      *)
HalfInstalled(unit) ==
  {unit} \cup (IF manager = "launchd" THEN {"written"} ELSE {})
         \cup (IF unit = "active" THEN {"old"} ELSE {})
HalfUninstalled(unit) ==
  {unit} \cup (IF manager = "launchd" /\ unit # "absent" THEN {"written"} ELSE {})

(* An interrupt, a signal or an error ends the command where it is.  The    *)
(* pidfile that was being written is as it was, or empty, which reads as    *)
(* none, and the recorder it was for runs on.                               *)
CutShort(c) ==
  /\ ~AtRest(c)
  /\ Goto(c, "idle")
  /\ pidfile' \in IF pc[c] = "write" THEN {pidfile, NoPid} ELSE {pidfile}
  /\ pid' = [pid EXCEPT ![c] = NoPid]
  /\ proc' = [p \in Pid |->
                IF parent[p] = c /\ proc[p] = "zombie" THEN "free"
                ELSE IF pc[c] = "write" /\ p = pid[c] /\ proc[p] = "recorder" /\ pidfile' # p THEN "stray"
                ELSE proc[p]]
  /\ parent' = [p \in Pid |-> IF parent[p] = c THEN Nobody ELSE parent[p]]
  /\ recUnit' \in CASE pc[c] = "install_recorder" -> HalfInstalled(recUnit)
                     [] pc[c] = "uninstall" -> HalfUninstalled(recUnit)
                     [] OTHER -> {recUnit}
  /\ uiUnit' \in CASE pc[c] = "install_ui" -> HalfInstalled(uiUnit) \ {"old"}
                    [] pc[c] = "teardown" -> HalfUninstalled(uiUnit)
                    [] OTHER -> {uiUnit}
  /\ IF pc[c] \in {"wait", "remove"} /\ pid[c] # NoPid THEN Mishap("cut") ELSE UNCHANGED mishaps
  /\ UNCHANGED manager

Step(c) ==
  \/ UpAsksUI(c) \/ UpAsksRecorder(c) \/ Start(c) \/ Popen(c) \/ StartFails(c)
  \/ WritePidfile(c) \/ Bind(c)
  \/ Down(c) \/ Setup(c) \/ StopCheck(c) \/ Sigterm(c) \/ Wait(c) \/ RemovePidfile(c)
  \/ InstallFails(c) \/ InstallRecorder(c) \/ InstallUI(c) \/ TeardownUI(c) \/ UninstallRecorder(c)

-----------------------------------------------------------------------------
(* The operating system. *)

(* A recorder that was told to has flushed and exits. *)
RecorderExits(p) ==
  /\ proc[p] = "dying"
  /\ proc' = [proc EXCEPT ![p] = Ended(p)]
  /\ UNCHANGED <<parent, pidfile, units, pc, cmd, pid, mishaps>>

RecorderCrashes(p) ==
  /\ proc[p] \in {"recorder", "stray"}
  /\ Mishap("failure")
  /\ proc' = [proc EXCEPT ![p] = Ended(p)]
  /\ UNCHANGED <<parent, pidfile, units, pc, cmd, pid>>

OtherStarts(p) ==
  /\ proc[p] = "free"
  /\ proc' = [proc EXCEPT ![p] = "other"]
  /\ parent' = [parent EXCEPT ![p] = Nobody]
  /\ UNCHANGED <<pidfile, units, pc, cmd, pid, mishaps>>

(* A login service's recorder or UI ends by itself. *)
UnitCrashes ==
  /\ \/ recUnit \in {"active", "old"} /\ recUnit' = "restarting" /\ UNCHANGED uiUnit
     \/ uiUnit = "active" /\ uiUnit' = "restarting" /\ UNCHANGED recUnit
  /\ UNCHANGED <<proc, parent, pidfile, manager, pc, cmd, pid, mishaps>>

(* KeepAlive, Restart=always: it is started again; the UI gets to run when  *)
(* the port is free.                                                        *)
RecorderUnitRestarts ==
  /\ recUnit = "restarting" /\ recUnit' = "active"
  /\ UNCHANGED <<proc, parent, pidfile, manager, uiUnit, pc, cmd, pid, mishaps>>

UIUnitRestarts ==
  /\ uiUnit = "restarting" /\ ~PortTaken /\ uiUnit' = "active"
  /\ UNCHANGED <<proc, parent, pidfile, manager, recUnit, pc, cmd, pid, mishaps>>

(* After some failures in a row systemd leaves a unit as failed. *)
SystemdGivesUp ==
  /\ manager = "systemd"
  /\ \/ recUnit = "restarting" /\ recUnit' = "failed" /\ UNCHANGED uiUnit
     \/ uiUnit = "restarting" /\ uiUnit' = "failed" /\ UNCHANGED recUnit
  /\ UNCHANGED <<proc, parent, pidfile, manager, pc, cmd, pid, mishaps>>

Recording == {p \in Pid : proc[p] \in {"recorder", "dying"}}

(* A logout, when the terminals have ended, and the next login: the login   *)
(* services that are installed start anew.  A detached recorder has a       *)
(* session of its own and runs through both.                                *)
Login ==
  /\ \A c \in Client : pc[c] = "idle"
  /\ recUnit # "absent" \/ uiUnit # "absent"
  /\ recUnit' = IF recUnit = "absent" THEN "absent" ELSE "active"
  /\ uiUnit' = IF uiUnit = "absent" THEN "absent" ELSE "active"
  /\ IF recUnit # "absent" /\ Recording # {} THEN Mishap("login") ELSE UNCHANGED mishaps
  /\ UNCHANGED <<proc, parent, pidfile, manager, pc, cmd, pid>>

(* The machine: every process ends too; the pidfile stays. *)
Reboot ==
  /\ pidfile # NoPid \/ recUnit # "absent" \/ uiUnit # "absent"
  /\ proc' = [p \in Pid |-> "free"] /\ parent' = [p \in Pid |-> Nobody]
  /\ recUnit' = IF recUnit = "absent" THEN "absent" ELSE "active"
  /\ uiUnit' = IF uiUnit = "absent" THEN "absent" ELSE "active"
  /\ pc' = [c \in Client |-> "idle"] /\ pid' = [c \in Client |-> NoPid]
  /\ cmd' = [c \in Client |-> "none"]
  /\ Mishap("failure")
  /\ UNCHANGED <<pidfile, manager>>

Next ==
  \/ \E c \in Client : (\E x \in Command : Begin(c, x)) \/ Step(c) \/ CtrlC(c) \/ CutShort(c)
  \/ \E p \in Pid : RecorderExits(p) \/ RecorderCrashes(p) \/ OtherStarts(p)
  \/ UnitCrashes \/ RecorderUnitRestarts \/ UIUnitRestarts \/ SystemdGivesUp
  \/ Login \/ Reboot

Spec == Init /\ [][Next]_vars

-----------------------------------------------------------------------------

AtMostOneWriter == Cardinality(Recording) + (IF recUnit \in {"active", "old"} THEN 1 ELSE 0) <= 1

(* `start` is "Idempotent", `setup` must "avoid two writers on the DB":     *)
(* strays apart, commands given one after the other never leave two         *)
(* recorders on the store, wherever they were cut short, whatever crashed   *)
(* and whose pid was reused.  Except for a recorder that lingers past the   *)
(* timeout or an answer of systemd between two starts ("late"), and for a   *)
(* login service started beside a detached recorder ("login").              *)
OneWriter == mishaps \cap {"overlap", "late", "login"} = {} => AtMostOneWriter

(* No orphan: when no command is under way, a detached recorder that is not *)
(* a stray is the one the pidfile names, so that `cg down` and `cg setup`   *)
(* can stop it, if no commands overlapped and none was late.                *)
NoOrphan ==
  mishaps \cap {"overlap", "late"} = {} /\ (\A c \in Client : AtRest(c)) =>
    \A p \in Recording : pidfile = p

(* What the pidfile is trusted for.  `returns ("already", pid) if one is    *)
(* live`: `cg up` does without a recorder of its own only if there is one;  *)
(* "SIGTERM the recorder": `stop` signals no other program, though pids are *)
(* reused.  Unless commands overlap, a recorder died by itself and left its *)
(* pid in the file, or a command that stops a recorder was cut short before *)
(* it removed the file.                                                     *)
ActsOnTheRecorder ==
  [][mishaps \cap {"overlap", "failure", "cut"} = {} =>
     \A c \in Client :
       /\ pc[c] = "start" /\ pc'[c] = "bind" => proc[RunningPid] = "recorder"
       /\ pc[c] = "sigterm" /\ pc'[c] = "wait" => proc[pid[c]] # "other"]_vars

-----------------------------------------------------------------------------
(* What does not hold (README, "Refuted claims"). *)

(* "avoid two writers on the DB": also when a recorder needs its time to    *)
(* flush, or systemd is about to restart the login service.                 *)
OneWriterIfLate == mishaps \cap {"overlap", "login"} = {} => AtMostOneWriter

(* The same, when the login service comes with a login.                     *)
OneWriterIfLogin == mishaps \cap {"overlap", "late"} = {} => AtMostOneWriter

(* The same, counting the strays: a `cg up` cut short between Popen and the *)
(* pidfile leaves a recorder that the next one does not find.               *)
OneWriterIfCut ==
  mishaps = {} => Cardinality({p \in Pid : proc[p] \in {"recorder", "stray", "dying"}}) <= 1

(* `returns ("already", pid) if one is live`: also when a `cg down` was cut *)
(* short.                                                                   *)
AlreadyIfCut ==
  [][mishaps \cap {"overlap", "failure"} = {} =>
     \A c \in Client : pc[c] = "start" /\ pc'[c] = "bind" => proc[RunningPid] = "recorder"]_vars

(* "ensure a background recorder is capturing": when `cg up` returns because *)
(* the login services are there, one of them is the recorder's.             *)
UpRecords ==
  [][\A c \in Client :
       pc[c] = "up" /\ pc'[c] = "idle" /\ ServiceActive(uiUnit) =>
         recUnit \notin {"absent", "written"} \/ Recording # {}]_vars

(* "recording -> {db}" (cmd_setup): the recorder runs with the arguments    *)
(* setup was given.                                                         *)
SetupTakesEffect == recUnit # "old"

(* "self-managing" (cmd_setup): once setup has returned both services run. *)
SetupInstalls ==
  [][\A c \in Client :
       pc[c] = "install_ui" /\ pc'[c] = "idle" /\ mishaps = {} =>
         recUnit # "written" /\ uiUnit' # "written"]_vars
=============================================================================
