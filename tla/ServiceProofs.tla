----------------------------- MODULE ServiceProofs -----------------------------
(***************************************************************************)
(* Proofs about Service, for any number of terminals and pids and under     *)
(* either service manager: as long as commands do not overlap there is one  *)
(* recorder at most besides strays, the pidfile names it, and it is what    *)
(* gets signalled; each with the reservations of its property.              *)
(***************************************************************************)
EXTENDS Service, FiniteSetTheorems, TLAPS

Place == Command \cup
  {"idle", "serving", "up_recorder", "start", "popen", "write", "bind", "stop", "sigterm", "wait",
   "remove", "install_recorder", "install_ui"}
ProcState == {"free", "recorder", "stray", "dying", "zombie", "other"}
Mishaps == {"overlap", "late", "login", "cut", "failure"}
UnitState == {"absent", "written", "active", "old", "restarting", "failed"}

(* A command that is about to write a pid, or to signal one, has it.        *)
TypeOK ==
  /\ proc \in [Pid -> ProcState]
  /\ parent \in [Pid -> Client \cup {Nobody}]
  /\ pidfile \in Pid \cup {NoPid}
  /\ manager \in Platform /\ recUnit \in UnitState /\ uiUnit \in UnitState
  /\ pc \in [Client -> Place]
  /\ cmd \in [Client -> Command \cup {"none"}]
  /\ pid \in [Client -> Pid \cup {NoPid}]
  /\ \A c \in Client : pc[c] \in {"write", "sigterm", "wait"} => pid[c] \in Pid
  /\ mishaps \subseteq Mishaps

Serial == "overlap" \notin mishaps
InTime == "late" \notin mishaps
NoLogin == "login" \notin mishaps
NoFailure == mishaps \cap {"failure", "cut"} = {}

(* One command at a time.                                                   *)
SerialInv ==
  Serial => \A c, d \in Client : ~AtRest(c) /\ ~AtRest(d) => c = d

(* The login service has a recorder, or is about to.                        *)
Managed == recUnit \in {"active", "old", "restarting"}

(* Which recorder there can be, at each place of the one command.           *)
WriterInv ==
  Serial /\ InTime =>
    /\ NoLogin /\ Managed => Recording = {}
    /\ (\A c \in Client : pc[c] # "write") => Recording \subseteq {pidfile}
    /\ \A c \in Client :
         /\ pc[c] \in {"start", "popen", "write"} => ~Managed
         /\ pc[c] \in {"popen", "remove", "install_recorder"} => Recording = {}
         /\ pc[c] = "write" => Recording \subseteq {pid[c]} /\ \A p \in Pid : proc[p] # "dying"
         /\ pc[c] \in {"sigterm", "wait"} => pid[c] = pidfile
         /\ pc[c] = "wait" => \A p \in Pid : proc[p] # "recorder"

(* No pidfile names a stray, nor will one.                                  *)
StrayInv ==
  Serial => \A p \in Pid :
    proc[p] = "stray" => /\ pidfile # p
                         /\ \A c \in Client : pc[c] \in {"write", "sigterm"} => pid[c] # p

(* While no recorder died by itself and no stop was cut short, the pidfile   *)
(* names a recorder or one that is being stopped.                           *)
FileInv ==
  Serial /\ NoFailure =>
    /\ pidfile # NoPid => \/ proc[pidfile] = "recorder"
                          \/ \E c \in Client : pc[c] \in {"wait", "remove"} /\ pid[c] = pidfile
    /\ \A c \in Client :
         /\ pc[c] = "write" => proc[pid[c]] = "recorder"
         /\ pc[c] = "sigterm" => pid[c] = pidfile

IInv == TypeOK /\ SerialInv /\ WriterInv /\ StrayInv /\ FileInv

-----------------------------------------------------------------------------
(* Type correctness. *)

LEMMA TypeInitially == Init => TypeOK
BY DEF Init, TypeOK, UnitState, Place, ProcState

(* A client that goes somewhere leaves the others where they are.           *)
LEMMA GotoMoves ==
  ASSUME TypeOK, NEW c \in Client, NEW l \in Place, Goto(c, l)
  PROVE  /\ pc' \in [Client -> Place] /\ pc'[c] = l
         /\ \A d \in Client \ {c} : pc'[d] = pc[d]
         /\ cmd' \in [Client -> Command \cup {"none"}]
<1>1. pc' = [pc EXCEPT ![c] = l] /\ (cmd' = [cmd EXCEPT ![c] = "none"] \/ cmd' = cmd)
  BY DEF Goto
<1>2. pc \in [Client -> Place] /\ cmd \in [Client -> Command \cup {"none"}]
  BY DEF TypeOK
<1>q. QED BY <1>1, <1>2

(* The commands' steps that only go on, by where they go.                   *)
Asks(c) ==
  \/ UpAsksUI(c) \/ UpAsksRecorder(c) \/ Start(c) \/ StartFails(c) \/ Down(c) \/ Setup(c)
  \/ Wait(c) \/ InstallFails(c)

LEMMA AsksLeaves ==
  ASSUME NEW c \in Client, Asks(c)
  PROVE  /\ \E l \in Place \ {"write", "sigterm", "wait"} : Goto(c, l)
         /\ UNCHANGED <<proc, parent, pidfile, units, pid>>
         /\ mishaps' \in {mishaps, mishaps \cup {"late"}}
<1>1. CASE UpAsksUI(c)
  BY <1>1 DEF UpAsksUI, Place
<1>2. CASE UpAsksRecorder(c)
  BY <1>2 DEF UpAsksRecorder, Place, Mishap
<1>3. CASE Start(c)
  BY <1>3 DEF Start, Place
<1>4. CASE StartFails(c) \/ InstallFails(c)
  BY <1>4 DEF StartFails, InstallFails, Place
<1>5. CASE Down(c) \/ Setup(c)
  BY <1>5 DEF Down, Setup, Place
<1>6. CASE Wait(c)
  BY <1>6 DEF Wait, Place, Mishap
<1>q. QED BY <1>1, <1>2, <1>3, <1>4, <1>5, <1>6 DEF Asks

LEMMA ExitLeaves ==
  ASSUME TypeOK, NEW c \in Client, Exit(c)
  PROVE  /\ proc' \in [Pid -> ProcState]
         /\ parent' \in [Pid -> Client \cup {Nobody}]
         /\ pc'[c] = "idle" /\ pc' \in [Client -> Place] /\ cmd' \in [Client -> Command \cup {"none"}]
         /\ \A d \in Client \ {c} : pc'[d] = pc[d]
         /\ \A p \in Pid : proc'[p] = proc[p] \/ (proc[p] = "zombie" /\ proc'[p] = "free")
         /\ UNCHANGED <<pidfile, units, pid, mishaps>>
<1>1. Goto(c, "idle") /\ "idle" \in Place /\ UNCHANGED <<pidfile, units, pid, mishaps>>
  BY DEF Exit, Place
<1>2. /\ proc' = [p \in Pid |-> IF parent[p] = c /\ proc[p] = "zombie" THEN "free" ELSE proc[p]]
      /\ parent' = [p \in Pid |-> IF parent[p] = c THEN Nobody ELSE parent[p]]
  BY DEF Exit
<1>3. /\ proc' \in [Pid -> ProcState]
      /\ parent' \in [Pid -> Client \cup {Nobody}]
  BY <1>2 DEF TypeOK, ProcState
<1>4. \A p \in Pid : proc'[p] = proc[p] \/ (proc[p] = "zombie" /\ proc'[p] = "free")
  BY <1>2
<1>q. QED BY <1>1, <1>3, <1>4, GotoMoves

(* What a command that is cut short leaves.                                  *)
LEMMA CutLeaves ==
  ASSUME TypeOK, NEW c \in Client, CutShort(c)
  PROVE  /\ proc' \in [Pid -> ProcState] /\ parent' \in [Pid -> Client \cup {Nobody}]
         /\ pc'[c] = "idle" /\ pc' \in [Client -> Place] /\ cmd' \in [Client -> Command \cup {"none"}]
         /\ pid' \in [Client -> Pid \cup {NoPid}]
         /\ \A d \in Client \ {c} : pc'[d] = pc[d] /\ pid'[d] = pid[d]
         /\ \A p \in Pid :
              \/ proc'[p] = proc[p]
              \/ proc[p] = "zombie" /\ proc'[p] = "free"
              \/ pc[c] = "write" /\ p = pid[c] /\ pidfile' # p /\ proc[p] = "recorder" /\ proc'[p] = "stray"
         /\ pc[c] = "write" /\ proc[pid[c]] = "recorder" /\ pidfile' # pid[c] => proc'[pid[c]] = "stray"
         /\ pidfile' = pidfile \/ (pc[c] = "write" /\ pidfile' = NoPid)
         /\ manager' = manager /\ recUnit' \in UnitState /\ uiUnit' \in UnitState
         /\ mishaps' = mishaps \/ mishaps' = mishaps \cup {"cut"}
         /\ pc[c] \in {"wait", "remove"} /\ pid[c] # NoPid => "cut" \in mishaps'
         /\ ~AtRest(c)
<1>1. Goto(c, "idle") /\ "idle" \in Place
  BY DEF CutShort, Place
<1>2. /\ pc' \in [Client -> Place] /\ pc'[c] = "idle" /\ cmd' \in [Client -> Command \cup {"none"}]
      /\ \A d \in Client \ {c} : pc'[d] = pc[d]
  BY <1>1, GotoMoves
<1>3. /\ pid' = [pid EXCEPT ![c] = NoPid]
      /\ pid' \in [Client -> Pid \cup {NoPid}]
      /\ \A d \in Client \ {c} : pid'[d] = pid[d]
  BY DEF CutShort, TypeOK
<1>4. proc' = [p \in Pid |->
                IF parent[p] = c /\ proc[p] = "zombie" THEN "free"
                ELSE IF pc[c] = "write" /\ p = pid[c] /\ proc[p] = "recorder" /\ pidfile' # p THEN "stray"
                ELSE proc[p]]
  BY DEF CutShort
<1>5. proc' \in [Pid -> ProcState]
  BY <1>4 DEF TypeOK, ProcState
<1>6. \A p \in Pid :
        \/ proc'[p] = proc[p]
        \/ proc[p] = "zombie" /\ proc'[p] = "free"
        \/ pc[c] = "write" /\ p = pid[c] /\ pidfile' # p /\ proc[p] = "recorder" /\ proc'[p] = "stray"
  BY <1>4
<1>7. pc[c] = "write" => pid[c] \in Pid
  BY DEF TypeOK
<1>8. pc[c] = "write" /\ proc[pid[c]] = "recorder" /\ pidfile' # pid[c] => proc'[pid[c]] = "stray"
  BY <1>4, <1>7
<1>9. parent' \in [Pid -> Client \cup {Nobody}]
  BY DEF CutShort, TypeOK
<1>10. pidfile' = pidfile \/ (pc[c] = "write" /\ pidfile' = NoPid)
  BY DEF CutShort
<1>11. manager' = manager /\ recUnit' \in UnitState /\ uiUnit' \in UnitState
  BY DEF CutShort, TypeOK, HalfInstalled, HalfUninstalled, UnitState
<1>12. /\ mishaps' = mishaps \/ mishaps' = mishaps \cup {"cut"}
       /\ pc[c] \in {"wait", "remove"} /\ pid[c] # NoPid => "cut" \in mishaps'
  BY DEF CutShort, Mishap
<1>13. ~AtRest(c)
  BY DEF CutShort
<1>q. QED BY <1>2, <1>3, <1>5, <1>6, <1>8, <1>9, <1>10, <1>11, <1>12, <1>13

LEMMA RunningIsPid ==
  ASSUME TypeOK
  PROVE  /\ RunningPid \in Pid \cup {NoPid}
         /\ RunningPid # NoPid => RunningPid = pidfile /\ pidfile \in Pid /\ proc[pidfile] # "free"
         /\ RunningPid = NoPid /\ pidfile # NoPid => proc[pidfile] = "free"
BY DEF TypeOK, RunningPid, Alive

LEMMA InstalledTypes ==
  ASSUME NEW unit \in UnitState, NEW new \in UnitState
  PROVE  Installed(unit, new) \subseteq UnitState
BY DEF Installed, UnitState

(* One thread of a command: what its step leaves of the types.               *)
LEMMA ClientTypes ==
  ASSUME TypeOK, NEW c \in Client, Step(c) \/ CtrlC(c) \/ CutShort(c) \/ \E x \in Command : Begin(c, x)
  PROVE  TypeOK'
<1>0. /\ proc \in [Pid -> ProcState]
      /\ parent \in [Pid -> Client \cup {Nobody}]
      /\ pidfile \in Pid \cup {NoPid}
      /\ manager \in Platform /\ recUnit \in UnitState /\ uiUnit \in UnitState
      /\ pid \in [Client -> Pid \cup {NoPid}]
      /\ \A d \in Client : pc[d] \in {"write", "sigterm", "wait"} => pid[d] \in Pid
      /\ mishaps \subseteq Mishaps
  BY DEF TypeOK
<1>1. ASSUME NEW l \in Place \ {"write", "sigterm", "wait"}, Goto(c, l),
             UNCHANGED <<proc, parent, pidfile, manager, pid>>,
             recUnit' \in UnitState, uiUnit' \in UnitState, mishaps' \subseteq Mishaps
      PROVE  TypeOK'
  <2>1. /\ pc' \in [Client -> Place] /\ pc'[c] = l /\ cmd' \in [Client -> Command \cup {"none"}]
        /\ \A d \in Client \ {c} : pc'[d] = pc[d]
    BY <1>1, GotoMoves
  <2>2. \A d \in Client : pc'[d] \in {"write", "sigterm", "wait"} => pid'[d] \in Pid
    BY <1>0, <1>1, <2>1
  <2>q. QED BY <1>0, <1>1, <2>1, <2>2 DEF TypeOK
<1>2. CASE Asks(c)
  BY <1>0, <1>1, <1>2, AsksLeaves DEF units, Mishaps
<1>3. CASE Popen(c)
  <2>1. PICK p \in Pid :
          /\ proc' = [proc EXCEPT ![p] = "recorder"] /\ parent' = [parent EXCEPT ![p] = c]
          /\ pid' = [pid EXCEPT ![c] = p]
    BY <1>3 DEF Popen
  <2>2. Goto(c, "write") /\ "write" \in Place /\ UNCHANGED <<pidfile, units, mishaps>>
    BY <1>3 DEF Popen, Place
  <2>3. /\ pc' \in [Client -> Place] /\ pc'[c] = "write" /\ cmd' \in [Client -> Command \cup {"none"}]
        /\ \A d \in Client \ {c} : pc'[d] = pc[d]
    BY <2>2, GotoMoves
  <2>4. /\ proc' \in [Pid -> ProcState]
        /\ parent' \in [Pid -> Client \cup {Nobody}] /\ pid' \in [Client -> Pid \cup {NoPid}]
    BY <1>0, <2>1 DEF ProcState
  <2>5. \A d \in Client : pc'[d] \in {"write", "sigterm", "wait"} => pid'[d] \in Pid
    BY <1>0, <2>1, <2>3
  <2>q. QED BY <1>0, <2>2, <2>3, <2>4, <2>5 DEF TypeOK, units
<1>4. CASE WritePidfile(c)
  <2>1. /\ pidfile' = pid[c] /\ pid' = [pid EXCEPT ![c] = NoPid] /\ Goto(c, "bind") /\ "bind" \in Place
        /\ UNCHANGED <<proc, parent, units, mishaps>>
    BY <1>4 DEF WritePidfile, Place
  <2>2. /\ pc' \in [Client -> Place] /\ pc'[c] = "bind" /\ cmd' \in [Client -> Command \cup {"none"}]
        /\ \A d \in Client \ {c} : pc'[d] = pc[d]
    BY <2>1, GotoMoves
  <2>3. pidfile' \in Pid \cup {NoPid} /\ pid' \in [Client -> Pid \cup {NoPid}]
    BY <1>0, <2>1
  <2>4. \A d \in Client : pc'[d] \in {"write", "sigterm", "wait"} => pid'[d] \in Pid
    BY <1>0, <2>1, <2>2
  <2>q. QED BY <1>0, <2>1, <2>2, <2>3, <2>4 DEF TypeOK, units
<1>5. CASE StopCheck(c)
  <2>1. /\ pid' = [pid EXCEPT ![c] = RunningPid]
        /\ Goto(c, IF RunningPid = NoPid THEN "remove" ELSE "sigterm")
        /\ UNCHANGED <<proc, parent, pidfile, units, mishaps>>
    BY <1>5 DEF StopCheck
  <2>2. (IF RunningPid = NoPid THEN "remove" ELSE "sigterm") \in Place
    BY DEF Place
  <2>3. /\ pc' \in [Client -> Place] /\ cmd' \in [Client -> Command \cup {"none"}]
        /\ pc'[c] = IF RunningPid = NoPid THEN "remove" ELSE "sigterm"
        /\ \A d \in Client \ {c} : pc'[d] = pc[d]
    BY <2>1, <2>2, GotoMoves
  <2>4. pid' \in [Client -> Pid \cup {NoPid}] /\ (RunningPid # NoPid => RunningPid \in Pid)
    BY <1>0, <2>1, RunningIsPid
  <2>5. \A d \in Client : pc'[d] \in {"write", "sigterm", "wait"} => pid'[d] \in Pid
    BY <1>0, <2>1, <2>3, <2>4
  <2>q. QED BY <1>0, <2>1, <2>3, <2>4, <2>5 DEF TypeOK, units
<1>6. CASE Sigterm(c)
  <2>1. /\ proc' = [proc EXCEPT ![pid[c]] = Terminated(pid[c])] /\ Goto(c, "wait") /\ "wait" \in Place
        /\ pc[c] = "sigterm" /\ UNCHANGED <<parent, pidfile, units, pid, mishaps>>
    BY <1>6 DEF Sigterm, Place
  <2>2. /\ pc' \in [Client -> Place] /\ pc'[c] = "wait" /\ cmd' \in [Client -> Command \cup {"none"}]
        /\ \A d \in Client \ {c} : pc'[d] = pc[d]
    BY <2>1, GotoMoves
  <2>3. pid[c] \in Pid
    BY <1>0, <2>1
  <2>4. Terminated(pid[c]) \in ProcState
    BY <1>0, <2>3 DEF Terminated, ProcState
  <2>5. proc' \in [Pid -> ProcState]
    BY <1>0, <2>1, <2>4
  <2>6. \A d \in Client : pc'[d] \in {"write", "sigterm", "wait"} => pid'[d] \in Pid
    BY <1>0, <2>1, <2>2, <2>3
  <2>q. QED BY <1>0, <2>1, <2>2, <2>5, <2>6 DEF TypeOK, units
<1>7. CASE RemovePidfile(c)
  <2>1. /\ pidfile' = NoPid /\ pid' = [pid EXCEPT ![c] = NoPid]
        /\ Goto(c, IF cmd[c] = "down" THEN "idle" ELSE "install_recorder")
        /\ UNCHANGED <<proc, parent, units, mishaps>>
    BY <1>7 DEF RemovePidfile
  <2>2. (IF cmd[c] = "down" THEN "idle" ELSE "install_recorder") \in Place \ {"write", "sigterm", "wait"}
    BY DEF Place
  <2>3. /\ pc' \in [Client -> Place] /\ cmd' \in [Client -> Command \cup {"none"}]
        /\ pc'[c] \notin {"write", "sigterm", "wait"}
        /\ \A d \in Client \ {c} : pc'[d] = pc[d]
    BY <2>1, <2>2, GotoMoves
  <2>4. pid' \in [Client -> Pid \cup {NoPid}]
    BY <1>0, <2>1
  <2>5. \A d \in Client : pc'[d] \in {"write", "sigterm", "wait"} => pid'[d] \in Pid
    BY <1>0, <2>1, <2>3
  <2>q. QED BY <1>0, <2>1, <2>3, <2>4, <2>5 DEF TypeOK, units
<1>8. CASE InstallRecorder(c)
  <2>1. recUnit' \in UnitState
    BY <1>0, <1>8, InstalledTypes DEF InstallRecorder, UnitState
  <2>2. \E l \in Place \ {"write", "sigterm", "wait"} : Goto(c, l)
    BY <1>8 DEF InstallRecorder, Place
  <2>3. UNCHANGED <<proc, parent, pidfile, manager, uiUnit, pid, mishaps>>
    BY <1>8 DEF InstallRecorder
  <2>q. QED BY <1>0, <1>1, <2>1, <2>2, <2>3
<1>9. CASE InstallUI(c) \/ TeardownUI(c) \/ UninstallRecorder(c)
  <2>1. recUnit' \in UnitState /\ uiUnit' \in UnitState
    BY <1>0, <1>9, InstalledTypes DEF InstallUI, TeardownUI, UninstallRecorder, UnitState
  <2>2. \E l \in Place \ {"write", "sigterm", "wait"} : Goto(c, l)
    BY <1>9 DEF InstallUI, TeardownUI, UninstallRecorder, Place, Command
  <2>3. UNCHANGED <<proc, parent, pidfile, manager, pid, mishaps>>
    BY <1>9 DEF InstallUI, TeardownUI, UninstallRecorder
  <2>q. QED BY <1>0, <1>1, <2>1, <2>2, <2>3
<1>10. ASSUME Exit(c) PROVE TypeOK'
  <2>1. \A d \in Client : pc'[d] \in {"write", "sigterm", "wait"} => pid'[d] \in Pid
    BY <1>0, <1>10, ExitLeaves
  <2>q. QED BY <1>0, <1>10, <2>1, ExitLeaves DEF TypeOK, units
<1>11. CASE Bind(c)
  <2>1. Goto(c, "serving") /\ UNCHANGED <<proc, parent, pidfile, units, pid, mishaps>> => TypeOK'
    BY <1>0, <1>1 DEF units, Place
  <2>q. QED BY <1>10, <1>11, <2>1 DEF Bind
<1>12. CASE CtrlC(c)
  BY <1>10, <1>12 DEF CtrlC
<1>13. ASSUME NEW x \in Command, Begin(c, x) PROVE TypeOK'
  <2>1. /\ pc' = [pc EXCEPT ![c] = x] /\ cmd' = [cmd EXCEPT ![c] = x]
        /\ UNCHANGED <<proc, parent, pidfile, units, pid>>
        /\ mishaps' = mishaps \/ mishaps' = mishaps \cup {"overlap"}
    BY <1>13 DEF Begin, Mishap
  <2>2. x \in Place /\ x \notin {"write", "sigterm", "wait"}
    BY DEF Place, Command
  <2>3. pc' \in [Client -> Place] /\ cmd' \in [Client -> Command \cup {"none"}]
    BY <2>1, <2>2 DEF TypeOK
  <2>4. \A d \in Client : pc'[d] \in {"write", "sigterm", "wait"} => pid'[d] \in Pid
    BY <1>0, <2>1, <2>2 DEF TypeOK
  <2>q. QED BY <1>0, <2>1, <2>3, <2>4 DEF TypeOK, units, Mishaps
<1>14. CASE CutShort(c)
  <2>1. \A d \in Client : pc'[d] \in {"write", "sigterm", "wait"} => pid'[d] \in Pid
    BY <1>0, <1>14, CutLeaves
  <2>2. pidfile' \in Pid \cup {NoPid} /\ mishaps' \subseteq Mishaps
    <3>1. /\ pidfile' = pidfile \/ pidfile' = NoPid
          /\ mishaps' = mishaps \/ mishaps' = mishaps \cup {"cut"}
      BY <1>14, CutLeaves
    <3>q. QED BY <1>0, <3>1 DEF Mishaps
  <2>q. QED BY <1>0, <1>14, <2>1, <2>2, CutLeaves DEF TypeOK
<1>q. QED BY <1>2, <1>3, <1>4, <1>5, <1>6, <1>7, <1>8, <1>9, <1>11, <1>12, <1>13, <1>14 DEF Step, Asks

System ==
  \/ \E p \in Pid : RecorderExits(p) \/ RecorderCrashes(p) \/ OtherStarts(p)
  \/ UnitCrashes \/ RecorderUnitRestarts \/ UIUnitRestarts \/ SystemdGivesUp

LEMMA SystemLeaves ==
  ASSUME TypeOK, System
  PROVE  /\ TypeOK'
         /\ UNCHANGED <<pidfile, manager, pc, cmd, pid>>
         /\ mishaps \subseteq mishaps'
         /\ Managed' => Managed
         /\ \A p \in Pid : proc'[p] \in {"recorder", "stray", "dying"} => proc'[p] = proc[p]
         /\ NoFailure' => \A p \in Pid : proc[p] = "recorder" => proc'[p] = "recorder"
<1>1. ASSUME NEW p \in Pid, NEW s \in {"free", "zombie", "other"}, proc' = [proc EXCEPT ![p] = s],
             parent' = parent \/ parent' = [parent EXCEPT ![p] = Nobody],
             UNCHANGED <<pidfile, units, pc, cmd, pid>>,
             mishaps' = mishaps \/ mishaps' = mishaps \cup {"failure"}
      PROVE  /\ TypeOK' /\ mishaps \subseteq mishaps' /\ (Managed' => Managed)
             /\ UNCHANGED <<pidfile, manager, pc, cmd, pid>>
             /\ \A x \in Pid : proc'[x] \in {"recorder", "stray", "dying"} => proc'[x] = proc[x]
  <2>1. proc' \in [Pid -> ProcState]
    BY <1>1 DEF TypeOK, ProcState
  <2>2. parent' \in [Pid -> Client \cup {Nobody}]
    BY <1>1 DEF TypeOK
  <2>3. mishaps' \subseteq Mishaps
    BY <1>1 DEF TypeOK, Mishaps
  <2>4. TypeOK'
    BY <1>1, <2>1, <2>2, <2>3 DEF TypeOK, units
  <2>5. \A x \in Pid : proc'[x] \in {"recorder", "stray", "dying"} => proc'[x] = proc[x]
    BY <1>1 DEF TypeOK
  <2>q. QED BY <1>1, <2>4, <2>5 DEF units, Managed
<1>2. ASSUME NEW p \in Pid, RecorderExits(p) \/ RecorderCrashes(p) \/ OtherStarts(p)
      PROVE  /\ TypeOK' /\ mishaps \subseteq mishaps' /\ (Managed' => Managed)
             /\ UNCHANGED <<pidfile, manager, pc, cmd, pid>>
             /\ \A x \in Pid : proc'[x] \in {"recorder", "stray", "dying"} => proc'[x] = proc[x]
             /\ NoFailure' => \A x \in Pid : proc[x] = "recorder" => proc'[x] = "recorder"
  <2>1. \E s \in {"free", "zombie", "other"} : proc' = [proc EXCEPT ![p] = s]
    BY <1>2 DEF RecorderExits, RecorderCrashes, OtherStarts, Ended
  <2>2. /\ parent' = parent \/ parent' = [parent EXCEPT ![p] = Nobody]
        /\ UNCHANGED <<pidfile, units, pc, cmd, pid>>
        /\ mishaps' = mishaps \/ mishaps' = mishaps \cup {"failure"}
    BY <1>2 DEF RecorderExits, RecorderCrashes, OtherStarts, Mishap
  <2>3. NoFailure' => proc[p] # "recorder"
    BY <1>2 DEF RecorderExits, RecorderCrashes, OtherStarts, Mishap, NoFailure
  <2>4. NoFailure' => \A x \in Pid : proc[x] = "recorder" => proc'[x] = "recorder"
    BY <2>1, <2>3 DEF TypeOK
  <2>q. QED BY <1>1, <2>1, <2>2, <2>4
<1>3. ASSUME UnitCrashes \/ RecorderUnitRestarts \/ UIUnitRestarts \/ SystemdGivesUp
      PROVE  /\ TypeOK' /\ mishaps \subseteq mishaps' /\ (Managed' => Managed)
             /\ UNCHANGED <<proc, pidfile, manager, pc, cmd, pid>>
  <2>1. UNCHANGED <<proc, parent, pidfile, manager, pc, cmd, pid, mishaps>>
    BY <1>3 DEF UnitCrashes, RecorderUnitRestarts, UIUnitRestarts, SystemdGivesUp
  <2>2. recUnit' \in UnitState /\ uiUnit' \in UnitState /\ (Managed' => Managed)
    BY <1>3 DEF UnitCrashes, RecorderUnitRestarts, UIUnitRestarts, SystemdGivesUp, TypeOK, UnitState, Managed
  <2>q. QED BY <2>1, <2>2 DEF TypeOK
<1>q. QED BY <1>2, <1>3 DEF System

LEMMA RebootTypes == TypeOK /\ Reboot => TypeOK'
BY DEF TypeOK, Reboot, Mishap, Mishaps, UnitState, Place, ProcState

LEMMA LoginTypes == TypeOK /\ Login => TypeOK'
BY DEF TypeOK, Login, Mishap, Mishaps, UnitState

LEMMA TypeStep ==
  ASSUME TypeOK, [Next]_vars
  PROVE  TypeOK'
<1>1. CASE UNCHANGED vars
  BY <1>1 DEF vars, units, TypeOK
<1>q. QED BY <1>1, ClientTypes, SystemLeaves, RebootTypes, LoginTypes DEF Next, System

-----------------------------------------------------------------------------
(* One command at a time. *)

(* A step of a command is of a client that is not at rest, or ends its UI.   *)
LEMMA ClientMoves ==
  ASSUME TypeOK, NEW c \in Client, Step(c) \/ CtrlC(c) \/ CutShort(c)
  PROVE  /\ \A d \in Client \ {c} : pc'[d] = pc[d] /\ pid'[d] = pid[d]
         /\ mishaps \subseteq mishaps'
         /\ CtrlC(c) \/ CutShort(c) => pc'[c] = "idle"
         /\ Step(c) => ~AtRest(c)
<1>0. pc \in [Client -> Place] /\ pid \in [Client -> Pid \cup {NoPid}]
  BY DEF TypeOK
<1>1. Step(c) => ~AtRest(c)
  BY DEF Step, AtRest, UpAsksUI, UpAsksRecorder, Start, Popen, StartFails, WritePidfile, Bind, Down, Setup,
         StopCheck, Sigterm, Wait, RemovePidfile, InstallFails, InstallRecorder, InstallUI, TeardownUI,
         UninstallRecorder
<1>2. Step(c) \/ CtrlC(c) => \A d \in Client \ {c} : pc'[d] = pc[d]
  BY <1>0 DEF Step, CtrlC, Goto, Exit, UpAsksUI, UpAsksRecorder, Start, Popen, StartFails, WritePidfile, Bind,
              Down, Setup, StopCheck, Sigterm, Wait, RemovePidfile, InstallFails, InstallRecorder, InstallUI,
              TeardownUI, UninstallRecorder
<1>3. Step(c) \/ CtrlC(c) => \A d \in Client \ {c} : pid'[d] = pid[d]
  BY <1>0 DEF Step, CtrlC, Exit, UpAsksUI, UpAsksRecorder, Start, Popen, StartFails, WritePidfile, Bind,
              Down, Setup, StopCheck, Sigterm, Wait, RemovePidfile, InstallFails, InstallRecorder, InstallUI,
              TeardownUI, UninstallRecorder
<1>4. Step(c) \/ CtrlC(c) => mishaps \subseteq mishaps'
  BY DEF Step, CtrlC, Exit, UpAsksUI, UpAsksRecorder, Start, Popen, StartFails, WritePidfile, Bind,
         Down, Setup, StopCheck, Sigterm, Wait, RemovePidfile, InstallFails, InstallRecorder, InstallUI,
         TeardownUI, UninstallRecorder, Mishap
<1>5. CtrlC(c) => pc'[c] = "idle"
  BY <1>0 DEF CtrlC, Exit, Goto
<1>6. CASE CutShort(c)
  BY <1>1, <1>5, <1>6, CutLeaves
<1>q. QED BY <1>1, <1>2, <1>3, <1>4, <1>5, <1>6

LEMMA MishapsGrow == TypeOK /\ [Next]_vars => mishaps \subseteq mishaps'
<1> SUFFICES ASSUME TypeOK, [Next]_vars PROVE mishaps \subseteq mishaps'
  OBVIOUS
<1>1. ASSUME NEW c \in Client, NEW x \in Command, Begin(c, x) PROVE mishaps \subseteq mishaps'
  BY <1>1 DEF Begin, Mishap
<1>2. Login \/ Reboot \/ UNCHANGED vars => mishaps \subseteq mishaps'
  BY DEF Login, Reboot, Mishap, vars
<1>q. QED BY <1>1, <1>2, ClientMoves, SystemLeaves DEF Next, System

LEMMA SerialStep ==
  ASSUME TypeOK, SerialInv, [Next]_vars
  PROVE  SerialInv'
<1> SUFFICES ASSUME Serial' PROVE \A c, d \in Client : ~(AtRest(c))' /\ ~(AtRest(d))' => c = d
  BY DEF SerialInv
<1>1. mishaps \subseteq mishaps' /\ Serial
  BY MishapsGrow DEF Serial
<1>2. \A c, d \in Client : ~AtRest(c) /\ ~AtRest(d) => c = d
  BY <1>1 DEF SerialInv
<1>3. ASSUME \A c \in Client : ~(AtRest(c))' => ~AtRest(c)
      PROVE  \A c, d \in Client : ~(AtRest(c))' /\ ~(AtRest(d))' => c = d
  BY <1>2, <1>3
<1>4. ASSUME NEW c \in Client, Step(c) \/ CtrlC(c) \/ CutShort(c)
      PROVE  \A d \in Client : ~(AtRest(d))' => ~AtRest(d)
  BY <1>4, ClientMoves DEF AtRest
<1>5. ASSUME NEW c \in Client, NEW x \in Command, Begin(c, x)
      PROVE  \A a, d \in Client : ~(AtRest(a))' /\ ~(AtRest(d))' => a = d
  <2>1. \A d \in Client : AtRest(d)
    BY <1>5 DEF Begin, Mishap, Serial
  <2>2. \A d \in Client \ {c} : pc'[d] = pc[d]
    BY <1>5 DEF Begin, TypeOK
  <2>q. QED BY <2>1, <2>2 DEF AtRest
<1>6. CASE System \/ UNCHANGED vars
  BY <1>3, <1>6, SystemLeaves DEF vars, AtRest
<1>7. CASE Login \/ Reboot
  BY <1>7 DEF Login, Reboot, AtRest
<1>q. QED BY <1>3, <1>4, <1>5, <1>6, <1>7 DEF Next, System

-----------------------------------------------------------------------------
(* One writer. *)

(* The places where WriterInv says something of a command.                  *)
Placed == {"start", "popen", "write", "remove", "install_recorder", "sigterm", "wait"}

(* Steps that start no recorder, nor make for one.                          *)
Quiet ==
  /\ \A p \in Pid : proc'[p] \in {"recorder", "stray", "dying"} => proc'[p] = proc[p]
  /\ pidfile' = pidfile /\ pid' = pid
  /\ Managed' => Managed
  /\ \A c \in Client : pc'[c] = pc[c] \/ (pc[c] # "write" /\ pc'[c] \notin Placed)

LEMMA QuietKeeps ==
  ASSUME WriterInv, Quiet, mishaps \subseteq mishaps'
  PROVE  WriterInv'
<1> SUFFICES ASSUME (Serial /\ InTime)' PROVE WriterInv'
  BY DEF WriterInv
<1>0. Serial /\ InTime
  BY DEF Serial, InTime
<1>1. Recording' \subseteq Recording
  BY DEF Quiet, Recording
<1>2. (NoLogin /\ Managed => Recording = {})'
  <2>1. NoLogin' => NoLogin
    BY DEF NoLogin
  <2>q. QED BY <1>0, <1>1, <2>1 DEF WriterInv, Quiet
<1>3. (\A c \in Client : pc'[c] # "write") => Recording' \subseteq {pidfile'}
  BY <1>0, <1>1 DEF WriterInv, Quiet
<1>4. ASSUME NEW c \in Client
      PROVE  /\ pc'[c] \in {"start", "popen", "write"} => ~Managed'
             /\ pc'[c] \in {"popen", "remove", "install_recorder"} => Recording' = {}
             /\ pc'[c] = "write" => Recording' \subseteq {pid'[c]} /\ \A p \in Pid : proc'[p] # "dying"
             /\ pc'[c] \in {"sigterm", "wait"} => pid'[c] = pidfile'
             /\ pc'[c] = "wait" => \A p \in Pid : proc'[p] # "recorder"
  <2>1. CASE pc'[c] \notin Placed
    BY <2>1 DEF Placed
  <2>2. CASE pc'[c] = pc[c]
    <3>1. /\ pc[c] \in {"start", "popen", "write"} => ~Managed'
          /\ pc[c] \in {"popen", "remove", "install_recorder"} => Recording' = {}
          /\ pc[c] = "write" => Recording' \subseteq {pid'[c]} /\ \A p \in Pid : proc'[p] # "dying"
      BY <1>0, <1>1 DEF WriterInv, Quiet
    <3>2. /\ pc[c] \in {"sigterm", "wait"} => pid'[c] = pidfile'
          /\ pc[c] = "wait" => \A p \in Pid : proc'[p] # "recorder"
      BY <1>0 DEF WriterInv, Quiet
    <3>q. QED BY <2>2, <3>1, <3>2
  <2>q. QED BY <2>1, <2>2 DEF Quiet
<1>q. QED BY <1>2, <1>3, <1>4 DEF WriterInv

(* What WriterInv comes to when one command is under way.                    *)
LEMMA AloneKeeps ==
  ASSUME TypeOK, SerialInv, NEW c \in Client, Step(c), mishaps \subseteq mishaps',
         /\ Serial /\ InTime /\ (Serial /\ InTime)' =>
              /\ (NoLogin /\ Managed)' => Recording' = {}
              /\ pc'[c] # "write" => Recording' \subseteq {pidfile'}
              /\ pc'[c] \in {"start", "popen", "write"} => ~Managed'
              /\ pc'[c] \in {"popen", "remove", "install_recorder"} => Recording' = {}
              /\ pc'[c] = "write" => Recording' \subseteq {pid'[c]} /\ \A p \in Pid : proc'[p] # "dying"
              /\ pc'[c] \in {"sigterm", "wait"} => pid'[c] = pidfile'
              /\ pc'[c] = "wait" => \A p \in Pid : proc'[p] # "recorder"
  PROVE  WriterInv'
<1> SUFFICES ASSUME (Serial /\ InTime)' PROVE WriterInv'
  BY DEF WriterInv
<1>0. Serial /\ InTime
  BY DEF Serial, InTime
<1>1. \A d \in Client \ {c} : pc'[d] \in {"idle", "serving"}
  BY <1>0, ClientMoves DEF SerialInv, AtRest
<1>q. QED BY <1>0, <1>1 DEF WriterInv

LEMMA QuietSteps ==
  ASSUME TypeOK, [Next]_vars, ~Login, ~Reboot, \A c \in Client : ~CutShort(c)
  PROVE  \/ Quiet
         \/ \E c \in Client : UpAsksRecorder(c) \/ Start(c) \/ Popen(c) \/ WritePidfile(c) \/ StopCheck(c)
                              \/ Sigterm(c) \/ Wait(c) \/ RemovePidfile(c) \/ InstallRecorder(c)
<1>1. ASSUME System \/ UNCHANGED vars PROVE Quiet
  <2>1. CASE System
    BY <2>1, SystemLeaves DEF Quiet
  <2>2. CASE UNCHANGED vars
    BY <2>2 DEF Quiet, vars, units, Managed
  <2>q. QED BY <1>1, <2>1, <2>2
<1>2. ASSUME NEW c \in Client, NEW l \in {"up_recorder", "idle", "serving", "stop", "install_ui", "uninstall"} \cup Command,
             pc' = [pc EXCEPT ![c] = l], pc[c] # "write",
             UNCHANGED <<proc, pidfile, pid>>, Managed' => Managed
      PROVE  Quiet
  <2>1. l \notin Placed
    BY DEF Placed, Command
  <2>2. \A d \in Client : pc'[d] = pc[d] \/ (pc[d] # "write" /\ pc'[d] \notin Placed)
    BY <1>2, <2>1 DEF TypeOK
  <2>q. QED BY <1>2, <2>2 DEF Quiet
<1>3. ASSUME NEW c \in Client, NEW x \in Command, Begin(c, x) PROVE Quiet
  BY <1>2, <1>3 DEF Begin, units, Managed
<1>4. ASSUME NEW c \in Client, UpAsksUI(c) \/ StartFails(c) \/ Down(c) \/ Setup(c) \/ InstallFails(c) PROVE Quiet
  BY <1>2, <1>4 DEF UpAsksUI, StartFails, Down, Setup, InstallFails, Goto, units, Managed
<1>5. ASSUME NEW c \in Client, InstallUI(c) \/ TeardownUI(c) \/ UninstallRecorder(c) PROVE Quiet
  <2>1. Managed' => Managed
    BY <1>5 DEF InstallUI, TeardownUI, UninstallRecorder, Managed
  <2>q. QED BY <1>2, <1>5, <2>1 DEF InstallUI, TeardownUI, UninstallRecorder, Goto
<1>6. ASSUME NEW c \in Client, Exit(c), pc[c] # "write" PROVE Quiet
  <2>1. \A p \in Pid : proc'[p] \in {"recorder", "stray", "dying"} => proc'[p] = proc[p]
    BY <1>6, ExitLeaves
  <2>2. \A d \in Client : pc'[d] = pc[d] \/ (pc[d] # "write" /\ pc'[d] \notin Placed)
    BY <1>6, ExitLeaves DEF Placed
  <2>q. QED BY <1>6, <2>1, <2>2, ExitLeaves DEF Quiet, units, Managed
<1>7. ASSUME NEW c \in Client, Bind(c) \/ CtrlC(c) PROVE Quiet
  <2>1. CASE Exit(c)
    BY <1>6, <1>7, <2>1 DEF Bind, CtrlC
  <2>2. CASE ~Exit(c)
    BY <1>2, <1>7, <2>2 DEF Bind, CtrlC, Goto, units, Managed
  <2>q. QED BY <2>1, <2>2
<1>q. QED BY <1>1, <1>3, <1>4, <1>5, <1>7 DEF Next, System, Step

LEMMA WriterStep ==
  ASSUME TypeOK, SerialInv, StrayInv, WriterInv, [Next]_vars
  PROVE  WriterInv'
<1>0. mishaps \subseteq mishaps'
  BY MishapsGrow
<1>1. CASE Quiet
  BY <1>0, <1>1, QuietKeeps
<1>2. CASE Reboot
  <2>1. Recording' = {} /\ \A c \in Client : pc'[c] = "idle"
    BY <1>2 DEF Reboot, Recording
  <2>q. QED BY <2>1 DEF WriterInv
<1>13. CASE Login
  <2>1. /\ UNCHANGED <<proc, pidfile, pc, pid>> /\ \A c \in Client : pc[c] = "idle"
        /\ NoLogin' /\ Managed' => Recording = {}
    BY <1>13 DEF Login, Mishap, NoLogin, Managed
  <2>2. (Serial /\ InTime)' => Serial /\ InTime
    BY <1>0 DEF Serial, InTime
  <2>q. QED BY <2>1, <2>2 DEF WriterInv, Recording
<1> DEFINE Now(c) ==
      /\ NoLogin /\ Managed => Recording = {}
      /\ pc[c] # "write" => Recording \subseteq {pidfile}
      /\ pc[c] \in {"start", "popen", "write"} => ~Managed
      /\ pc[c] \in {"popen", "remove", "install_recorder"} => Recording = {}
      /\ pc[c] = "write" => Recording \subseteq {pid[c]} /\ \A p \in Pid : proc[p] # "dying"
      /\ pc[c] \in {"sigterm", "wait"} => pid[c] = pidfile
      /\ pc[c] = "wait" => \A p \in Pid : proc[p] # "recorder"
<1>3. ASSUME NEW c \in Client, Step(c), Serial, InTime
      PROVE  Now(c)
  <2>1. ~AtRest(c)
    BY <1>3, ClientMoves
  <2>2. \A d \in Client \ {c} : pc[d] # "write"
    BY <1>3, <2>1 DEF SerialInv, AtRest
  <2>q. QED BY <1>3, <2>2 DEF WriterInv
<1>n. NoLogin' => NoLogin
  BY <1>0 DEF NoLogin
<1>4. ASSUME NEW c \in Client, UpAsksRecorder(c) PROVE WriterInv'
  <2>0. Step(c)
    BY <1>4 DEF Step
  <2>1. /\ pc[c] = "up_recorder" /\ UNCHANGED <<proc, parent, pidfile, units, pid>>
        /\ pc'[c] = IF ServiceActive(recUnit) THEN "bind" ELSE "start"
    BY <1>4 DEF UpAsksRecorder, Goto, TypeOK
  <2>2. InTime' => ServiceActive(recUnit) \/ recUnit # "restarting"
    BY <1>4 DEF UpAsksRecorder, InTime, Mishap
  <2>3. InTime' /\ ~ServiceActive(recUnit) => ~Managed
    BY <2>2 DEF ServiceActive, Managed
  <2>4. (Managed' <=> Managed) /\ Recording' = Recording
    BY <2>1 DEF units, Managed, Recording
  <2>5. Serial /\ InTime => Now(c)
    BY <1>3, <2>0
  <2>q. QED BY <1>0, <1>n, <2>0, <2>1, <2>3, <2>4, <2>5, AloneKeeps
<1>5. ASSUME NEW c \in Client, Start(c) PROVE WriterInv'
  <2>0. Step(c)
    BY <1>5 DEF Step
  <2>1. /\ pc[c] = "start" /\ UNCHANGED <<proc, parent, pidfile, units, pid>>
        /\ pc'[c] = IF RunningPid # NoPid THEN "bind" ELSE "popen"
    BY <1>5 DEF Start, Goto, TypeOK
  <2>2. (Managed' <=> Managed) /\ Recording' = Recording
    BY <2>1 DEF units, Managed, Recording
  <2>3. RunningPid = NoPid /\ Recording \subseteq {pidfile} => Recording = {}
    BY RunningIsPid, ServiceAssumption DEF Recording
  <2>4. Serial /\ InTime => Now(c)
    BY <1>3, <2>0
  <2>q. QED BY <1>0, <1>n, <2>0, <2>1, <2>2, <2>3, <2>4, AloneKeeps
<1>6. ASSUME NEW c \in Client, Popen(c) PROVE WriterInv'
  <2>0. Step(c)
    BY <1>6 DEF Step
  <2>1. PICK p \in Pid : proc' = [proc EXCEPT ![p] = "recorder"] /\ pid' = [pid EXCEPT ![c] = p]
    BY <1>6 DEF Popen
  <2>2. pc[c] = "popen" /\ pc'[c] = "write" /\ UNCHANGED <<pidfile, units>>
    BY <1>6 DEF Popen, Goto, TypeOK
  <2>3. pid'[c] = p /\ Recording' \subseteq Recording \cup {p} /\ proc'[p] = "recorder"
    BY <2>1 DEF TypeOK, Recording
  <2>4. Managed' <=> Managed
    BY <2>2 DEF units, Managed
  <2>6. Recording = {} => \A x \in Pid : proc'[x] # "dying"
    BY <2>1 DEF TypeOK, Recording
  <2>5. Serial /\ InTime => Now(c)
    BY <1>3, <2>0
  <2>q. QED BY <1>0, <1>n, <2>0, <2>2, <2>3, <2>4, <2>5, <2>6, AloneKeeps
<1>7. ASSUME NEW c \in Client, WritePidfile(c) PROVE WriterInv'
  <2>0. Step(c)
    BY <1>7 DEF Step
  <2>1. pc[c] = "write" /\ pc'[c] = "bind" /\ pidfile' = pid[c] /\ UNCHANGED <<proc, units>>
    BY <1>7 DEF WritePidfile, Goto, TypeOK
  <2>2. (Managed' <=> Managed) /\ Recording' = Recording
    BY <2>1 DEF units, Managed, Recording
  <2>3. Serial /\ InTime => Now(c)
    BY <1>3, <2>0
  <2>q. QED BY <1>0, <1>n, <2>0, <2>1, <2>2, <2>3, AloneKeeps
<1>8. ASSUME NEW c \in Client, StopCheck(c) PROVE WriterInv'
  <2>0. Step(c)
    BY <1>8 DEF Step
  <2>1. /\ pc[c] = "stop" /\ UNCHANGED <<proc, pidfile, units>> /\ pid'[c] = RunningPid
        /\ pc'[c] = IF RunningPid = NoPid THEN "remove" ELSE "sigterm"
    BY <1>8 DEF StopCheck, Goto, TypeOK
  <2>2. (Managed' <=> Managed) /\ Recording' = Recording
    BY <2>1 DEF units, Managed, Recording
  <2>3. RunningPid = NoPid /\ Recording \subseteq {pidfile} => Recording = {}
    BY RunningIsPid, ServiceAssumption DEF Recording
  <2>4. RunningPid # NoPid => RunningPid = pidfile
    BY RunningIsPid
  <2>5. Serial /\ InTime => Now(c)
    BY <1>3, <2>0
  <2>q. QED BY <1>0, <1>n, <2>0, <2>1, <2>2, <2>3, <2>4, <2>5, AloneKeeps
<1>9. ASSUME NEW c \in Client, Sigterm(c) PROVE WriterInv'
  <2>0. Step(c)
    BY <1>9 DEF Step
  <2>1. /\ pc[c] = "sigterm" /\ pc'[c] = "wait" /\ UNCHANGED <<pidfile, units, pid>>
        /\ proc' = [proc EXCEPT ![pid[c]] = Terminated(pid[c])]
    BY <1>9 DEF Sigterm, Goto, TypeOK
  <2>2. pid[c] \in Pid
    BY <2>1 DEF TypeOK
  <2>3. /\ Terminated(pid[c]) # "recorder"
        /\ Serial /\ Terminated(pid[c]) = "dying" => proc[pid[c]] \in {"recorder", "dying"}
    BY <2>1, <2>2 DEF Terminated, TypeOK, ProcState, StrayInv
  <2>4. /\ proc'[pid[c]] = Terminated(pid[c])
        /\ \A p \in Pid \ {pid[c]} : proc'[p] = proc[p]
    BY <2>1, <2>2 DEF TypeOK
  <2>5. Serial => Recording' \subseteq Recording
    BY <2>2, <2>3, <2>4 DEF Recording
  <2>6. Recording \subseteq {pid[c]} => \A p \in Pid : proc'[p] # "recorder"
    BY <2>2, <2>3, <2>4 DEF Recording
  <2>7. Managed' <=> Managed
    BY <2>1 DEF units, Managed
  <2>8. Serial /\ InTime => Now(c)
    BY <1>3, <2>0
  <2>q. QED BY <1>0, <1>n, <2>0, <2>1, <2>5, <2>6, <2>7, <2>8, AloneKeeps
<1>10. ASSUME NEW c \in Client, Wait(c) PROVE WriterInv'
  <2>0. Step(c)
    BY <1>10 DEF Step
  <2>1. pc[c] = "wait" /\ pc'[c] = "remove" /\ UNCHANGED <<proc, pidfile, units, pid>>
    BY <1>10 DEF Wait, Goto, TypeOK
  <2>2. InTime' => proc[pid[c]] # "dying"
    BY <1>10 DEF Wait, InTime, Mishap
  <2>3. (Managed' <=> Managed) /\ Recording' = Recording
    BY <2>1 DEF units, Managed, Recording
  <2>4. Serial /\ InTime => Now(c)
    BY <1>3, <2>0
  <2>5. Now(c) /\ proc[pid[c]] # "dying" => Recording = {}
    BY <2>1 DEF Recording
  <2>q. QED BY <1>0, <1>n, <2>0, <2>1, <2>2, <2>3, <2>4, <2>5, AloneKeeps
<1>11. ASSUME NEW c \in Client, RemovePidfile(c) PROVE WriterInv'
  <2>0. Step(c)
    BY <1>11 DEF Step
  <2>1. pc[c] = "remove" /\ pc'[c] \in {"idle", "install_recorder"} /\ UNCHANGED <<proc, units>>
    BY <1>11 DEF RemovePidfile, Goto, TypeOK
  <2>2. (Managed' <=> Managed) /\ Recording' = Recording
    BY <2>1 DEF units, Managed, Recording
  <2>3. Serial /\ InTime => Now(c)
    BY <1>3, <2>0
  <2>q. QED BY <1>0, <1>n, <2>0, <2>1, <2>2, <2>3, AloneKeeps
<1>12. ASSUME NEW c \in Client, InstallRecorder(c) PROVE WriterInv'
  <2>0. Step(c)
    BY <1>12 DEF Step
  <2>1. /\ pc[c] = "install_recorder" /\ pc'[c] \in {"install_ui", "idle"}
        /\ UNCHANGED <<proc, pidfile, pid>>
    BY <1>12 DEF InstallRecorder, Goto, TypeOK
  <2>2. Recording' = Recording
    BY <2>1 DEF Recording
  <2>3. Serial /\ InTime => Now(c)
    BY <1>3, <2>0
  <2>q. QED BY <1>0, <1>n, <2>0, <2>1, <2>2, <2>3, AloneKeeps
<1>14. ASSUME NEW c \in Client, CutShort(c) PROVE WriterInv'
  <2> SUFFICES ASSUME (Serial /\ InTime)' PROVE WriterInv'
    BY DEF WriterInv
  <2>0. Serial /\ InTime
    BY <1>0 DEF Serial, InTime
  <2>1. \A d \in Client : pc'[d] \in {"idle", "serving"} /\ (d # c => pc[d] # "write")
    BY <1>14, <2>0, CutLeaves DEF SerialInv, AtRest
  <2>2. Recording' \subseteq Recording
    BY <1>14, CutLeaves DEF Recording
  <2>3. NoLogin /\ Managed => Recording = {}
    BY <2>0 DEF WriterInv
  <2>4. pc[c] = "install_recorder" => Recording = {}
    BY <2>0 DEF WriterInv
  <2>5. pc[c] # "install_recorder" => (Managed' => Managed)
    BY <1>14 DEF CutShort, HalfUninstalled, Managed
  <2>6. (NoLogin /\ Managed)' => Recording' = {}
    BY <1>n, <2>2, <2>3, <2>4, <2>5
  <2>7. Recording' \subseteq {pidfile'}
    <3>1. CASE pc[c] = "write"
      <4>1. Recording \subseteq {pid[c]} /\ \A p \in Pid : proc[p] # "dying"
        BY <2>0, <3>1 DEF WriterInv
      <4>2. pid[c] \in Pid
        BY <3>1 DEF TypeOK
      <4>3. pidfile' # pid[c] => pid[c] \notin Recording'
        BY <1>14, <3>1, <4>1, <4>2, CutLeaves DEF Recording, TypeOK, ProcState
      <4>q. QED BY <2>2, <4>1, <4>3
    <3>2. CASE pc[c] # "write"
      <4>1. Recording \subseteq {pidfile}
        BY <2>0, <2>1, <3>2 DEF WriterInv
      <4>2. pidfile' = pidfile
        BY <1>14, <3>2, CutLeaves
      <4>q. QED BY <2>2, <4>1, <4>2
    <3>q. QED BY <3>1, <3>2
  <2>q. QED BY <2>1, <2>6, <2>7 DEF WriterInv
<1>q. QED BY <1>1, <1>2, <1>4, <1>5, <1>6, <1>7, <1>8, <1>9, <1>10, <1>11, <1>12, <1>13, <1>14, QuietSteps

-----------------------------------------------------------------------------
(* Strays. *)

(* The stray was left by a `cg up` that is over, and its pid is not given    *)
(* again.                                                                    *)
LEMMA StrayStep ==
  ASSUME TypeOK, SerialInv, StrayInv, [Next]_vars
  PROVE  StrayInv'
<1> SUFFICES ASSUME Serial', NEW p \in Pid, proc'[p] = "stray"
             PROVE  /\ pidfile' # p
                    /\ \A c \in Client : pc'[c] \in {"write", "sigterm"} => pid'[c] # p
  BY DEF StrayInv
<1>0. Serial
  BY MishapsGrow DEF Serial
<1>1. proc[p] = "stray" => /\ pidfile # p
                           /\ \A c \in Client : pc[c] \in {"write", "sigterm"} => pid[c] # p
  BY <1>0 DEF StrayInv
<1>2. CASE UNCHANGED vars
  BY <1>1, <1>2 DEF vars
<1>3. CASE System
  BY <1>1, <1>3, SystemLeaves
<1>4. CASE Login
  BY <1>1, <1>4 DEF Login
<1>5. CASE Reboot
  BY <1>5 DEF Reboot
<1>6. ASSUME NEW c \in Client, CutShort(c)
      PROVE  /\ pidfile' # p
             /\ \A d \in Client : pc'[d] \in {"write", "sigterm"} => pid'[d] # p
  <2>1. \A d \in Client : pc'[d] \in {"idle", "serving"}
    BY <1>0, <1>6, CutLeaves DEF SerialInv, AtRest
  <2>2. p # NoPid
    BY ServiceAssumption
  <2>3. CASE proc[p] = "stray"
    BY <1>1, <1>6, <2>1, <2>2, <2>3, CutLeaves
  <2>4. CASE proc[p] # "stray"
    BY <1>6, <2>1, <2>4, CutLeaves
  <2>q. QED BY <2>3, <2>4
<1>7. ASSUME NEW c \in Client, Step(c) \/ CtrlC(c) \/ \E x \in Command : Begin(c, x)
      PROVE  /\ proc[p] = "stray"
             /\ pidfile' \in {pidfile, NoPid} \/ (pc[c] = "write" /\ pidfile' = pid[c])
             /\ \A d \in Client : pc'[d] \in {"write", "sigterm"} =>
                   \/ pc'[d] = pc[d] /\ pid'[d] = pid[d]
                   \/ pid'[d] = pidfile /\ pidfile # NoPid
                   \/ proc'[pid'[d]] = "recorder"
  <2>1. CASE Asks(c)
    <3>1. /\ UNCHANGED <<proc, pidfile, pid>>
          /\ \E l \in Place \ {"write", "sigterm", "wait"} : Goto(c, l)
      BY <2>1, AsksLeaves
    <3>q. QED BY <3>1, GotoMoves
  <2>2. CASE InstallRecorder(c) \/ InstallUI(c) \/ TeardownUI(c) \/ UninstallRecorder(c)
    <3>1. UNCHANGED <<proc, pidfile, pid>>
      BY <2>2 DEF InstallRecorder, InstallUI, TeardownUI, UninstallRecorder
    <3>2. \E l \in Place \ {"write", "sigterm", "wait"} : Goto(c, l)
      BY <2>2 DEF InstallRecorder, InstallUI, TeardownUI, UninstallRecorder, Place, Command
    <3>q. QED BY <3>1, <3>2, GotoMoves
  <2>3. CASE Popen(c)
    <3>1. PICK x \in Pid : proc' = [proc EXCEPT ![x] = "recorder"] /\ pid' = [pid EXCEPT ![c] = x]
      BY <2>3 DEF Popen
    <3>2. pidfile' = pidfile /\ Goto(c, "write") /\ "write" \in Place
      BY <2>3 DEF Popen, Place
    <3>3. proc[p] = "stray"
      BY <3>1 DEF TypeOK
    <3>4. pid'[c] = x /\ proc'[x] = "recorder" /\ \A d \in Client \ {c} : pid'[d] = pid[d]
      BY <3>1 DEF TypeOK
    <3>q. QED BY <3>2, <3>3, <3>4, GotoMoves
  <2>4. CASE WritePidfile(c)
    <3>1. /\ pc[c] = "write" /\ proc' = proc /\ pidfile' = pid[c] /\ pid' = [pid EXCEPT ![c] = NoPid]
          /\ Goto(c, "bind") /\ "bind" \in Place
      BY <2>4 DEF WritePidfile, Place
    <3>2. \A d \in Client \ {c} : pid'[d] = pid[d]
      BY <3>1 DEF TypeOK
    <3>q. QED BY <3>1, <3>2, GotoMoves
  <2>5. CASE StopCheck(c)
    <3>1. /\ pid' = [pid EXCEPT ![c] = RunningPid] /\ UNCHANGED <<proc, pidfile>>
          /\ Goto(c, IF RunningPid = NoPid THEN "remove" ELSE "sigterm")
      BY <2>5 DEF StopCheck
    <3>2. pid'[c] = RunningPid /\ \A d \in Client \ {c} : pid'[d] = pid[d]
      BY <3>1 DEF TypeOK
    <3>3. (IF RunningPid = NoPid THEN "remove" ELSE "sigterm") \in Place
      BY DEF Place
    <3>4. /\ pc'[c] = IF RunningPid = NoPid THEN "remove" ELSE "sigterm"
          /\ \A d \in Client \ {c} : pc'[d] = pc[d]
      BY <3>1, <3>3, GotoMoves
    <3>5. pc'[c] \in {"write", "sigterm"} => RunningPid = pidfile /\ pidfile # NoPid
      BY <3>4, RunningIsPid
    <3>q. QED BY <3>1, <3>2, <3>4, <3>5
  <2>6. CASE Sigterm(c)
    <3>1. /\ proc' = [proc EXCEPT ![pid[c]] = Terminated(pid[c])] /\ UNCHANGED <<pidfile, pid>>
          /\ Goto(c, "wait") /\ "wait" \in Place /\ pc[c] = "sigterm"
      BY <2>6 DEF Sigterm, Place
    <3>2. pid[c] \in Pid
      BY <3>1 DEF TypeOK
    <3>3. Terminated(pid[c]) # "stray"
      BY <3>2 DEF Terminated, TypeOK, ProcState
    <3>4. proc[p] = "stray"
      BY <3>1, <3>2, <3>3 DEF TypeOK
    <3>q. QED BY <3>1, <3>4, GotoMoves
  <2>7. CASE RemovePidfile(c)
    <3>1. /\ proc' = proc /\ pidfile' = NoPid /\ pid' = [pid EXCEPT ![c] = NoPid]
          /\ \E l \in Place \ {"write", "sigterm", "wait"} : Goto(c, l)
      BY <2>7 DEF RemovePidfile, Place
    <3>2. \A d \in Client \ {c} : pid'[d] = pid[d]
      BY <3>1 DEF TypeOK
    <3>q. QED BY <3>1, <3>2, GotoMoves
  <2>8. ASSUME Exit(c)
        PROVE  /\ proc[p] = "stray" /\ pidfile' = pidfile
               /\ \A d \in Client : pc'[d] \in {"write", "sigterm"} => pc'[d] = pc[d] /\ pid'[d] = pid[d]
    BY <2>8, ExitLeaves
  <2>9. CASE Bind(c) \/ CtrlC(c)
    <3>1. CASE Exit(c)
      BY <2>8, <3>1
    <3>2. CASE ~Exit(c)
      <4>1. UNCHANGED <<proc, pidfile, pid>> /\ Goto(c, "serving") /\ "serving" \in Place
        BY <2>9, <3>2 DEF Bind, CtrlC, Place
      <4>q. QED BY <4>1, GotoMoves
    <3>q. QED BY <3>1, <3>2
  <2>10. ASSUME NEW x \in Command, Begin(c, x)
         PROVE  /\ UNCHANGED <<proc, pidfile, pid>>
                /\ \A d \in Client : pc'[d] \in {"write", "sigterm"} => pc'[d] = pc[d]
    <3>1. pc' = [pc EXCEPT ![c] = x] /\ x \notin {"write", "sigterm"} /\ UNCHANGED <<proc, pidfile, pid>>
      BY <2>10 DEF Begin, Command
    <3>q. QED BY <3>1 DEF TypeOK
  <2>q. QED BY <1>7, <2>1, <2>2, <2>3, <2>4, <2>5, <2>6, <2>7, <2>9, <2>10 DEF Step, Asks
<1>8. ASSUME NEW c \in Client, Step(c) \/ CtrlC(c) \/ \E x \in Command : Begin(c, x)
      PROVE  /\ pidfile' # p
             /\ \A d \in Client : pc'[d] \in {"write", "sigterm"} => pid'[d] # p
  <2>1. p # NoPid
    BY ServiceAssumption
  <2>q. QED BY <1>1, <1>7, <1>8, <2>1
<1>q. QED BY <1>2, <1>3, <1>4, <1>5, <1>6, <1>8 DEF Next, System

-----------------------------------------------------------------------------
(* What the pidfile names. *)

(* The places where FileInv says something of a command.                    *)
Filed == {"write", "sigterm", "wait", "remove"}

(* Steps that touch neither the pidfile nor a recorder.                     *)
Aside ==
  /\ \A p \in Pid : proc[p] = "recorder" => proc'[p] = "recorder"
  /\ pidfile' = pidfile /\ pid' = pid
  /\ \A c \in Client : pc'[c] = pc[c] \/ (pc[c] \notin Filed /\ pc'[c] \notin Filed)

LEMMA AsideKeeps ==
  ASSUME TypeOK, FileInv, NoFailure' => Aside, mishaps \subseteq mishaps'
  PROVE  FileInv'
<1> SUFFICES ASSUME (Serial /\ NoFailure)' PROVE FileInv'
  BY DEF FileInv
<1>0. Serial /\ NoFailure /\ Aside
  BY DEF Serial, NoFailure
<1>1. /\ pidfile # NoPid => \/ proc[pidfile] = "recorder"
                            \/ \E c \in Client : pc[c] \in {"wait", "remove"} /\ pid[c] = pidfile
      /\ \A c \in Client : /\ pc[c] = "write" => proc[pid[c]] = "recorder"
                           /\ pc[c] = "sigterm" => pid[c] = pidfile
  BY <1>0 DEF FileInv
<1>2. pidfile # NoPid => pidfile \in Pid
  BY DEF TypeOK
<1>3. pidfile' # NoPid => \/ proc'[pidfile'] = "recorder"
                          \/ \E c \in Client : pc'[c] \in {"wait", "remove"} /\ pid'[c] = pidfile'
  <2>1. \A c \in Client : pc[c] \in {"wait", "remove"} => pc'[c] = pc[c]
    BY <1>0 DEF Aside, Filed
  <2>2. proc[pidfile] = "recorder" /\ pidfile \in Pid => proc'[pidfile] = "recorder"
    BY <1>0 DEF Aside
  <2>3. pidfile' = pidfile /\ pid' = pid
    BY <1>0 DEF Aside
  <2>q. QED BY <1>1, <1>2, <2>1, <2>2, <2>3
<1>4. ASSUME NEW c \in Client
      PROVE  /\ pc'[c] = "write" => proc'[pid'[c]] = "recorder"
             /\ pc'[c] = "sigterm" => pid'[c] = pidfile'
  <2>1. pc'[c] \in {"write", "sigterm"} => pc[c] = pc'[c]
    BY <1>0 DEF Aside, Filed
  <2>2. pc[c] = "write" => pid[c] \in Pid
    BY DEF TypeOK
  <2>q. QED BY <1>0, <1>1, <2>1, <2>2 DEF Aside
<1>q. QED BY <1>3, <1>4 DEF FileInv

LEMMA AsideSteps ==
  ASSUME TypeOK, [Next]_vars, ~Reboot, \A c \in Client : ~CutShort(c)
  PROVE  \/ NoFailure' => Aside
         \/ \E c \in Client : Popen(c) \/ WritePidfile(c) \/ StopCheck(c) \/ Sigterm(c) \/ Wait(c)
                              \/ RemovePidfile(c)
<1>1. ASSUME System \/ Login \/ UNCHANGED vars PROVE NoFailure' => Aside
  <2>1. CASE System
    BY <2>1, SystemLeaves DEF Aside
  <2>2. CASE Login \/ UNCHANGED vars
    BY <2>2 DEF Aside, Login, vars
  <2>q. QED BY <1>1, <2>1, <2>2
<1>2. ASSUME NEW c \in Client, NEW l, l \notin Filed, pc' = [pc EXCEPT ![c] = l], pc[c] \notin Filed,
             UNCHANGED <<proc, pidfile, pid>>
      PROVE  Aside
  BY <1>2 DEF Aside, TypeOK
<1>3. ASSUME NEW c \in Client, NEW x \in Command, Begin(c, x) PROVE Aside
  <2>1. x \notin Filed
    BY DEF Command, Filed
  <2>2. pc' = [pc EXCEPT ![c] = x] /\ pc[c] \notin Filed /\ UNCHANGED <<proc, pidfile, pid>>
    BY <1>3 DEF Begin, Filed
  <2>q. QED BY <1>2, <2>1, <2>2
<1>4. ASSUME NEW c \in Client,
             UpAsksUI(c) \/ UpAsksRecorder(c) \/ Start(c) \/ StartFails(c) \/ Down(c) \/ Setup(c) \/ InstallFails(c)
             \/ InstallRecorder(c) \/ InstallUI(c) \/ TeardownUI(c) \/ UninstallRecorder(c)
      PROVE  Aside
  <2>1. pc[c] \notin Filed /\ UNCHANGED <<proc, pidfile, pid>>
    BY <1>4 DEF UpAsksUI, UpAsksRecorder, Start, StartFails, Down, Setup, InstallFails,
                InstallRecorder, InstallUI, TeardownUI, UninstallRecorder, Filed
  <2>2. \E l \in {"idle", "up_recorder", "bind", "start", "popen", "stop", "install_ui", "uninstall"} :
          pc' = [pc EXCEPT ![c] = l]
    BY <1>4 DEF UpAsksUI, UpAsksRecorder, Start, StartFails, Down, Setup, InstallFails,
                InstallRecorder, InstallUI, TeardownUI, UninstallRecorder, Goto
  <2>q. QED BY <1>2, <2>1, <2>2 DEF Filed
<1>5. ASSUME NEW c \in Client, Exit(c), pc[c] \notin Filed PROVE Aside
  BY <1>5, ExitLeaves DEF Aside, Filed
<1>6. ASSUME NEW c \in Client, Bind(c) \/ CtrlC(c) PROVE Aside
  <2>1. pc[c] \notin Filed
    BY <1>6 DEF Bind, CtrlC, Filed
  <2>2. CASE Exit(c)
    BY <1>5, <2>1, <2>2
  <2>3. CASE ~Exit(c)
    <3>1. pc' = [pc EXCEPT ![c] = "serving"] /\ UNCHANGED <<proc, pidfile, pid>>
      BY <1>6, <2>3 DEF Bind, CtrlC, Goto
    <3>q. QED BY <1>2, <2>1, <3>1 DEF Filed
  <2>q. QED BY <2>2, <2>3
<1>q. QED BY <1>1, <1>3, <1>4, <1>6 DEF Next, System, Step

LEMMA FileStep ==
  ASSUME TypeOK, SerialInv, FileInv, [Next]_vars
  PROVE  FileInv'
<1>0. mishaps \subseteq mishaps'
  BY MishapsGrow
<1>1. CASE NoFailure' => Aside
  BY <1>0, <1>1, AsideKeeps
<1>2. CASE Reboot
  BY <1>2 DEF Reboot, Mishap, FileInv, NoFailure
<1> DEFINE Names == pidfile # NoPid =>
               \/ proc[pidfile] = "recorder"
               \/ \E c \in Client : pc[c] \in {"wait", "remove"} /\ pid[c] = pidfile
           Has(c) == /\ pc[c] = "write" => proc[pid[c]] = "recorder"
                     /\ pc[c] = "sigterm" => pid[c] = pidfile
           NamesNext == pidfile' # NoPid =>
               \/ proc'[pidfile'] = "recorder"
               \/ \E c \in Client : pc'[c] \in {"wait", "remove"} /\ pid'[c] = pidfile'
           HasNext(c) == /\ pc'[c] = "write" => proc'[pid'[c]] = "recorder"
                         /\ pc'[c] = "sigterm" => pid'[c] = pidfile'
<1>3. ASSUME NEW c \in Client, Step(c),
             (\A d \in Client \ {c} : pc[d] \in {"idle", "serving"}) /\ Names /\ Has(c) => NamesNext /\ HasNext(c)
      PROVE  FileInv'
  <2> SUFFICES ASSUME (Serial /\ NoFailure)' PROVE FileInv'
    BY DEF FileInv
  <2>0. Serial /\ NoFailure
    BY <1>0 DEF Serial, NoFailure
  <2>1. \A d \in Client \ {c} : pc[d] \in {"idle", "serving"} /\ pc'[d] = pc[d]
    BY <1>3, <2>0, ClientMoves DEF SerialInv, AtRest
  <2>2. Names /\ Has(c)
    BY <2>0 DEF FileInv
  <2>3. NamesNext /\ HasNext(c)
    BY <1>3, <2>1, <2>2
  <2>4. \A d \in Client : HasNext(d)
    BY <2>1, <2>3
  <2>q. QED BY <2>3, <2>4 DEF FileInv
<1>4. ASSUME NEW c \in Client, Popen(c) PROVE FileInv'
  <2>1. PICK p \in Pid : proc[p] = "free" /\ proc' = [proc EXCEPT ![p] = "recorder"] /\ pid' = [pid EXCEPT ![c] = p]
    BY <1>4 DEF Popen
  <2>2. pc[c] = "popen" /\ pc'[c] = "write" /\ pidfile' = pidfile
    BY <1>4 DEF Popen, Goto, TypeOK
  <2>3. proc'[p] = "recorder" /\ pid'[c] = p /\ \A x \in Pid : proc[x] = "recorder" => proc'[x] = "recorder"
    BY <2>1 DEF TypeOK
  <2>4. pidfile # NoPid => pidfile \in Pid
    BY DEF TypeOK
  <2>q. QED BY <1>3, <1>4, <2>2, <2>3, <2>4 DEF Step
<1>5. ASSUME NEW c \in Client, WritePidfile(c) PROVE FileInv'
  <2>1. pc[c] = "write" /\ pc'[c] = "bind" /\ pidfile' = pid[c] /\ proc' = proc
    BY <1>5 DEF WritePidfile, Goto, TypeOK
  <2>q. QED BY <1>3, <1>5, <2>1 DEF Step
<1>6. ASSUME NEW c \in Client, StopCheck(c) PROVE FileInv'
  <2>1. /\ pc[c] = "stop" /\ UNCHANGED <<proc, pidfile>> /\ pid'[c] = RunningPid
        /\ pc'[c] = IF RunningPid = NoPid THEN "remove" ELSE "sigterm"
    BY <1>6 DEF StopCheck, Goto, TypeOK
  <2>2. RunningPid # NoPid => RunningPid = pidfile
    BY RunningIsPid
  <2>q. QED BY <1>3, <1>6, <2>1, <2>2 DEF Step
<1>7. ASSUME NEW c \in Client, Sigterm(c) PROVE FileInv'
  <2>1. pc[c] = "sigterm" /\ pc'[c] = "wait" /\ UNCHANGED <<pidfile, pid>>
    BY <1>7 DEF Sigterm, Goto, TypeOK
  <2>q. QED BY <1>3, <1>7, <2>1 DEF Step
<1>8. ASSUME NEW c \in Client, Wait(c) PROVE FileInv'
  <2>1. pc[c] = "wait" /\ pc'[c] = "remove" /\ UNCHANGED <<proc, pidfile, pid>>
    BY <1>8 DEF Wait, Goto, TypeOK
  <2>q. QED BY <1>3, <1>8, <2>1 DEF Step
<1>9. ASSUME NEW c \in Client, RemovePidfile(c) PROVE FileInv'
  <2>1. pc'[c] \in {"idle", "install_recorder"} /\ pidfile' = NoPid
    BY <1>9 DEF RemovePidfile, Goto, TypeOK
  <2>q. QED BY <1>3, <1>9, <2>1 DEF Step
<1>10. ASSUME NEW c \in Client, CutShort(c) PROVE FileInv'
  <2> SUFFICES ASSUME (Serial /\ NoFailure)' PROVE FileInv'
    BY DEF FileInv
  <2>0. Serial /\ NoFailure
    BY <1>0 DEF Serial, NoFailure
  <2>1. \A d \in Client : pc'[d] \in {"idle", "serving"} /\ (d # c => pc[d] \in {"idle", "serving"})
    BY <1>10, <2>0, CutLeaves DEF SerialInv, AtRest
  <2>2. pc[c] \in {"wait", "remove"} => pid[c] = NoPid
    BY <1>10, CutLeaves DEF NoFailure
  <2>3. pidfile # NoPid => pidfile \in Pid /\ proc[pidfile] = "recorder"
    BY <2>0, <2>1, <2>2 DEF FileInv, TypeOK
  <2>4. pidfile' # NoPid => proc'[pidfile'] = "recorder"
    BY <1>10, <2>3, CutLeaves
  <2>q. QED BY <2>1, <2>4 DEF FileInv
<1>q. QED BY <1>1, <1>2, <1>4, <1>5, <1>6, <1>7, <1>8, <1>9, <1>10, AsideSteps

-----------------------------------------------------------------------------
(* The theorems. *)

(* The invariant of pidfile, processes, services and terminals holds for any *)
(* number of terminals and pids, wherever a command is cut short; each part  *)
(* has the mishaps it does not hold after (service.py, cli.py).              *)
THEOREM Invariance == Spec => []IInv
<1>1. Init => IInv
  <2> SUFFICES ASSUME Init PROVE IInv
    OBVIOUS
  <2>1. /\ \A p \in Pid : proc[p] = "free"
        /\ \A c \in Client : pc[c] = "idle"
        /\ pidfile = NoPid /\ recUnit = "absent"
    BY DEF Init
  <2>2. Recording = {} /\ ~Managed
    BY <2>1 DEF Recording, Managed
  <2>3. SerialInv /\ WriterInv /\ StrayInv /\ FileInv
    BY <2>1, <2>2 DEF SerialInv, AtRest, WriterInv, StrayInv, FileInv
  <2>q. QED BY <2>3, TypeInitially DEF IInv
<1>2. IInv /\ [Next]_vars => IInv'
  BY TypeStep, SerialStep, WriterStep, StrayStep, FileStep DEF IInv
<1>q. QED BY <1>1, <1>2, PTL DEF Spec

(* Every terminal is at a place of a command, and the pidfile, the processes *)
(* and the two services are of their types.                                  *)
THEOREM TypeCorrect == Spec => []TypeOK
<1>1. IInv => TypeOK
  BY DEF IInv
<1>q. QED BY Invariance, <1>1, PTL

(* "avoid two writers on the DB": commands one after the other, however many *)
(* terminals there are, whatever crashed and wherever one was cut short,     *)
(* leave at most one recorder that is not a stray; unless a recorder was     *)
(* late or a login started the login service beside a detached one.          *)
THEOREM OneWriterHolds == Spec => []OneWriter
<1>1. IInv => OneWriter
  <2> SUFFICES ASSUME IInv, Serial, InTime, NoLogin PROVE AtMostOneWriter
    BY DEF OneWriter, Serial, InTime, NoLogin
  <2>1. (Managed => Recording = {}) /\ \E x : Recording \subseteq {x}
    <3>1. CASE \A c \in Client : pc[c] # "write"
      BY <3>1 DEF IInv, WriterInv
    <3>2. CASE \E c \in Client : pc[c] = "write"
      BY <3>2 DEF IInv, WriterInv
    <3>q. QED BY <3>1, <3>2 DEF IInv, WriterInv
  <2>2. Cardinality(Recording) \in {0, 1} /\ (Recording = {} => Cardinality(Recording) = 0)
    <3>1. PICK x : Recording = {} \/ Recording = {x}
      BY <2>1
    <3>q. QED BY <3>1, FS_EmptySet, FS_Singleton
  <2>3. CASE Managed
    BY <2>1, <2>2, <2>3 DEF AtMostOneWriter
  <2>4. CASE ~Managed
    BY <2>2, <2>4 DEF AtMostOneWriter, Managed
  <2>q. QED BY <2>3, <2>4
<1>q. QED BY Invariance, <1>1, PTL

(* `cg down` and `cg setup` find the detached recorder that there is, if it  *)
(* is no stray, commands did not overlap and none was late.                  *)
THEOREM NoOrphanHolds == Spec => []NoOrphan
<1>1. IInv => NoOrphan
  <2> SUFFICES ASSUME IInv, Serial, InTime, \A c \in Client : AtRest(c) PROVE Recording \subseteq {pidfile}
    BY DEF NoOrphan, Serial, InTime
  <2>q. QED BY DEF IInv, WriterInv, AtRest
<1>q. QED BY Invariance, <1>1, PTL

(* start() does without a recorder of its own only if there is one; stop()   *)
(* signals no program that was given the pid of an earlier recorder; as long *)
(* as commands did not overlap, no recorder died by itself and no stop was   *)
(* cut short.                                                                *)
THEOREM ActsOnTheRecorderHolds == Spec => ActsOnTheRecorder
<1>1. ASSUME IInv, [Next]_vars, Serial, NoFailure, NEW c \in Client
      PROVE  /\ pc[c] = "start" /\ pc'[c] = "bind" => proc[RunningPid] = "recorder"
             /\ pc[c] = "sigterm" /\ pc'[c] = "wait" => proc[pid[c]] # "other"
  <2>1. ~AtRest(c) => \A d \in Client \ {c} : AtRest(d)
    BY <1>1 DEF IInv, SerialInv
  <2>2. pidfile # NoPid => \/ proc[pidfile] = "recorder"
                           \/ \E d \in Client : pc[d] \in {"wait", "remove"} /\ pid[d] = pidfile
    BY <1>1 DEF IInv, FileInv
  <2>3. pc[c] \in {"start", "sigterm"} /\ pidfile # NoPid => proc[pidfile] = "recorder"
    BY <2>1, <2>2 DEF AtRest
  <2>4. pc[c] = "sigterm" => pid[c] = pidfile /\ pid[c] \in Pid
    BY <1>1 DEF IInv, FileInv, TypeOK
  <2>5. pc[c] = "sigterm" => proc[pid[c]] # "other"
    BY <2>3, <2>4, ServiceAssumption
  <2>6. pc[c] = "start" /\ pc'[c] = "bind" => RunningPid # NoPid
    <3> SUFFICES ASSUME pc[c] = "start", pc'[c] = "bind", RunningPid = NoPid PROVE FALSE
      OBVIOUS
    <3>1. Start(c)
      <4>1. ~AtRest(c) /\ \A d \in Client \ {c} : pc[d] \in {"idle", "serving"}
        BY <2>1 DEF AtRest
      <4>2. pc'[c] # pc[c]
        OBVIOUS
      <4>3. ~UNCHANGED vars /\ ~Login /\ ~Reboot /\ ~System
        BY <1>1, <4>2, SystemLeaves DEF vars, Login, Reboot, IInv
      <4>4. \A d \in Client \ {c} : ~(Step(d) \/ CtrlC(d) \/ CutShort(d)) /\ \A x \in Command : ~Begin(d, x)
        BY <1>1, <4>2, ClientMoves DEF IInv, Begin, TypeOK
      <4>5. Step(c)
        <5>1. ~CutShort(c)
          BY <1>1, CutLeaves DEF IInv
        <5>q. QED BY <1>1, <4>3, <4>4, <5>1 DEF Next, System, CtrlC, Begin
      <4>q. QED BY <4>5 DEF Step, UpAsksUI, UpAsksRecorder, Popen, StartFails, WritePidfile, Bind, Down, Setup,
                            StopCheck, Sigterm, Wait, RemovePidfile, InstallFails, InstallRecorder, InstallUI,
                            TeardownUI, UninstallRecorder
    <3>2. pc'[c] = "popen"
      BY <1>1, <3>1 DEF Start, Goto, IInv, TypeOK
    <3>q. QED BY <3>2
  <2>7. RunningPid # NoPid => RunningPid = pidfile
    BY <1>1, RunningIsPid DEF IInv
  <2>q. QED BY <2>3, <2>5, <2>6, <2>7
<1>2. IInv /\ [Next]_vars =>
        (mishaps \cap {"overlap", "failure", "cut"} = {} =>
           \A c \in Client :
             /\ pc[c] = "start" /\ pc'[c] = "bind" => proc[RunningPid] = "recorder"
             /\ pc[c] = "sigterm" /\ pc'[c] = "wait" => proc[pid[c]] # "other")
  BY <1>1 DEF Serial, NoFailure
<1>q. QED BY Invariance, <1>2, PTL DEF Spec, ActsOnTheRecorder
=============================================================================
