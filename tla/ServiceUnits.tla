---------------------------- MODULE ServiceUnits ----------------------------
(***************************************************************************)
(* The user services of one machine (systemd units, launchd agents): what  *)
(* install and uninstall write, what the service manager runs, and which   *)
(* of them the updater looks at (pkg/commands/install/install.go,          *)
(* pkg/commands/update/service.go).  There are two service files: one for  *)
(* the agent, and one that a hub and a standalone server share.            *)
(***************************************************************************)
EXTENDS Integers

CONSTANTS
    Versions,       \* releases of the program
    NoProcess,      \* the service does not run
    Platforms,      \* subset of {"linux", "darwin"}
    Modes           \* modes that are installed, of "server", "hub" and "agent"

ASSUME ServiceUnitsAssumption ==
    /\ NoProcess \notin [version : Versions, role : {"standalone", "hub", "agent"}]
    /\ Modes \subseteq {"server", "hub", "agent"}
    /\ Platforms # {} /\ Platforms \subseteq {"linux", "darwin"}

VARIABLES
    platform,       \* which platform this machine is
    executable,     \* the release installed at the executable's path
    unit            \* the service files and the processes they started

Units == {"agent", "server"}
Roles == {"standalone", "hub", "agent"}

(* The role in the service file, if there is one, and the process: the       *)
(* release and the role it was started with.                                 *)
Processes == [version : Versions, role : Roles]
UnitStates == [role : Roles \cup {"none"}, process : Processes \cup {NoProcess}]

UnitOf(mode) == IF mode = "agent" THEN "agent" ELSE "server"
RoleOf(mode) == IF mode = "server" THEN "standalone" ELSE mode

Installed(u) == unit[u].role # "none"
Active(units, u) == units[u].process # NoProcess

(* The process of u, started anew from what is installed now.                *)
Started(units, u) ==
    [units EXCEPT ![u].process = [version |-> executable, role |-> units[u].role]]

Stopped(units, u) == [units EXCEPT ![u].process = NoProcess]

(* enable --now, load: a service that runs already keeps its process.        *)
Enabled(units, u) == IF Active(units, u) THEN units ELSE Started(units, u)

(* The file is written first.  That the other service does not stop is       *)
(* ignored; a manager that does not reload or start ends the command.        *)
InstallUnit(mode, other) ==
    LET own == UnitOf(mode)
        written == [unit EXCEPT ![own].role = RoleOf(mode)]
        stopped == Stopped(written, other)
    IN  /\ unit' \in {written, stopped, Enabled(written, own), Enabled(stopped, own)}
        /\ UNCHANGED <<platform, executable>>

InstallLinux(mode) ==
    /\ platform = "linux"
    /\ InstallUnit(mode, IF mode = "agent" THEN "server" ELSE "agent")

(* On launchd a hub unloads its own label and leaves the agent's loaded.     *)
InstallDarwin(mode) ==
    /\ platform = "darwin"
    /\ InstallUnit(mode, IF mode = "server" THEN "agent" ELSE "server")

(* That the service does not stop is ignored; its file may stay.             *)
Uninstall(mode) ==
    LET own == UnitOf(mode)
        stopped == Stopped(unit, own)
    IN  /\ unit' \in {stopped, [unit EXCEPT ![own].role = "none"],
                      [stopped EXCEPT ![own].role = "none"]}
        /\ UNCHANGED <<platform, executable>>

(* The operator or the manager starts, restarts or stops a service.          *)
ServiceStarts(u) ==
    /\ Installed(u)
    /\ unit' = Started(unit, u)
    /\ UNCHANGED <<platform, executable>>

ServiceStops(u) ==
    /\ Active(unit, u)
    /\ unit' = Stopped(unit, u)
    /\ UNCHANGED <<platform, executable>>

(* discoverService: the first installed service that runs, the agent's       *)
(* first; else the first one installed.                                      *)
Discovered(u) ==
    LET running == {v \in Units : Installed(v) /\ Active(unit, v)}
        found   == IF running # {} THEN running ELSE {v \in Units : Installed(v)}
    IN  u \in found /\ (u = "agent" \/ "agent" \notin found)

NoService == [unit |-> "none", role |-> "none", active |-> FALSE]
Services == [unit : Units, role : Roles, active : BOOLEAN] \cup {NoService}

discoverService ==
    IF \A u \in Units : ~Installed(u) THEN NoService
    ELSE LET u == CHOOSE v \in Units : Discovered(v)
         IN  [unit |-> u, role |-> unit[u].role, active |-> Active(unit, u)]

InitUnits ==
    /\ platform \in Platforms
    /\ unit = [u \in Units |-> [role |-> "none", process |-> NoProcess]]

UnitsNext ==
    \/ \E mode \in Modes : InstallLinux(mode) \/ InstallDarwin(mode) \/ Uninstall(mode)
    \/ \E u \in Units : ServiceStarts(u) \/ ServiceStops(u)
=============================================================================
