---------------------- MODULE UpdateTransactionProofs ----------------------
(***************************************************************************)
(* The invariant of UpdateTransaction for every set of releases, platforms *)
(* and modes: what a rollback needs is there from the moment the journal   *)
(* records a replacement, and health is only believed of the service that  *)
(* was restarted.                                                          *)
(***************************************************************************)
EXTENDS UpdateTransaction, TLAPS

USE DEF Units, Roles, Processes, UnitStates, Phases, Transactions, Steps, Resumes,
        NoService, Services, Answers

(* The service manager and install keep the types of the units, give each    *)
(* unit a role of its own, and start processes from what is installed.       *)
UnitsOK(x) ==
    /\ x \in [Units -> UnitStates]
    /\ \A u \in Units : /\ x[u].role # "none" => OwnRole(u, x[u].role)
                        /\ x[u].process # NoProcess => OwnRole(u, x[u].process.role)

LEMMA StartedOK ==
    ASSUME NEW x, UnitsOK(x), executable \in Versions, NEW u \in Units, x[u].role # "none"
    PROVE  /\ UnitsOK(Started(x, u))
           /\ \A v \in Units : Started(x, u)[v].process \in
                                   {x[v].process, [version |-> executable, role |-> x[v].role]}
           /\ Started(x, u)[u].process.version = executable
           /\ Started(x, u)[u].process # NoProcess
BY ServiceUnitsAssumption DEF UnitsOK, Started, OwnRole

LEMMA StoppedOK ==
    ASSUME NEW x, UnitsOK(x), NEW u \in Units
    PROVE  /\ UnitsOK(Stopped(x, u))
           /\ \A v \in Units : Stopped(x, u)[v].process \in {x[v].process, NoProcess}
           /\ Stopped(x, u)[u].role = x[u].role
BY DEF UnitsOK, Stopped

LEMMA WrittenOK ==
    ASSUME UnitsOK(unit), NEW mode \in Modes
    PROVE  LET x == [unit EXCEPT ![UnitOf(mode)].role = RoleOf(mode)]
           IN  /\ UnitsOK(x) /\ UnitOf(mode) \in Units
               /\ \A v \in Units : x[v].process = unit[v].process
               /\ x[UnitOf(mode)].role # "none"
BY ServiceUnitsAssumption DEF UnitsOK, UnitOf, RoleOf, OwnRole

(* What a step may do to a process: nothing, end it, or start it anew.       *)
FromInstalled(x) ==
    \A v \in Units : \/ x[v].process \in {unit[v].process, NoProcess}
                     \/ x[v].process.version = executable

LEMMA EnabledOK ==
    ASSUME NEW x, UnitsOK(x), FromInstalled(x), executable \in Versions,
           NEW u \in Units, x[u].role # "none"
    PROVE  UnitsOK(Enabled(x, u)) /\ FromInstalled(Enabled(x, u))
BY StartedOK DEF Enabled, FromInstalled

LEMMA UnitsStep ==
    ASSUME UnitsOK(unit), executable \in Versions, UnitsNext
    PROVE  UnitsOK(unit') /\ FromInstalled(unit') /\ UNCHANGED <<platform, executable>>
<1>1. ASSUME NEW mode \in Modes, NEW other \in Units, InstallUnit(mode, other)
      PROVE  UnitsOK(unit') /\ FromInstalled(unit') /\ UNCHANGED <<platform, executable>>
  <2> DEFINE own == UnitOf(mode)
             written == [unit EXCEPT ![own].role = RoleOf(mode)]
             stopped == Stopped(written, other)
  <2>1. UnitsOK(written) /\ FromInstalled(written) /\ own \in Units /\ written[own].role # "none"
    BY WrittenOK DEF FromInstalled
  <2> HIDE DEF own, written
  <2>3. UnitsOK(stopped) /\ FromInstalled(stopped)
    BY <2>1, StoppedOK DEF FromInstalled
  <2>4. stopped[own].role # "none"
    BY <2>1 DEF Stopped, UnitsOK
  <2> HIDE DEF stopped
  <2>5. /\ UnitsOK(Enabled(written, own)) /\ FromInstalled(Enabled(written, own))
        /\ UnitsOK(Enabled(stopped, own)) /\ FromInstalled(Enabled(stopped, own))
    BY <2>1, <2>3, <2>4, EnabledOK
  <2>6. /\ unit' \in {written, stopped, Enabled(written, own), Enabled(stopped, own)}
        /\ UNCHANGED <<platform, executable>>
    BY <1>1 DEF InstallUnit, own, written, stopped
  <2> QED
    BY <2>1, <2>3, <2>5, <2>6
<1>2. ASSUME NEW mode \in Modes, Uninstall(mode)
      PROVE  UnitsOK(unit') /\ FromInstalled(unit') /\ UNCHANGED <<platform, executable>>
  <2>1. UnitOf(mode) \in Units
    BY DEF UnitOf
  <2> QED
    BY <1>2, <2>1 DEF Uninstall, UnitsOK, FromInstalled, Stopped
<1>3. ASSUME NEW u \in Units, ServiceStarts(u)
      PROVE  UnitsOK(unit') /\ FromInstalled(unit') /\ UNCHANGED <<platform, executable>>
  BY <1>3, StartedOK DEF ServiceStarts, Installed, FromInstalled, Started, UnitsOK
<1>4. ASSUME NEW u \in Units, ServiceStops(u)
      PROVE  UnitsOK(unit') /\ FromInstalled(unit') /\ UNCHANGED <<platform, executable>>
  BY <1>4, StoppedOK DEF ServiceStops, FromInstalled
<1> QED
  BY <1>1, <1>2, <1>3, <1>4 DEF UnitsNext, InstallLinux, InstallDarwin
-----------------------------------------------------------------------------
LEMMA DiscoveredOK ==
    ASSUME UnitsOK(unit)
    PROVE  /\ discoverService \in Services
           /\ discoverService # NoService => OwnRole(discoverService.unit, discoverService.role)
<1>1. CASE \A u \in Units : ~Installed(u)
  BY <1>1 DEF discoverService
<1>2. CASE ~\A u \in Units : ~Installed(u)
  <2> DEFINE u == CHOOSE v \in Units : Discovered(v)
  <2>1. \E v \in Units : Discovered(v)
    BY <1>2 DEF Discovered
  <2>2. u \in Units /\ Discovered(u)
    BY <2>1
  <2>3. Installed(u)
    BY <2>2 DEF Discovered
  <2>4. discoverService = [unit |-> u, role |-> unit[u].role, active |-> Active(unit, u)]
    BY <1>2 DEF discoverService
  <2> HIDE DEF u
  <2>5. unit[u].role \in Roles /\ OwnRole(u, unit[u].role) /\ Active(unit, u) \in BOOLEAN
    BY <2>2, <2>3 DEF UnitsOK, Installed, Active
  <2> QED
    BY <2>2, <2>4, <2>5
<1> QED
  BY <1>1, <1>2

THEOREM InitInv == Init => IInv
BY UpdateAssumption, ServiceUnitsAssumption
   DEF Init, InitUnits, IInv, TypeOK, JournalMatchesFiles, UpdaterMatches, ServiceMatches,
       PhaseOf, Replacements, Installed, Active

LEMMA UnitsOfInv == IInv => UnitsOK(unit)
BY DEF IInv, TypeOK, ServiceMatches, UnitsOK, Installed, Active

(* A step of the machine leaves the updater and its files alone.             *)
LEMMA MachineStep == IInv /\ Machine => IInv'
<1> SUFFICES ASSUME IInv, Machine PROVE IInv'
  OBVIOUS
<1>1. UnitsOK(unit') /\ FromInstalled(unit') /\ UNCHANGED <<platform, executable>>
  BY UnitsOfInv, UnitsStep DEF Machine, IInv, TypeOK
<1>2. UNCHANGED <<backup, staged, journal, updater, history>>
  BY DEF Machine
<1>3. TypeOK'
  BY <1>1, <1>2 DEF IInv, TypeOK, UnitsOK, updater, history
<1>4. JournalMatchesFiles' /\ UpdaterMatches'
  BY <1>1, <1>2 DEF IInv, JournalMatchesFiles, UpdaterMatches, PhaseOf, updater, history
<1>5. ServiceMatches'
  <2>1. service # NoService => service.unit \in Units
    BY DEF IInv, TypeOK
  <2> QED
    BY <1>1, <1>2, <2>1
       DEF IInv, ServiceMatches, UnitsOK, FromInstalled, Installed, Active, updater
<1> QED
  BY <1>3, <1>4, <1>5 DEF IInv
-----------------------------------------------------------------------------
(* The updater's own steps, one by one.                                      *)

LEMMA RestartedOK ==
    ASSUME IInv, service # NoService, Restarted(service.unit)
    PROVE  /\ UnitsOK(unit') /\ service.unit \in Units
           /\ unit'[service.unit].process.version = executable
           /\ platform' = platform
<1>1. service.unit \in Units
  BY DEF IInv, TypeOK
<1> QED
  BY <1>1, UnitsOfInv, StartedOK DEF Restarted, Installed, IInv, TypeOK

(* The types.                                                                *)
LEMMA TypeStep == IInv /\ (Invoke \/ UpdaterNext \/ Ends) => TypeOK'
<1> SUFFICES ASSUME IInv, Invoke \/ UpdaterNext \/ Ends PROVE TypeOK'
  OBVIOUS
<1> USE DEF Goto, save, PhaseOf, files, machine, history
<1> DEFINE Kept == /\ platform' \in Platforms /\ unit' \in [Units -> UnitStates]
                   /\ executable' \in Versions /\ backup' \in Versions \cup {NoFile}
<1>0. TypeOK /\ (pc \notin {"idle", "loaded", "checked", "done"} => tx \in Transactions)
  BY DEF IInv, TypeOK, UpdaterMatches
<1>1. CASE Invoke
  BY <1>0, <1>1 DEF Invoke, TypeOK
<1>2. CASE RollbackCommand
  BY <1>0, <1>2, UnitsOfInv, DiscoveredOK DEF RollbackCommand, TypeOK
<1>3. CASE RecoverNothing
  BY <1>0, <1>3 DEF RecoverNothing, TypeOK
<1>4. CASE RecoverStaged
  BY <1>0, <1>4 DEF RecoverStaged, TypeOK
<1>5. CASE RecoverHealthy
  BY <1>0, <1>5 DEF RecoverHealthy, TypeOK
<1>6. CASE RecoverReplaced
  BY <1>0, <1>6 DEF RecoverReplaced, TypeOK
<1>7. ASSUME NEW o \in Offers, Stage(o) PROVE TypeOK'
  <2>1. o.archive \in Versions /\ o.tag \in Versions
    BY <1>7, UpdateAssumption DEF Offers, Stage, Verified, extractBinary
  <2> QED
    BY <1>0, <1>7, <2>1 DEF Stage, TypeOK
<1>8. CASE JournalStaged \/ Unstage \/ BackUp \/ JournalReplaced \/ InstalledOnly
  BY <1>0, <1>8
     DEF JournalStaged, Unstage, BackUp, JournalReplaced, InstalledOnly, TypeOK
<1>9. CASE Replace
  <2>1. staged \in Versions
    BY <1>0, <1>9 DEF IInv, UpdaterMatches, Replace
  <2>2. tx \in Transactions
    BY <1>0, <1>9 DEF Replace
  <2>3. [tx EXCEPT !.phase = "replaced", !.path = FALSE] \in Transactions
    BY <2>2
  <2> QED
    BY <1>0, <1>9, <2>1, <2>3 DEF Replace, TypeOK
<1>10. CASE RestartService \/ RestartPrevious
  <2>1. service # NoService
    BY <1>10 DEF RestartService, RestartPrevious, IInv, ServiceMatches
  <2>2. unit' \in [Units -> UnitStates] /\ platform' = platform
    BY <1>10, <2>1, RestartedOK DEF RestartService, RestartPrevious, UnitsOK
  <2> QED
    BY <1>0, <1>10, <2>2 DEF RestartService, RestartPrevious, TypeOK
<1>11. CASE RestartFails \/ JournalRestarted \/ JournalHealthy \/ Finish
  BY <1>0, <1>11 DEF RestartFails, JournalRestarted, JournalHealthy, Finish, TypeOK
<1>12. CASE Probe
  BY <1>0, <1>12 DEF Probe, Listening, Active, TypeOK
<1>13. CASE ProbeSucceeds \/ ProbeAgain \/ ProbeTimesOut
  BY <1>0, <1>13 DEF ProbeSucceeds, ProbeAgain, ProbeTimesOut, TypeOK
<1>14. CASE JournalRollingBack \/ Restore \/ JournalRolledBack
  BY <1>0, <1>14 DEF JournalRollingBack, Restore, JournalRolledBack, TypeOK
<1>15. CASE Ends
  BY <1>0, <1>15 DEF Ends, TypeOK
<1> QED
  BY <1>1, <1>2, <1>3, <1>4, <1>5, <1>6, <1>7, <1>8, <1>9, <1>10, <1>11, <1>12, <1>13,
     <1>14, <1>15 DEF UpdaterNext

(* The journal, the files and the updater's copy of the transaction.         *)
LEMMA MatchesStep ==
    IInv /\ (Invoke \/ UpdaterNext \/ Ends) => JournalMatchesFiles' /\ UpdaterMatches'
<1> SUFFICES ASSUME IInv, Invoke \/ UpdaterNext \/ Ends
             PROVE  JournalMatchesFiles' /\ UpdaterMatches'
  OBVIOUS
<1> USE DEF Goto, save, PhaseOf, files, machine, history, JournalMatchesFiles, UpdaterMatches,
            Replacements
<1>0. TypeOK /\ JournalMatchesFiles /\ UpdaterMatches /\ TypeOK'
  BY TypeStep DEF IInv
<1> USE UpdateAssumption
<1> HIDE DEF Steps, Services, Answers, Resumes, UnitStates
<1>1. CASE Invoke
  BY <1>0, <1>1 DEF Invoke, TypeOK
<1>2. CASE RollbackCommand \/ RecoverNothing \/ RecoverReplaced
  BY <1>0, <1>2 DEF RollbackCommand, RecoverNothing, RecoverReplaced, TypeOK
<1>3. CASE RecoverStaged \/ RecoverHealthy
  BY <1>0, <1>3 DEF RecoverStaged, RecoverHealthy, TypeOK
<1>4. ASSUME NEW o \in Offers, Stage(o) PROVE JournalMatchesFiles' /\ UpdaterMatches'
  <2>1. o.archive = o.tag
    BY <1>4 DEF Offers, Stage, Verified, verifyChecksumBundle, checksumFor, verifyChecksum,
               extractBinary
  <2>2. tx' \in Transactions /\ tx'.phase = "staged" /\ tx'.target = o.tag
    BY <1>4, <1>0, TypeStep DEF UpdaterNext, TypeOK, Stage, Offers
  <2> QED
    BY <1>0, <1>4, <2>1, <2>2 DEF Stage, TypeOK
<1>5. CASE JournalStaged \/ Unstage \/ BackUp
  BY <1>0, <1>5 DEF JournalStaged, Unstage, BackUp, TypeOK
<1>6. CASE Replace
  BY <1>0, <1>6 DEF Replace, TypeOK
<1>7. CASE JournalReplaced \/ InstalledOnly \/ RestartFails
  BY <1>0, <1>7 DEF JournalReplaced, InstalledOnly, RestartFails, TypeOK
<1>8. CASE RestartService \/ RestartPrevious
  BY <1>0, <1>8 DEF RestartService, RestartPrevious, Restarted, TypeOK
<1>9. CASE JournalRestarted \/ JournalHealthy \/ Finish
  BY <1>0, <1>9 DEF JournalRestarted, JournalHealthy, Finish, TypeOK
<1>10. CASE Probe \/ ProbeSucceeds \/ ProbeAgain \/ ProbeTimesOut
  BY <1>0, <1>10 DEF Probe, ProbeSucceeds, ProbeAgain, ProbeTimesOut, TypeOK
<1>11. CASE JournalRollingBack \/ Restore \/ JournalRolledBack
  BY <1>0, <1>11 DEF JournalRollingBack, Restore, JournalRolledBack, TypeOK
<1>12. CASE Ends
  BY <1>0, <1>12 DEF Ends, TypeOK
<1> QED
  BY <1>1, <1>2, <1>3, <1>4, <1>5, <1>6, <1>7, <1>8, <1>9, <1>10, <1>11, <1>12
     DEF UpdaterNext

(* The service that was restarted and what its probe answers.                *)
LEMMA ServiceStep == IInv /\ (Invoke \/ UpdaterNext \/ Ends) => ServiceMatches'
<1> SUFFICES ASSUME IInv, Invoke \/ UpdaterNext \/ Ends PROVE ServiceMatches'
  OBVIOUS
<1> USE DEF Goto, files, machine, history, Installed, Active
<1>0. TypeOK /\ ServiceMatches
  BY DEF IInv
<1> HIDE DEF Steps, Transactions, Resumes
<1>1. CASE Invoke \/ RecoverNothing \/ RecoverStaged \/ RecoverHealthy \/ RecoverReplaced
  BY <1>0, <1>1
     DEF Invoke, RecoverNothing, RecoverStaged, RecoverHealthy, RecoverReplaced,
         ServiceMatches
<1>2. CASE RollbackCommand
  BY <1>0, <1>2, UnitsOfInv, DiscoveredOK DEF RollbackCommand, ServiceMatches
<1>3. ASSUME NEW o \in Offers, Stage(o) PROVE ServiceMatches'
  <2>1. /\ service' \in Services
        /\ service'.unit = discoverService.unit /\ service'.role = discoverService.role
    BY <1>3 DEF Stage
  <2>2. service' # NoService => OwnRole(service'.unit, service'.role)
    BY <2>1, UnitsOfInv, DiscoveredOK DEF OwnRole
  <2> QED
    BY <1>0, <1>3, <2>2 DEF Stage, ServiceMatches
<1>4. CASE JournalStaged \/ Unstage \/ BackUp \/ Replace \/ JournalReplaced \/ InstalledOnly
           \/ RestartFails \/ JournalHealthy \/ Finish \/ Restore
  BY <1>0, <1>4
     DEF JournalStaged, Unstage, BackUp, Replace, JournalReplaced, InstalledOnly,
         RestartFails, JournalHealthy, Finish, Restore, ServiceMatches
<1>5. CASE RestartService \/ RestartPrevious
  <2>1. service # NoService
    BY <1>0, <1>5 DEF RestartService, RestartPrevious, ServiceMatches, TypeOK
  <2>2. /\ UnitsOK(unit') /\ service.unit \in Units
        /\ unit'[service.unit].process.version = executable
    BY <1>5, <2>1, RestartedOK DEF RestartService, RestartPrevious
  <2> QED
    BY <1>0, <1>5, <2>1, <2>2 DEF RestartService, RestartPrevious, ServiceMatches, UnitsOK
<1>6. CASE JournalRestarted \/ JournalRollingBack \/ ProbeSucceeds \/ ProbeAgain \/ ProbeTimesOut
  BY <1>0, <1>6
     DEF JournalRestarted, JournalRollingBack, ProbeSucceeds, ProbeAgain, ProbeTimesOut,
         ServiceMatches
<1>7. CASE JournalRolledBack
  BY <1>0, <1>7 DEF JournalRolledBack, ServiceMatches, TypeOK
<1>8. CASE Probe
  <2>1. service # NoService /\ service.unit \in Units /\ OwnRole(service.unit, service.role)
    BY <1>0, <1>8 DEF Probe, ServiceMatches, TypeOK
  <2>2. ASSUME NEW u \in Units, Listening(u), answer' = unit[u].process
        PROVE  /\ answer'.version \notin Broken
               /\ answer'.role = service.role => answer'.version = executable
    <3>1. answer'.role = service.role => u = service.unit
      BY <1>0, <2>1, <2>2 DEF Listening, ServiceMatches, OwnRole
    <3> QED
      BY <1>0, <1>8, <2>2, <3>1 DEF Listening, Probe, ServiceMatches
  <2> QED
    BY <1>0, <1>8, <2>1, <2>2 DEF Probe, ServiceMatches
<1>9. CASE Ends
  BY <1>0, <1>9 DEF Ends, ServiceMatches
<1> QED
  BY <1>1, <1>2, <1>3, <1>4, <1>5, <1>6, <1>7, <1>8, <1>9 DEF UpdaterNext

(* Every step of the machine, the operator and the updater preserves the     *)
(* inductive invariant.                                                      *)
THEOREM NextInv == IInv /\ [Next]_vars => IInv'
<1> SUFFICES ASSUME IInv, [Next]_vars PROVE IInv'
  OBVIOUS
<1>1. CASE Machine
  BY <1>1, MachineStep
<1>2. CASE Invoke \/ UpdaterNext \/ Ends
  BY <1>2, TypeStep, MatchesStep, ServiceStep DEF IInv
<1>3. CASE UNCHANGED vars
  BY <1>3 DEF vars, updater, history, IInv, TypeOK, JournalMatchesFiles, UpdaterMatches,
             ServiceMatches, PhaseOf, Installed, Active
<1> QED
  BY <1>1, <1>2, <1>3 DEF Next

(* The inductive invariant of the update transaction (execute,               *)
(* recoverInterrupted and restorePrevious) holds in every reachable state.   *)
THEOREM Invariance == Spec => []IInv
<1> QED
  BY InitInv, NextInv, PTL DEF Spec

(* Type correctness of the update transaction.                               *)
THEOREM TypeCorrect == Spec => []TypeOK
<1>1. IInv => TypeOK
  BY DEF IInv
<1> QED
  BY <1>1, Invariance, PTL

(* What a rollback needs is there from the moment the journal records the    *)
(* replacement (replaceWithBackup and the phases of execute).                *)
THEOREM RollbackIsPossible == Spec => []JournalMatchesFiles
<1>1. IInv => JournalMatchesFiles
  BY DEF IInv
<1> QED
  BY <1>1, Invariance, PTL

(* waitForServiceHealth only believes the service that was restarted.        *)
THEOREM HealthIsBelievedRightly == Spec => HealthIsOfTheService
<1>1. IInv /\ ProbeSucceeds => /\ Active(unit, service.unit)
                               /\ unit[service.unit].process.version = executable
                               /\ executable \notin Broken
  BY DEF IInv, ServiceMatches, ProbeSucceeds, Agrees
<1>2. IInv /\ [Next]_vars =>
        [ProbeSucceeds => /\ Active(unit, service.unit)
                          /\ unit[service.unit].process.version = executable
                          /\ executable \notin Broken]_vars
  BY <1>1
<1> QED
  BY <1>2, Invariance, PTL DEF Spec, HealthIsOfTheService
=============================================================================
