------------------------- MODULE UpdateTransaction -------------------------
(***************************************************************************)
(* The self-update of a native installation (pkg/commands/update): a       *)
(* journalled transaction that stages a verified release, backs up the     *)
(* executable, replaces it, restarts the service, waits until it is        *)
(* healthy, and rolls back when it is not; with the recovery and the       *)
(* explicit rollback that read the journal of an earlier invocation.       *)
(*                                                                         *)
(* One updater runs at a time and may end between any two of its steps; a  *)
(* step is one change of a file or one call of the service manager.  The   *)
(* service manager and the install command act at any moment.  Of a file   *)
(* the model keeps the release it holds.                                   *)
(***************************************************************************)
EXTENDS ServiceUnits

CONSTANTS
    NoFile, NoTx,
    Broken          \* releases that never become ready

Phases == {"staged", "replaced", "restarted", "healthy", "rolling-back",
           "rolled-back", "committed"}

Transactions == [phase : Phases, path : BOOLEAN, previous : Versions, target : Versions]

ASSUME UpdateAssumption ==
    /\ NoFile \notin Versions
    /\ NoTx \notin Transactions
    /\ Broken \subseteq Versions

VARIABLES
    backup,         \* executable.previous
    staged,         \* the file staged beside the executable
    journal,        \* update-transaction.json
    (* the updater *)
    pc,
    tx,             \* its copy of the transaction
    service,        \* what discoverService returned
    self,           \* its own release, common.SUMMARY
    resume,         \* where the rollback it is in was called from
    answer,         \* what the health probe answered
    accepted,       \* bookkeeping: releases that were installed for good
    before          \* bookkeeping: the release the last replacement replaced

updater == <<pc, tx, service, self, resume, answer>>
files == <<executable, backup, staged, journal>>
machine == <<platform, unit>>
history == <<accepted, before>>
vars == <<platform, executable, unit, backup, staged, journal, updater, history>>

Steps == {"idle", "loaded", "checked", "staged", "journalled", "backedUp",
          "swapped", "installed", "started", "probing", "isActive", "healthy",
          "finish", "rollback", "restore", "undone", "restartPrevious", "done"}

Resumes == {"recovery", "operator", "update"}

Answers == Processes \cup {NoProcess}

Init ==
    /\ executable \in Versions \ Broken
    /\ InitUnits
    /\ backup = NoFile /\ staged = NoFile /\ journal = NoTx
    /\ pc = "idle" /\ tx = NoTx /\ service = NoService
    /\ self = executable /\ resume = "update" /\ answer = NoProcess
    /\ accepted = {executable} /\ before = executable

-----------------------------------------------------------------------------
(* transactionStore.save replaces the journal whole.                         *)
save(t) == journal' = t

PhaseOf(t) == IF t = NoTx THEN "none" ELSE t.phase

(* The updater goes on with transaction t.                                   *)
Goto(step, t) ==
    /\ pc' = step /\ tx' = t /\ answer' = NoProcess
    /\ UNCHANGED <<service, self, resume>>

(* The command ends at this step: it is done, the process is killed, or a    *)
(* write, a copy, a rename, a restart of the previous release fails and the  *)
(* error is returned.  Only its files are left.                              *)
Ends ==
    /\ pc # "idle"
    /\ pc' = "idle" /\ tx' = NoTx /\ service' = NoService /\ self' = executable
    /\ resume' = "update" /\ answer' = NoProcess
    /\ UNCHANGED <<files, machine, history>>

(* The command is started from what is installed and loads the journal.      *)
Invoke ==
    /\ pc = "idle"
    /\ pc' = "loaded" /\ self' = executable /\ tx' = journal
    /\ UNCHANGED <<service, resume, answer, files, machine, history>>

(* --rollback; with --no-restart the service is left alone.                  *)
RollbackCommand ==
    /\ pc = "loaded" /\ tx # NoTx
    /\ service' \in {discoverService, NoService}
    /\ pc' = "rollback" /\ resume' = "operator"
    /\ UNCHANGED <<tx, self, answer, files, machine, history>>

(* recoverInterrupted, by the phase of the journal; then an update goes on.  *)
RecoverNothing ==
    /\ pc = "loaded"
    /\ PhaseOf(tx) \in {"none", "rolled-back", "committed"}
    /\ Goto("checked", NoTx)
    /\ UNCHANGED <<files, machine, history>>

(* The staged file is removed if it can be.                                  *)
RecoverStaged ==
    /\ pc = "loaded" /\ PhaseOf(tx) = "staged"
    /\ staged' \in (IF tx.path THEN {NoFile, staged} ELSE {staged})
    /\ save([tx EXCEPT !.phase = "rolled-back"])
    /\ Goto("checked", NoTx)
    /\ UNCHANGED <<executable, backup, machine, history>>

RecoverHealthy ==
    /\ pc = "loaded" /\ PhaseOf(tx) = "healthy"
    /\ save([tx EXCEPT !.phase = "committed"])
    /\ accepted' = accepted \cup {executable}
    /\ Goto("checked", NoTx)
    /\ UNCHANGED <<executable, backup, staged, machine, before>>

(* A rollback that was interrupted is taken for one that is over.           *)
RecoverButRollback ==
    /\ pc = "loaded"
    /\ PhaseOf(tx) \in {"replaced", "restarted", "rolling-back"}
    /\ pc' = IF tx.phase = "rolling-back" THEN "checked" ELSE "rollback"
    /\ resume' = "recovery"
    /\ UNCHANGED <<tx, service, self, answer, files, machine, history>>

RecoverReplaced ==
    /\ pc = "loaded"
    /\ PhaseOf(tx) \in {"replaced", "restarted", "rolling-back"}
    /\ pc' = "rollback" /\ resume' = "recovery"
    /\ UNCHANGED <<tx, service, self, answer, files, machine, history>>
-----------------------------------------------------------------------------
(* What the release server delivers: the tag of the latest release, the tag  *)
(* whose workflow signed the checksum file, the release whose digest that    *)
(* file lists for this platform, and the release in the archive; NoFile      *)
(* where an asset is missing or cannot be read.  A workflow signs the digest *)
(* of its own release.                                                       *)
Offers == {o \in [tag : Versions, signed : Versions \cup {NoFile},
                  sums : Versions \cup {NoFile}, archive : Versions \cup {NoFile}] :
              o.signed # NoFile => o.sums \in {o.signed, NoFile}}

(* A bundle that a workflow of another tag signed is accepted.              *)
BundleOfAnyTag(o)       == o.signed # NoFile
verifyChecksumBundle(o) == o.signed = o.tag
checksumFor(o)          == o.sums # NoFile
verifyChecksum(o)       == o.archive = o.sums
extractBinary(o)        == o.archive # NoFile

Verified(o) == verifyChecksumBundle(o) /\ checksumFor(o) /\ verifyChecksum(o)
               /\ extractBinary(o)

(* A candidate that passed every check is staged; without one, or when there *)
(* is no newer release, the command ends.  With --no-restart the service     *)
(* counts as one that does not run.                                          *)
Stage(o) ==
    /\ pc = "checked" /\ Verified(o)
    /\ service' \in {s \in Services : /\ s.unit = discoverService.unit
                                      /\ s.role = discoverService.role
                                      /\ s.active => discoverService.active}
    /\ staged' = o.archive
    /\ tx' = [phase |-> "staged", path |-> TRUE, previous |-> self, target |-> o.tag]
    /\ pc' = "staged"
    /\ UNCHANGED <<self, resume, answer, executable, backup, journal, machine, history>>

JournalStaged ==
    /\ pc = "staged"
    /\ save(tx) /\ Goto("journalled", tx)
    /\ UNCHANGED <<executable, backup, staged, machine, history>>

(* The journal cannot be written: the staged file is removed again.          *)
Unstage ==
    /\ pc = "staged"
    /\ staged' = NoFile /\ Goto("checked", NoTx)
    /\ UNCHANGED <<executable, backup, journal, machine, history>>

(* replaceWithBackup: the backup is published, then the staged file renamed. *)
BackUp ==
    /\ pc = "journalled"
    /\ backup' = executable /\ Goto("backedUp", tx)
    /\ UNCHANGED <<executable, staged, journal, machine, history>>

Replace ==
    /\ pc = "backedUp"
    /\ executable' = staged /\ staged' = NoFile /\ before' = executable
    /\ Goto("swapped", [tx EXCEPT !.phase = "replaced", !.path = FALSE])
    /\ UNCHANGED <<backup, journal, machine, accepted>>

JournalReplaced ==
    /\ pc = "swapped"
    /\ save(tx) /\ Goto("installed", tx)
    /\ UNCHANGED <<executable, backup, staged, machine, history>>

(* No service, one that does not run, or --no-restart: committed as it is.   *)
InstalledOnly ==
    /\ pc = "installed" /\ ~service.active
    /\ Goto("finish", tx)
    /\ UNCHANGED <<files, machine, history>>

(* The manager starts the service anew.                                      *)
Restarted(u) ==
    /\ Installed(u) /\ unit' = Started(unit, u) /\ UNCHANGED platform

RestartService ==
    /\ pc = "installed" /\ service.active
    /\ Restarted(service.unit)
    /\ Goto("started", [tx EXCEPT !.phase = "restarted"])
    /\ UNCHANGED <<files, history>>

(* The service does not start: restorePrevious.                              *)
RestartFails ==
    /\ pc = "installed" /\ service.active
    /\ Goto("rollback", tx)
    /\ UNCHANGED <<files, machine, history>>

JournalRestarted ==
    /\ pc = "started"
    /\ save(tx) /\ Goto("probing", tx)
    /\ UNCHANGED <<executable, backup, staged, machine, history>>

JournalHealthy ==
    /\ pc = "healthy"
    /\ save(tx) /\ Goto("finish", tx)
    /\ UNCHANGED <<executable, backup, staged, machine, history>>

Finish ==
    /\ pc = "finish"
    /\ save([tx EXCEPT !.phase = "committed"])
    /\ Goto("done", NoTx)
    /\ accepted' = accepted \cup {executable}
    /\ UNCHANGED <<executable, backup, staged, machine, before>>
-----------------------------------------------------------------------------
(* waitForServiceHealth: the probe is answered by whichever service listens  *)
(* on the machine's socket, then the manager is asked whether the service is *)
(* active; again until both agree or the time is over.                       *)

Listening(u) == Active(unit, u) /\ unit[u].process.version \notin Broken

Probe ==
    /\ pc = "probing"
    /\ \/ \E u \in Units : Listening(u) /\ answer' = unit[u].process
       \/ answer' = NoProcess
    /\ pc' = "isActive"
    /\ UNCHANGED <<tx, service, self, resume, files, machine, history>>

(* The release the service has to report: the target, or after a rollback    *)
(* the previous one.                                                         *)
Expected == IF tx.phase = "restarted" THEN tx.target ELSE tx.previous

(* Whoever answers is taken for the service.                                 *)
AgreesInAnyRole ==
    answer # NoProcess /\ Active(unit, service.unit) /\ answer.version = Expected

Agrees ==
    /\ answer # NoProcess
    /\ Active(unit, service.unit)
    /\ answer.role = service.role
    /\ answer.version = Expected

(* An update is healthy now; after a rollback the command is done.           *)
ProbeSucceeds ==
    /\ pc = "isActive" /\ Agrees
    /\ IF tx.phase = "restarted"
       THEN Goto("healthy", [tx EXCEPT !.phase = "healthy"])
       ELSE Goto("done", NoTx)
    /\ UNCHANGED <<files, machine, history>>

ProbeAgain ==
    /\ pc = "isActive" /\ ~Agrees
    /\ Goto("probing", tx)
    /\ UNCHANGED <<files, machine, history>>

(* The time is over: an update is rolled back, a rollback ends.              *)
ProbeTimesOut ==
    /\ pc = "isActive" /\ ~Agrees /\ tx.phase = "restarted"
    /\ Goto("rollback", tx)
    /\ UNCHANGED <<files, machine, history>>
-----------------------------------------------------------------------------
(* rollbackExecutable: the backup is copied beside the executable and        *)
(* renamed over it.                                                          *)

JournalRollingBack ==
    /\ pc = "rollback"
    /\ save([tx EXCEPT !.phase = "rolling-back"])
    /\ Goto("restore", [tx EXCEPT !.phase = "rolling-back"])
    /\ UNCHANGED <<executable, backup, staged, machine, history>>

(* The copy of a backup that is missing is renamed over the executable.      *)
RestoreUnchecked ==
    /\ pc = "restore"
    /\ executable' = backup
    /\ Goto("undone", [tx EXCEPT !.phase = "rolled-back"])
    /\ UNCHANGED <<backup, staged, journal, machine, history>>

Restore ==
    /\ pc = "restore" /\ backup # NoFile
    /\ executable' = backup
    /\ Goto("undone", [tx EXCEPT !.phase = "rolled-back"])
    /\ UNCHANGED <<backup, staged, journal, machine, history>>

(* A recovery goes on with the update; a rollback of a service that runs     *)
(* restarts it.                                                              *)
JournalRolledBack ==
    /\ pc = "undone"
    /\ save(tx)
    /\ IF resume = "recovery" THEN Goto("checked", NoTx)
       ELSE Goto(IF service.active THEN "restartPrevious" ELSE "done", tx)
    /\ UNCHANGED <<executable, backup, staged, machine, history>>

RestartPrevious ==
    /\ pc = "restartPrevious"
    /\ Restarted(service.unit) /\ Goto("probing", tx)
    /\ UNCHANGED <<files, history>>
-----------------------------------------------------------------------------
UpdaterNext ==
    \/ RollbackCommand \/ RecoverNothing \/ RecoverStaged \/ RecoverHealthy
    \/ RecoverReplaced \/ (\E o \in Offers : Stage(o)) \/ JournalStaged \/ Unstage
    \/ BackUp \/ Replace \/ JournalReplaced \/ InstalledOnly \/ RestartService
    \/ RestartFails \/ JournalRestarted \/ JournalHealthy \/ Finish
    \/ Probe \/ ProbeSucceeds \/ ProbeAgain \/ ProbeTimesOut
    \/ JournalRollingBack \/ Restore \/ JournalRolledBack \/ RestartPrevious

Machine == UnitsNext /\ UNCHANGED <<backup, staged, journal, updater, history>>

Next == Invoke \/ UpdaterNext \/ Ends \/ Machine

Spec == Init /\ [][Next]_vars
-----------------------------------------------------------------------------
TypeOK ==
    /\ platform \in Platforms /\ executable \in Versions
    /\ unit \in [Units -> UnitStates]
    /\ backup \in Versions \cup {NoFile} /\ staged \in Versions \cup {NoFile}
    /\ journal \in Transactions \cup {NoTx} /\ tx \in Transactions \cup {NoTx}
    /\ pc \in Steps /\ service \in Services /\ self \in Versions
    /\ resume \in Resumes /\ answer \in Answers
    /\ accepted \subseteq Versions

(* From the moment the journal records the replacement until the next        *)
(* update, whatever ends or fails in between, the backup is the release that *)
(* was replaced and the executable is the one that was signed for the        *)
(* target's tag: what a rollback needs is there (replaceWithBackup,          *)
(* transaction.go, and the phases of execute).                               *)
Replacements == {"replaced", "restarted", "healthy", "committed"}

JournalMatchesFiles ==
    PhaseOf(journal) \in Replacements =>
        /\ backup = before
        /\ executable = journal.target

(* The inductive invariant of UpdateTransactionProofs.  While a replacement  *)
(* is under way the files match the updater's copy of the transaction, too;  *)
(* from the restart on, the service's process, if any, runs what is          *)
(* installed; the two services never run in each other's role.               *)
UpdaterMatches ==
    /\ pc = "loaded" => tx = journal
    /\ pc \notin {"idle", "loaded", "checked", "done"} => tx # NoTx
    /\ pc \in {"staged", "journalled", "backedUp"} =>
          tx.phase = "staged" /\ staged = tx.target
    /\ pc \in {"journalled", "backedUp"} => journal = tx
    /\ pc = "backedUp" => backup = executable
    /\ pc = "swapped" => PhaseOf(journal) = "staged" /\ tx.phase = "replaced"
    /\ pc \in {"installed", "healthy", "finish"} => tx.phase \in Replacements
    /\ pc = "started" => tx.phase = "restarted"
    /\ pc \in {"probing", "isActive"} => tx.phase \in {"restarted", "rolled-back"}
    /\ pc \in {"swapped", "installed", "started", "probing", "isActive", "healthy", "finish"}
       /\ tx.phase \in Replacements =>
          backup = before /\ executable = tx.target
    /\ pc \in {"restore", "undone"} => PhaseOf(journal) = "rolling-back"
    /\ pc \in {"undone", "restartPrevious"} => tx.phase = "rolled-back"

OwnRole(u, role) == (u = "agent") <=> (role = "agent")

ServiceMatches ==
    /\ \A u \in Units : /\ Installed(u) => OwnRole(u, unit[u].role)
                        /\ Active(unit, u) => OwnRole(u, unit[u].process.role)
    /\ service # NoService => OwnRole(service.unit, service.role)
    /\ pc \in {"started", "restartPrevious", "probing", "isActive"} => service # NoService
    /\ pc \in {"started", "probing", "isActive"} /\ Active(unit, service.unit) =>
          unit[service.unit].process.version = executable
    /\ pc = "isActive" /\ answer # NoProcess =>
          /\ answer.version \notin Broken
          /\ answer.role = service.role => answer.version = executable

IInv == TypeOK /\ JournalMatchesFiles /\ UpdaterMatches /\ ServiceMatches

(* waitForServiceHealth succeeds only when the very service that was         *)
(* restarted runs, with the release that is installed, and is able to become *)
(* ready: the answer of another service on the same machine is no proof.     *)
HealthIsOfTheService ==
    [][ProbeSucceeds => /\ Active(unit, service.unit)
                        /\ unit[service.unit].process.version = executable
                        /\ executable \notin Broken]_vars

(* An update that was interrupted after the replacement is settled by the    *)
(* next invocation that is not itself disturbed: if the operator goes on     *)
(* invoking the updater and steps stop failing, an open journal with a       *)
(* backup ends committed or rolled back (recoverInterrupted).                *)
Fails == Ends /\ pc \notin {"checked", "done"}

Settled == PhaseOf(journal) \in {"none", "committed", "rolled-back"}

InterruptedIsSettled ==
    ([]<><<Invoke>>_vars /\ <>[][~Fails]_vars)
        => (backup # NoFile /\ ~Settled ~> Settled)

(* The backup is overwritten only by a release that was installed for good:  *)
(* the last one known to work stays available until its successor commits.   *)
BackupOnlyOverAccepted ==
    [][backup' # backup => executable \in accepted]_vars
=============================================================================
