----------------------------- MODULE CatalogOutputs -----------------------------
(***************************************************************************)
(* How scripts/extract-models.py replaces the generated model lists, which *)
(* have to fit together: models.json and the Go source made from it.       *)
(*                                                                         *)
(* replace_outputs stages every file beside its target and renames them    *)
(* one by one.  A call that fails leads to a rollback, which may fail as   *)
(* well; an interrupt raises KeyboardInterrupt between any two statements; *)
(* a crash stops the script anywhere.  What the script leaves behind is    *)
(* committed only if its --check finds that the files fit.                 *)
(*                                                                         *)
(* The files are numbered in the order of outputs; contents are            *)
(* generations, and files fit together when they are of one generation,    *)
(* since the Go source holds the digest of the JSON.                       *)
(***************************************************************************)
EXTENDS Integers

CONSTANTS Last,        \* number of files
          Generations, \* contents
          Missing,     \* no file
          MaxErrors    \* bound: calls that fail in one run

ASSUME LastAssumption == Last \in Nat \ {0}
ASSUME GenerationsAssumption == Missing \notin Generations
ASSUME ErrorsAssumption == MaxErrors \in Nat

Files == 1 .. Last

VARIABLES file,     \* what is in the working tree
          commit,   \* what is in the repository
          at, next, \* the script: where it is, the file of its loop
          new,      \* the contents it writes
          backups,  \* contents read before
          staged,   \* files whose temporary is on disk and known to the script
          written,  \* files it has replaced and not restored
          outcome,  \* how the last run of the script ended, or "running"
          before,   \* ghost: the files when it began
          errors,   \* ghost: calls that have failed in it
          abrupt,   \* ghost: it was interrupted, or crashed
          litter    \* ghost: a temporary is on disk that it will not remove

script == <<new, backups, before>>
outputsVars == <<file, commit, at, next, staged, written, outcome, script, errors, abrupt, litter>>

Fits(f) == \E g \in Generations : \A n \in Files : f[n] = g

Error == errors < MaxErrors /\ errors' = errors + 1

--------------------------------------------------------------------------------
(* replace_outputs                                                          *)

Start(g) == /\ at = "idle"
            /\ at' = "stage" /\ next' = 1 /\ new' = g /\ before' = file
            /\ backups' = [n \in Files |-> Missing] /\ staged' = {} /\ written' = {}
            /\ outcome' = "running" /\ errors' = 0 /\ abrupt' = FALSE /\ litter' = FALSE
            /\ UNCHANGED <<file, commit>>

Stage == /\ at = "stage"
         /\ backups' = [backups EXCEPT ![next] = file[next]]
         /\ staged' = staged \cup {next}
         /\ IF next = Last THEN at' = "replace" /\ next' = 1 ELSE next' = next + 1 /\ UNCHANGED at
         /\ UNCHANGED <<file, commit, written, outcome, new, before, errors, abrupt, litter>>

(* os.replace,                                                              *)
Replace == /\ at = "replace"
           /\ file' = [file EXCEPT ![next] = new]
           /\ staged' = staged \ {next}
           /\ at' = "record"
           /\ UNCHANGED <<commit, next, written, outcome, script, errors, abrupt, litter>>

(* and written.append.                                                      *)
Record == /\ at = "record"
          /\ written' = written \cup {next}
          /\ IF next = Last THEN at' = "cleanup" /\ UNCHANGED next
                            ELSE at' = "replace" /\ next' = next + 1
          /\ UNCHANGED <<file, commit, staged, outcome, script, errors, abrupt, litter>>

(* stage_file removes its temporary when it fails.                          *)
Fails == /\ at \in {"stage", "replace"} /\ Error
         /\ at' = "rollback" /\ outcome' = "failed"
         /\ UNCHANGED <<file, commit, next, staged, written, script, abrupt, litter>>

(* Files are restored from the last written to the first; one that was new  *)
(* is removed, of the others the backup is staged and renamed.              *)
LastWritten(n) == n \in written /\ \A m \in written : m <= n

Restore(n) == file' = [file EXCEPT ![n] = backups[n]] /\ written' = written \ {n}

RollbackBackups == /\ at = "rollback" /\ written # {}
                   /\ \E n \in Files :
                         /\ LastWritten(n)
                         /\ \/ backups[n] = Missing /\ UNCHANGED <<file, at>> /\ written' = written \ {n}
                            \/ backups[n] # Missing /\ at' = "recover" /\ UNCHANGED <<file, written>>
                   /\ UNCHANGED <<commit, next, staged, outcome, script, errors, abrupt, litter>>

Rollback == /\ at = "rollback"
            /\ \E n \in Files :
                  /\ LastWritten(n)
                  /\ \/ backups[n] = Missing /\ Restore(n) /\ UNCHANGED at
                     \/ backups[n] # Missing /\ at' = "recover" /\ UNCHANGED <<file, written>>
            /\ UNCHANGED <<commit, next, staged, outcome, script, errors, abrupt, litter>>

Recover == /\ at = "recover"
           /\ \E n \in Files : LastWritten(n) /\ Restore(n)
           /\ at' = "rollback"
           /\ UNCHANGED <<commit, next, staged, outcome, script, errors, abrupt, litter>>

(* A failure in the rollback ends it; a recovery file that was not renamed  *)
(* stays.                                                                   *)
RollbackFails == /\ at \in {"rollback", "recover"} /\ written # {} /\ Error
                 /\ litter' = (litter \/ at = "recover")
                 /\ at' = "cleanup"
                 /\ UNCHANGED <<file, commit, next, staged, written, outcome, script, abrupt>>

RolledBack == /\ at = "rollback" /\ written = {}
              /\ at' = "cleanup"
              /\ UNCHANGED <<file, commit, next, staged, written, outcome, script, errors, abrupt, litter>>

Cleanup == /\ at = "cleanup"
           /\ staged' = {}
           /\ outcome' = IF outcome = "running" THEN "succeeded" ELSE outcome
           /\ at' = "idle"
           /\ UNCHANGED <<file, commit, next, written, script, errors, abrupt, litter>>

(* The removal of a file that is not there does not fail.                   *)
CleanupFails == /\ at = "cleanup" /\ staged # {} /\ Error
                /\ litter' = TRUE /\ staged' = {}
                /\ outcome' = "failed" /\ at' = "idle"
                /\ UNCHANGED <<file, commit, next, written, script, abrupt>>

(* One KeyboardInterrupt per run; a temporary just made may not be known yet.*)
Interrupt == /\ ~abrupt
             /\ \/ at \in {"stage", "replace", "record"} /\ at' = "rollback"
                \/ at \in {"rollback", "recover"} /\ at' = "cleanup"
                \/ at = "cleanup" /\ at' = "idle"
             /\ outcome' = "failed" /\ abrupt' = TRUE
             /\ litter' \in {litter, TRUE}
             /\ UNCHANGED <<file, commit, next, staged, written, script, errors>>

Crash == /\ at \notin {"idle", "checked"}
         /\ at' = "idle" /\ outcome' = "failed" /\ abrupt' = TRUE /\ litter' = TRUE
         /\ UNCHANGED <<file, commit, next, staged, written, script, errors>>

--------------------------------------------------------------------------------
(* The check and the commit                                                 *)

CheckFirst == /\ at = "idle"
              /\ file[1] # Missing /\ at' = "checked"
              /\ UNCHANGED <<file, commit, next, staged, written, outcome, script, errors, abrupt, litter>>

(* --check, in the workflow after a run and in CI of whatever was pushed.   *)
Check == /\ at = "idle"
         /\ Fits(file) /\ at' = "checked"
         /\ UNCHANGED <<file, commit, next, staged, written, outcome, script, errors, abrupt, litter>>

Commit == /\ at = "checked"
          /\ commit' = file
          /\ at' = "idle"
          /\ UNCHANGED <<file, next, staged, written, outcome, script, errors, abrupt, litter>>

(* Back to what the repository has.                                         *)
Checkout == /\ at = "idle"
            /\ file' = commit
            /\ outcome' = "none"
            /\ UNCHANGED <<commit, at, next, staged, written, script, errors, abrupt, litter>>

OutputsInit == /\ commit \in {[n \in Files |-> g] : g \in Generations \cup {Missing}}
               /\ file = commit /\ before = commit
               /\ at = "idle" /\ next = 1 /\ new = Missing /\ outcome = "none"
               /\ backups = [n \in Files |-> Missing] /\ staged = {} /\ written = {}
               /\ errors = 0 /\ abrupt = FALSE /\ litter = FALSE

ReplaceOutputs == \/ Stage \/ Replace \/ Record \/ Fails
                  \/ Rollback \/ Recover \/ RollbackFails \/ RolledBack
                  \/ Cleanup \/ CleanupFails \/ Interrupt \/ Crash

OutputsNext == (\E g \in Generations : Start(g)) \/ ReplaceOutputs \/ Check \/ Commit \/ Checkout

OutputsSpec == OutputsInit /\ [][OutputsNext]_outputsVars

--------------------------------------------------------------------------------
(* Properties                                                               *)

(* Types.                                                                   *)
Labels == {"idle", "stage", "replace", "record", "rollback", "recover", "cleanup", "checked"}

OutputsTypeOK == /\ {file, commit, before, backups} \subseteq [Files -> Generations \cup {Missing}]
                 /\ at \in Labels /\ next \in Files /\ new \in Generations \cup {Missing}
                 /\ staged \subseteq Files /\ written \subseteq Files
                 /\ outcome \in {"none", "running", "failed", "succeeded"}
                 /\ errors \in 0 .. MaxErrors /\ abrupt \in BOOLEAN /\ litter \in BOOLEAN

(* A run of the script replaces all files or, when one of its calls fails,  *)
(* none, new files included; and it leaves no temporary.  Two failures, an  *)
(* interrupt or a crash may leave the files mixed.                          *)
AllOrNothing ==
    at = "idle" /\ ~abrupt =>
        /\ outcome = "succeeded" => (\A n \in Files : file[n] = new) /\ staged = {} /\ ~litter
        /\ outcome = "failed" /\ errors < 2 => file = before /\ staged = {} /\ ~litter

(* Files that were mixed never get past the check.                          *)
CommitFits == commit # [n \in Files |-> Missing] => Fits(commit)
================================================================================
