------------------------------ MODULE SettingsFile ------------------------------
(***************************************************************************)
(* settings.json and its backups (common.py), as the control process, the  *)
(* web server and the display use them: every change reads the whole file, *)
(* alters its copy and writes the whole file back, which truncates it      *)
(* first; a file that cannot be parsed is replaced by the backup made when *)
(* this version was last left, or by the defaults; the control process     *)
(* takes the settings of another version up or down when it starts.        *)
(*                                                                         *)
(* Of the settings the model keeps the version that wrote them, whether a  *)
(* password is set, whether the first-run wizard is due, and one value for *)
(* the owner's choices.                                                    *)
(***************************************************************************)
EXTENDS Integers

CONSTANTS
    Threads,  \* the server's requests, the display: whatever changes settings
    Versions, \* the versions that may be installed, numbers
    Old,      \* the last version whose settings force the wizard (1.7)
    Uses,     \* bound of the model: requests
    Installs, \* bound of the model: updates and roll-backs
    Faults    \* bound of the model: crashes, reads that give up

VARIABLES
    file,    \* settings.json, or Torn
    backups, \* the manifest's server_settings, with the files it names
    code,    \* the version installed
    up,      \* the control process has read its settings
    job,     \* what each thread is doing
    told,    \* (history) what the owner asked for, and asked for in each version
    quiet,   \* (history) nothing has crashed, overlapped or been rolled forward
    left

vars == <<file, backups, code, up, job, told, quiet, left>>

Choices == {"default", "owner"}
Settings == [ver : Versions, choice : Choices, auth : BOOLEAN, wizard : BOOLEAN]
Torn == [ver |-> 0]
NoBackup == [ver |-> 0]
Idle == [step |-> "idle"]
Procs == Threads \cup {"control"}

\* default_settings, which a fresh installation starts from.
Defaults == [ver |-> code, choice |-> "default", auth |-> FALSE, wizard |-> TRUE]

TypeOK ==
    /\ file \in Settings \cup {Torn}
    /\ backups \in [Versions -> Settings \cup {NoBackup}]
    /\ code \in Versions /\ up \in BOOLEAN /\ quiet \in BOOLEAN
    /\ \A p \in Procs : job[p].step \in {"idle", "held", "truncated", "again"}

Told(choice, auth) == [choice |-> choice, auth |-> auth]
Never == [choice |-> "default", auth |-> FALSE]

Init ==
    /\ code \in Versions
    /\ file = Defaults
    /\ backups = [v \in Versions |-> NoBackup]
    /\ up = FALSE
    /\ job = [p \in Procs |-> Idle]
    /\ told = [now |-> Never, kept |-> [v \in Versions |-> Never]]
    /\ quiet = TRUE
    /\ left = [uses |-> Uses, installs |-> Installs, faults |-> Faults]

Alone(p) == \A q \in Procs \ {p} : job[q] = Idle

-----------------------------------------------------------------------------
(* Reading.                                                                *)

Restored == IF backups[code] # NoBackup THEN backups[code] ELSE Defaults

\* upgrade_settings moves what changed its place, which keeps its meaning, and
\* asks for the wizard after an old version.
Upgraded(s) == [s EXCEPT !.ver = code, !.wizard = @ \/ s.ver <= Old]

\* The settings a start makes of those it read.
Started(s) ==
    IF s.ver < code THEN Upgraded(s)
    ELSE IF s.ver > code THEN Restored
    ELSE s

\* Mutant: the backup is listed under the version being installed.
ListedAsNew(s) == IF s.ver # code THEN [backups EXCEPT ![code] = s] ELSE backups

\* backup_settings copies the file and lists the copy under its version.
BackedUp(s) == IF s.ver # code THEN [backups EXCEPT ![s.ver] = s] ELSE backups

Holds(p, op, s) == job' = [job EXCEPT ![p] = [step |-> "held", op |-> op, copy |-> s]]

\* read_settings(init=True): the control process starts, or a backup was
\* imported.
ReadInit(p) ==
    /\ \/ p = "control" /\ ~up /\ job[p] = Idle
       \/ job[p].step = "again"
    /\ file # Torn
    /\ Holds(p, "init", Started(file))
    /\ backups' = BackedUp(file)
    /\ quiet' = (quiet /\ Alone(p))
    /\ UNCHANGED <<file, code, up, told, left>>

\* Mutant: a file that cannot be read is read again for ever.
ReadForEver(p) == p \in Threads /\ file = Torn /\ FALSE /\ UNCHANGED vars

\* Six reads in a row met a file being written, or one a crash has torn.
GiveUp(p) ==
    /\ file = Torn
    /\ \/ p \in Threads /\ job[p] = Idle
       \/ p = "control" /\ ~up /\ job[p] = Idle
       \/ job[p].step = "again"
    /\ \A q \in Procs : job[q].step # "truncated" \/ left.faults > 0
    /\ left' = [left EXCEPT !.faults = IF @ > 0 THEN @ - 1 ELSE @]
    /\ Holds(p, "init", Restored)
    /\ quiet' = FALSE
    /\ UNCHANGED <<file, backups, code, up, told>>

-----------------------------------------------------------------------------
(* Changing.                                                               *)

\* factory_reset keeps the password.
FactoryReset(s) == [Defaults EXCEPT !.auth = s.auth]

\* _restore_settings keeps this device's own auth block.
Imported(s, doc) == [doc EXCEPT !.auth = s.auth]

Change(op, s) ==
    CASE op = "patch" -> [s EXCEPT !.choice = "owner"]
      [] op = "password" -> [s EXCEPT !.auth = TRUE]
      [] op = "wizard" -> [s EXCEPT !.wizard = FALSE]
      [] op = "reset" -> FactoryReset(s)

Begin(p, op, copy) ==
    /\ p \in Threads /\ job[p] = Idle /\ file # Torn
    /\ left.uses > 0
    /\ left' = [left EXCEPT !.uses = @ - 1]
    /\ Holds(p, op, copy)
    /\ quiet' = (quiet /\ up /\ Alone(p) /\ ~(op = "import" /\ copy.ver > code))
    /\ UNCHANGED <<file, backups, code, up, told>>

\* apply_patch, set_password, the wizard and factory_reset.  (A second password
\* must be asked for as a replacement.)
Use(p) == \E op \in {"patch", "password", "wizard", "reset"} : Begin(p, op, Change(op, file))

Import(p) ==
    \E v \in Versions :
        Begin(p, "import",
              Imported(file, [ver |-> v, choice |-> "owner", auth |-> TRUE, wizard |-> FALSE]))

-----------------------------------------------------------------------------
(* Writing.                                                                *)

\* open(..., 'w') empties the file; the text arrives when it is closed.
Truncate(p) ==
    /\ job[p].step = "held"
    /\ file' = Torn
    /\ job' = [job EXCEPT ![p].step = "truncated"]
    /\ UNCHANGED <<backups, code, up, told, quiet, left>>

\* (An imported backup of an older version is that version's last one.)
Heard(op, s) ==
    CASE op \in {"patch", "reset"} -> [told EXCEPT !.now.choice = s.choice]
      [] op = "import" ->
            [told EXCEPT !.now.choice = s.choice,
                         !.kept[s.ver] = IF s.ver = code THEN @ ELSE Told(s.choice, s.auth)]
      [] op = "password" -> [told EXCEPT !.now.auth = TRUE]
      [] OTHER -> told

Fill(p) ==
    /\ job[p].step = "truncated"
    /\ file' = job[p].copy
    /\ up' = (up \/ p = "control")
    /\ told' = Heard(job[p].op, job[p].copy)
    /\ job' = [job EXCEPT ![p] = IF job[p].op = "import" THEN [step |-> "again"] ELSE Idle]
    /\ UNCHANGED <<backups, code, quiet, left>>

-----------------------------------------------------------------------------
(* Updates, roll-backs, crashes.                                           *)

\* What a version's owner may expect to find when it is installed.
Expected(v) == IF v > code THEN told.now ELSE told.kept[v]

\* The updater changes the code and restarts the processes.
Install(v) ==
    /\ up /\ v # code /\ left.installs > 0
    /\ \A p \in Procs : job[p] = Idle
    /\ code' = v
    /\ up' = FALSE
    /\ told' = [now |-> Expected(v), kept |-> [told.kept EXCEPT ![code] = told.now]]
    /\ left' = [left EXCEPT !.installs = @ - 1]
    /\ UNCHANGED <<file, backups, job, quiet>>

Crash ==
    /\ left.faults > 0
    /\ left' = [left EXCEPT !.faults = @ - 1]
    /\ up' = FALSE
    /\ job' = [p \in Procs |-> Idle]
    /\ quiet' = (quiet /\ \A p \in Procs : job[p] = Idle)
    /\ UNCHANGED <<file, backups, code, told>>

Step(p) == ReadInit(p) \/ GiveUp(p) \/ Truncate(p) \/ Fill(p)

Next ==
    \/ \E p \in Procs : Step(p)
    \/ \E p \in Threads : Use(p) \/ Import(p)
    \/ \E v \in Versions : Install(v)
    \/ Crash

\* A process that has begun to read or to write goes on.
Spec == Init /\ [][Next]_vars /\ \A p \in Procs : WF_vars(Step(p))

-----------------------------------------------------------------------------
(* Properties.                                                             *)

\* Through updates, roll-backs, resets and imports, as long as no two changes
\* overlapped and nothing was cut short, the file holds what its owner last
\* asked for in the version that is installed (nobody having changed it before the
\* control process had read it): an update keeps it, a roll-back
\* brings back what that version was left with, password included, and a
\* factory reset or an import keeps the password.
SettingsAreTheOwners ==
    quiet /\ up /\ (\A p \in Procs : job[p] = Idle) =>
        /\ file # Torn
        /\ file.ver = code
        /\ Told(file.choice, file.auth) = told.now

\* Whatever was cut short, a settings file that cannot be read is replaced: no
\* crash leaves the control process without settings for good.
Unreadable == file = Torn
FileIsMended == Unreadable ~> ~Unreadable
=============================================================================
