-------------------------------- MODULE Updater --------------------------------
(***************************************************************************)
(* The software update (core/updater.py) and the installer it runs         *)
(* (deploy/install.sh --upgrade --from-dir): one thread of the web server  *)
(* checks, downloads, verifies and unpacks a release, then waits for the   *)
(* script, which copies the release into place, installs it, links it as   *)
(* the current one and restarts the processes, the server among them.      *)
(*                                                                         *)
(* A release is named by its tag, and by the version its own manifest      *)
(* gives, which need not be spelled alike.                                 *)
(***************************************************************************)
EXTENDS Integers, FiniteSets

CONSTANTS
    Threads,  \* requests to update
    Faults    \* bound of the model: steps that fail, restarts

VARIABLES
    manifest, \* the version in the new release's manifest
    releases, \* the directories under releases/
    current,  \* where the link `current' points
    running,  \* the version the processes run, as settings.json has it
    status,   \* the status the app polls
    update,   \* the step each request's thread is at
    lock,     \* the thread that holds _lock
    faults

vars == <<manifest, releases, current, running, status, update, lock, faults>>

Nobody == "nobody"
Old == "old"
Tag == "new"       \* the tag of the latest release
Renamed == "new.0" \* the same release, spelled otherwise in its manifest
Directories == {Old, Tag, Renamed}

TypeOK ==
    /\ manifest \in {Tag, Renamed}
    /\ releases \in [Directories -> {"none", "partial", "whole"}]
    /\ current \in Directories /\ running \in Directories
    /\ status \in {"idle", "checking", "downloading", "extracting", "installing", "done", "error"}
    /\ update \in [Threads -> {"none", "started", "checking", "downloading", "extracting", "removing",
                               "copying", "linking", "restarting", "finishing", "over"}]
    /\ lock \in Threads \cup {Nobody}

Init ==
    /\ manifest \in {Tag, Renamed}
    /\ releases = [r \in Directories |-> IF r = Old THEN "whole" ELSE "none"]
    /\ current = Old /\ running = Old
    /\ status = "idle"
    /\ update = [t \in Threads |-> "none"]
    /\ lock = Nobody
    /\ faults = 0

At(t, step) == update[t] = step
Goto(t, step) == update' = [update EXCEPT ![t] = step]

\* start_update: refused while the lock is held.
Ask(t) ==
    /\ At(t, "none") /\ lock = Nobody
    /\ Goto(t, "started")
    /\ UNCHANGED <<manifest, releases, current, running, status, lock, faults>>

\* Mutant: start_update's look at the lock is all there is.
AcquireAnyway(t) ==
    /\ At(t, "started")
    /\ lock' = t /\ status' = "checking" /\ Goto(t, "checking")
    /\ UNCHANGED <<manifest, releases, current, running, faults>>

\* The thread takes the lock, or leaves if another one was faster.
Acquire(t) ==
    /\ At(t, "started")
    /\ IF lock = Nobody
       THEN lock' = t /\ status' = "checking" /\ Goto(t, "checking")
       ELSE Goto(t, "over") /\ UNCHANGED <<lock, status>>
    /\ UNCHANGED <<manifest, releases, current, running, faults>>

Check(t) ==
    /\ At(t, "checking")
    /\ IF running = Old
       THEN status' = "downloading" /\ Goto(t, "downloading") /\ UNCHANGED lock
       ELSE status' = "done" /\ Goto(t, "over") /\ lock' = Nobody
    /\ UNCHANGED <<manifest, releases, current, running, faults>>

Download(t) ==
    /\ At(t, "downloading")
    /\ status' = "extracting"
    /\ Goto(t, "extracting")
    /\ UNCHANGED <<manifest, releases, current, running, lock, faults>>

\* extract empties the tag's directory first.
Extract(t) ==
    /\ At(t, "extracting")
    /\ releases' = [releases EXCEPT ![Tag] = "whole"]
    /\ status' = "installing"
    /\ Goto(t, "removing")
    /\ UNCHANGED <<manifest, current, running, lock, faults>>

-----------------------------------------------------------------------------
(* install.sh --upgrade --from-dir=releases/<tag>.                         *)

\* rm -rf releases/<version>, which may be the directory it installs from.
Remove(t) ==
    /\ At(t, "removing")
    /\ releases' = [releases EXCEPT ![manifest] = "none"]
    /\ Goto(t, "copying")
    /\ UNCHANGED <<manifest, current, running, status, lock, faults>>

Copy(t) ==
    /\ At(t, "copying") /\ releases[Tag] = "whole"
    /\ releases' = [releases EXCEPT ![manifest] = "whole"]
    /\ Goto(t, "linking")
    /\ UNCHANGED <<manifest, current, running, status, lock, faults>>

Link(t) ==
    /\ At(t, "linking")
    /\ current' = manifest
    /\ Goto(t, "restarting")
    /\ UNCHANGED <<manifest, releases, running, status, lock, faults>>

\* The control process takes the settings to the new version.  When the script
\* restarts the server it ends the threads there.
Restart(t) ==
    /\ At(t, "restarting")
    /\ running' = current
    /\ \/ Goto(t, "finishing") /\ UNCHANGED lock
       \/ /\ update' = [u \in Threads |-> IF At(u, "none") THEN "none" ELSE "over"]
          /\ lock' = Nobody
    /\ UNCHANGED <<manifest, releases, current, status, faults>>

\* An exception, or the script's exit under set -e.
Raises(t) ==
    /\ status' = "error"
    /\ Goto(t, "over")
    /\ lock' = Nobody
    /\ UNCHANGED <<manifest, current, running>>

\* The copy has nothing to copy when the directory was its own source.
CopyFails(t) ==
    /\ At(t, "copying") /\ releases[Tag] # "whole"
    /\ Raises(t)
    /\ UNCHANGED <<releases, faults>>

\* The script's last command is a test that fails when upgrading, which makes its
\* exit status 1: whatever it did is reported as a failure.
Finish(t) ==
    /\ At(t, "finishing")
    /\ Raises(t)
    /\ UNCHANGED <<releases, faults>>

\* No network, a checksum that does not match, a full disk, a package that does
\* not build, nginx or supervisor refusing.
Fail(t) ==
    /\ faults < Faults
    /\ \E step \in {"checking", "downloading", "extracting", "copying", "linking", "restarting"} :
            At(t, step)
    /\ releases' = [releases EXCEPT ![Tag] = IF At(t, "extracting") THEN "partial" ELSE @,
                                    ![manifest] = IF At(t, "copying") /\ @ = "none" THEN "partial" ELSE @]
    /\ faults' = faults + 1
    /\ Raises(t)

Step(t) ==
    \/ Acquire(t) \/ Check(t) \/ Download(t) \/ Extract(t)
    \/ Remove(t) \/ Copy(t) \/ CopyFails(t) \/ Link(t) \/ Restart(t) \/ Finish(t)

Next == \E t \in Threads : Ask(t) \/ Step(t) \/ Fail(t)

\* A thread that has started goes on; nothing makes the owner ask.
Spec == Init /\ [][Next]_vars /\ \A t \in Threads : WF_vars(Step(t))

-----------------------------------------------------------------------------
(* Properties.                                                             *)

\* Two requests that both found the lock free, or one made while a script still
\* runs, never change the releases together: the directory one of them removes
\* and copies is not the other's.
Working(t) == update[t] \notin {"none", "started", "over"}
OneUpdateAtATime == \A t, u \in Threads : Working(t) /\ Working(u) => t = u

\* "Runs deploy/install.sh --upgrade --from-dir to install dependencies and swap
\* the current symlink" (core/updater.py): an update in which nothing fails
\* makes the release current.
UpdateIsInstalled == \A t \in Threads : lock = t ~> (current = manifest \/ faults > 0)
=============================================================================
