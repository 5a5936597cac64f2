----------------------------- MODULE CookArchive -----------------------------
(***************************************************************************)
(* What the bridge publishes (bridge/sync.py 97-217): the state put in   *)
(* the Realtime Database, the notifications read from the Redis stream  *)
(* (core/events.py) and pushed to the cloud, and the cook archive, samples *)
(* kept in a buffer and written to Firestore chunk by chunk.               *)
(*                                                                         *)
(* publish_state is called by the main loop and, after a command, by the   *)
(* listener thread, on one CookTracker without a lock; between two network *)
(* requests a thread is one step.  A request succeeds, fails, or succeeds  *)
(* and raises because its answer is lost.  Samples are numbered; a cook is *)
(* named by its start and by which of two clocks the name was taken from.  *)
(***************************************************************************)
EXTENDS Naturals, Sequences, Functions

CONSTANTS
    Publishers,  \* the threads that publish: "main", or "main" and "listener"
    Full,        \* SAMPLES_PER_CHUNK
    StreamCap,   \* MAX_LEN of the stream: trimming leaves at least so many entries
    Count,       \* how many entries a tick reads at most
    MaxCooks, MaxRows, MaxAlerts, MaxRestarts, \* bounds of the model
    MaxFaults    \* bound of the model: requests that raise, and restarts

VARIABLES
    mode, startup, \* of the control hash, and status.startup_timestamp
    cooks,    \* how many cooks have been started
    tracker,  \* self.cook: the cook's name, the chunk's index, the buffer
    pc, snap, \* per publisher: where it is, and the snapshot it works on
    docs, chunks,   \* the cook documents, and the rows of every chunk document
    sampled,  \* sampled[id]: the rows ever sampled into the cook of that name
    rows,     \* how many there are of all cooks
    alerts, oldest, \* entries ever added to the stream, and the oldest one left in it
    cursor, batch, pushed, \* the last entry forwarded, those a tick has read, pushes
    restarts, faults,
    hurried   \* ghost: a mode was begun before main() cleared the status of a stop

grill == <<mode, startup, cooks, alerts, oldest, hurried>>
archive == <<docs, chunks, sampled, rows>>
notes == <<cursor, batch, pushed>>
vars == <<mode, startup, cooks, alerts, tracker, pc, snap, docs, chunks,
          sampled, rows, cursor, pushed, restarts, faults, hurried, oldest, batch>>

Modes == {"Stop", "Error", "Monitor", "Startup"}
Names == (1..MaxCooks) \X (0..MaxRestarts + 1)
NoName == <<0, 0>>
NoCook == [name |-> NoName, index |-> 0, buffer |-> <<>>]
Indexes == 0..MaxRows
Snapshots == [mode : Modes, name : Names \cup {NoName}]
NoSnapshot == [mode |-> "Stop", name |-> NoName]
NoBatch == [from |-> 0, to |-> 0]

TypeOK ==
    /\ mode \in Modes /\ startup \in 0..MaxCooks /\ cooks \in 0..MaxCooks
    /\ tracker.name \in Names \cup {NoName} /\ tracker.index \in Indexes
    /\ tracker.buffer \in Seq(1..MaxRows)
    /\ pc \in [Publishers -> {"idle", "track", "create", "sample", "send", "close", "finish", "put", "forward", "push"}]
    /\ snap \in [Publishers -> Snapshots]
    /\ docs \in [Names -> {"none", "active", "done", "error"}]
    /\ cursor \in 0..MaxAlerts /\ pushed \in Seq(1..MaxAlerts)
    /\ oldest \in 1..MaxAlerts + 1 /\ batch \in [from : 0..MaxAlerts, to : 0..MaxAlerts]

Init ==
    /\ mode = "Stop" /\ startup = 0 /\ cooks = 0 /\ alerts = 0
    /\ tracker = NoCook
    /\ pc = [p \in Publishers |-> "idle"]
    /\ snap = [p \in Publishers |-> NoSnapshot]
    /\ docs = [n \in Names |-> "none"]
    /\ chunks = [n \in Names |-> [i \in Indexes |-> <<>>]]
    /\ sampled = [n \in Names |-> {}] /\ rows = 0
    /\ cursor = 0 /\ batch = NoBatch /\ pushed = <<>> /\ oldest = 1
    /\ restarts = 0 /\ faults = 0 /\ hurried = FALSE

\* A request: whether it has its effect, and whether it raises.
Request(effect, raises) ==
    \/ effect /\ ~raises /\ UNCHANGED faults
    \/ raises /\ faults < MaxFaults /\ faults' = faults + 1

\* The snapshot is a local of publish_state: what is not read again is dropped.
Go(p, place) ==
    /\ pc' = [pc EXCEPT ![p] = place]
    /\ snap' = [snap EXCEPT ![p] =
         [mode |-> IF place = "idle" THEN "Stop" ELSE snap[p].mode, name |-> NoName]]

Cooking(m) == m \notin {"Stop", "Error", "Monitor"}

-----------------------------------------------------------------------------
(* publish_state.                                                          *)

\* c_<startup timestamp>, or the clock when the status does not have one yet.
Name == IF startup # 0 THEN <<startup, 0>> ELSE <<cooks, restarts + 1>>

\* The snapshot is taken; nothing of it is read again.
Snapshot(p) ==
    /\ pc[p] = "idle"
    /\ snap' = [snap EXCEPT ![p] =
         [mode |-> mode, name |-> IF Cooking(mode) THEN Name ELSE NoName]]
    /\ pc' = [pc EXCEPT ![p] = "track"]
    /\ UNCHANGED <<grill, tracker, archive, notes, restarts, faults>>

\* _track_cook and _start_cook: the tracker is set before the document is written.
Track(p) ==
    /\ pc[p] = "track"
    /\ LET s == snap[p]
       IN  IF Cooking(s.mode) /\ tracker.name = NoName
           THEN tracker' = [NoCook EXCEPT !.name = s.name] /\ Go(p, "create")
           ELSE /\ UNCHANGED tracker
                /\ IF s.mode \in {"Stop", "Error"} /\ tracker.name # NoName
                   THEN Go(p, "send") ELSE Go(p, "sample")
    /\ UNCHANGED <<grill, archive, notes, restarts, faults>>

\* The whole document is written, whatever was there.
Create(p) ==
    /\ pc[p] = "create"
    /\ \E effect, raises \in BOOLEAN :
         /\ Request(effect, raises)
         /\ docs' = IF effect THEN [docs EXCEPT ![tracker.name] = "active"] ELSE docs
         /\ Go(p, IF raises THEN "idle" ELSE "sample")
    /\ UNCHANGED <<grill, tracker, chunks, sampled, rows, notes, restarts>>

\* _sample: a row, or none while the interval since the last one has not passed; the
\* buffer is flushed when it is full or SAMPLE_FLUSH_S have passed.
Sample(p) ==
    /\ pc[p] = "sample"
    /\ \/ /\ tracker.name # NoName /\ Cooking(snap[p].mode) /\ rows < MaxRows
          /\ rows' = rows + 1
          /\ tracker' = [tracker EXCEPT !.buffer = Append(@, rows + 1)]
          /\ sampled' = [sampled EXCEPT ![tracker.name] = @ \cup {rows + 1}]
          /\ \/ Go(p, "send")
             \/ Len(tracker'.buffer) < Full /\ Go(p, "put")
       \/ Go(p, "put") /\ UNCHANGED <<rows, tracker, sampled>>
    /\ UNCHANGED <<grill, docs, chunks, notes, restarts, faults>>

\* Where a publisher goes when its flush is over: _end_cook goes on.
AfterFlush(p) == IF Cooking(snap[p].mode) THEN "put" ELSE "finish"

\* flush_samples up to the request: the document of the current chunk is written
\* again with the rows the buffer has now.
Send(p) ==
    /\ pc[p] = "send"
    /\ IF tracker.buffer = <<>>
       THEN Go(p, AfterFlush(p)) /\ UNCHANGED <<chunks, faults>>
       ELSE \E effect, raises \in BOOLEAN :
              /\ Request(effect, raises)
              /\ chunks' = IF effect THEN [chunks EXCEPT ![tracker.name][tracker.index] = tracker.buffer]
                           ELSE chunks
              /\ Go(p, IF raises THEN "idle" ELSE "close")
    /\ UNCHANGED <<grill, tracker, docs, sampled, rows, notes, restarts>>

\* Mutant: the buffer is emptied after every flush.
CloseAlways(t) == [t EXCEPT !.buffer = <<>>]

\* A chunk is closed once it is full.
Closed(t) == IF Len(t.buffer) >= Full THEN [t EXCEPT !.index = @ + 1, !.buffer = <<>>] ELSE t

\* flush_samples after the request.
Close(p) ==
    /\ pc[p] = "close"
    /\ tracker' = Closed(tracker)
    /\ Go(p, AfterFlush(p))
    /\ UNCHANGED <<grill, archive, notes, restarts, faults>>

\* _end_cook: the document is closed, and only then the tracker is given up.
Finish(p) ==
    /\ pc[p] = "finish"
    /\ \E effect, raises \in BOOLEAN :
         /\ Request(effect, raises)
         /\ docs' = IF effect /\ tracker.name # NoName
                    THEN [docs EXCEPT ![tracker.name] = IF snap[p].mode = "Error" THEN "error" ELSE "done"]
                    ELSE docs
         /\ tracker' = IF raises THEN tracker ELSE NoCook
         /\ Go(p, IF raises THEN "idle" ELSE "put")
    /\ UNCHANGED <<grill, chunks, sampled, rows, notes, restarts>>

\* The state is put unless it hashes like the one put last; the hash is over all of
\* the snapshot, temperatures included, so either may be.  main's tick goes on.
PutState(p) ==
    /\ pc[p] = "put"
    /\ \/ p = "main" /\ Go(p, "forward") /\ UNCHANGED faults
       \/ \E effect, raises \in BOOLEAN :
            /\ Request(effect, raises)
            /\ Go(p, IF raises \/ p # "main" THEN "idle" ELSE "forward")
    /\ UNCHANGED <<grill, tracker, archive, notes, restarts>>

-----------------------------------------------------------------------------
(* forward_notifications, the last call of the tick.                       *)

\* The entries after the cursor that are still in the stream, at most Count of them:
\* those that were trimmed meanwhile are passed over.
Forward(p) ==
    /\ pc[p] = "forward"
    /\ LET from == IF cursor < oldest THEN oldest ELSE cursor + 1
           most == from + Count - 1
       IN  IF cursor = alerts
           THEN Go(p, "idle") /\ UNCHANGED batch
           ELSE /\ batch' = [from |-> from, to |-> IF most < alerts THEN most ELSE alerts]
                /\ Go(p, "push")
    /\ UNCHANGED <<grill, tracker, archive, cursor, pushed, restarts, faults>>

\* The entry of the batch that is pushed next.
Entry == IF cursor < batch.from THEN batch.from ELSE cursor + 1

\* Mutant: the cursor is moved before the push.
MoveFirst(raises) == cursor' = Entry

\* The cursor is moved when the push has been answered.
MoveCursor(raises) == cursor' = IF raises THEN cursor ELSE Entry

Push(p) ==
    /\ pc[p] = "push"
    /\ \E effect, raises \in BOOLEAN :
         /\ Request(effect, raises)
         /\ pushed' = IF effect THEN Append(pushed, Entry) ELSE pushed
         /\ MoveCursor(raises)
         /\ LET over == raises \/ Entry = batch.to
            IN  /\ Go(p, IF over THEN "idle" ELSE "push")
                /\ batch' = IF over THEN NoBatch ELSE batch
    /\ UNCHANGED <<grill, tracker, archive, restarts>>

-----------------------------------------------------------------------------
(* The control process, the clock and the supervisor.                      *)

\* The mode in the control structure changes: a request is merged, or a work cycle
\* writes Stop or Error.  The status keeps its timestamp; Startup stands for every
\* mode in which a cook is archived.
ChangeMode(m) ==
    /\ m # mode /\ mode' = m
    /\ IF m = "Startup" THEN cooks < MaxCooks /\ cooks' = cooks + 1 ELSE UNCHANGED cooks
    /\ hurried' = (hurried \/ (mode \in {"Stop", "Error"} /\ m \notin {"Stop", "Error"} /\ startup # 0))
    /\ UNCHANGED <<startup, alerts, oldest, tracker, pc, snap, archive, notes, restarts, faults>>

\* main()'s Stop branch, which comes to the status only after the work cycle's
\* clean-up, the metrics and the cook file: a mode merged by then goes before it.
ClearStatus ==
    /\ mode \in {"Stop", "Error"} /\ startup # 0 /\ startup' = 0
    /\ UNCHANGED <<mode, cooks, hurried, alerts, oldest, tracker, pc, snap, archive,
                   notes, restarts, faults>>

\* The work cycle writes its first status.
WriteStatus ==
    /\ mode = "Startup" /\ startup # cooks /\ startup' = cooks
    /\ UNCHANGED <<mode, cooks, hurried, alerts, oldest, tracker, pc, snap, archive,
                   notes, restarts, faults>>

\* publish_notification: an entry more in the stream, which is trimmed now and then
\* (approximate), never below StreamCap entries.
Alert ==
    /\ alerts < MaxAlerts /\ alerts' = alerts + 1
    /\ \E o \in oldest..MaxAlerts :
         oldest' = o /\ (o = oldest \/ alerts' - o + 1 >= StreamCap)
    /\ UNCHANGED <<mode, startup, cooks, hurried, tracker, pc, snap, archive, notes,
                   restarts, faults>>

\* The process is restarted: a new Bridge has no cook, no hash, and starts to
\* read the stream at its end.  The SystemExit skips the last flush_samples.
Restart ==
    /\ restarts < MaxRestarts /\ faults < MaxFaults
    /\ restarts' = restarts + 1 /\ faults' = faults + 1
    /\ tracker' = NoCook
    /\ cursor' = alerts /\ batch' = NoBatch
    /\ pc' = [p \in Publishers |-> "idle"] /\ snap' = [p \in Publishers |-> NoSnapshot]
    /\ UNCHANGED <<grill, archive, pushed>>

Publish(p) ==
    \/ Snapshot(p) \/ Track(p) \/ Create(p) \/ Sample(p) \/ Send(p) \/ Close(p)
    \/ Finish(p) \/ PutState(p) \/ Forward(p) \/ Push(p)

Next ==
    \/ \E p \in Publishers : Publish(p)
    \/ \E m \in Modes : ChangeMode(m)
    \/ ClearStatus \/ WriteStatus \/ Alert \/ Restart

Spec == Init /\ [][Next]_vars

-----------------------------------------------------------------------------
(* Properties.                                                             *)

\* The samples of a cook are in its chunks or still in the buffer, whichever
\* requests failed, and in their order: a long cook is never truncated, as long
\* as the bridge is not restarted (the chunk's index lives in memory).
Rows(n) == UNION {Range(chunks[n][i]) : i \in Indexes}
Archived(n) == Rows(n) \cup IF tracker.name = n THEN Range(tracker.buffer) ELSE {}

NothingTruncated == \A n \in Names : Archived(n) = sampled[n]

\* A cook that is closed has all its rows in the archive, once each and in order:
\* a row comes after those before it in its chunk and after those of earlier chunks.
Ordered(n) ==
    \A i, j \in Indexes : \A k \in 1..Len(chunks[n][i]), l \in 1..Len(chunks[n][j]) :
        i < j \/ (i = j /\ k < l) => chunks[n][i][k] < chunks[n][j][l]
ClosedIsComplete ==
    \A n \in Names :
        docs[n] \in {"done", "error"} /\ tracker.name # n
            => Ordered(n) /\ Rows(n) = sampled[n]

\* Of a bridge that runs on.  A cook that begins while the status still has the last
\* one's timestamp gets its name again: its chunks replace the other's.
CookIsArchived == restarts = 0 /\ ~hurried => NothingTruncated /\ ClosedIsComplete

\* While the bridge runs on, a notification is never pushed after a later one, and the
\* cursor passes an entry only when it has been pushed or the stream has dropped it,
\* whichever requests fail on the way.
InOrder == \A i, j \in 1..Len(pushed) : i < j => pushed[i] <= pushed[j]
NoneSkipped == \A e \in 1..cursor : e \in Range(pushed) \/ e < oldest
MembersAreTold == restarts = 0 => InOrder /\ NoneSkipped

=============================================================================
