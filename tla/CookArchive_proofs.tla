--------------------------- MODULE CookArchive_proofs ---------------------------
(***************************************************************************)
(* Type correctness of the bridge's publication, the order and completeness *)
(* of the notifications it pushes, and of the cooks it archives, for every  *)
(* number of cooks, samples, notifications and failures.                   *)
(***************************************************************************)
EXTENDS CookArchive, SequenceTheorems, TLAPS

\* The bounds.  A chunk holds a sample at least.
Bounds ==
    /\ Full \in Nat \ {0} /\ StreamCap \in Nat \ {0} /\ Count \in Nat \ {0} /\ MaxCooks \in Nat /\ MaxRows \in Nat /\ MaxAlerts \in Nat
    /\ MaxRestarts \in Nat

Places == {"idle", "track", "create", "sample", "send", "close", "finish", "put",
           "forward", "push"}
Trackers == [name : Names \cup {NoName}, index : Indexes, buffer : Seq(1..MaxRows)]

\* What every step keeps.  A chunk that is closed held a sample, so there are no more
\* of them than samples.
GrillTypes ==
    /\ mode \in Modes /\ startup \in 0..cooks /\ cooks \in 0..MaxCooks
    /\ mode = "Startup" => cooks > 0
    /\ hurried \in BOOLEAN
SnapTypes ==
    /\ pc \in [Publishers -> Places] /\ snap \in [Publishers -> Snapshots]
    /\ \A p \in Publishers :
         pc[p] = "track" /\ Cooking(snap[p].mode)
           => snap[p].name \in Names /\ snap[p].name[1] <= cooks
CookTypes ==
    /\ tracker \in Trackers /\ tracker.index + Len(tracker.buffer) <= rows
    /\ docs \in [Names -> {"none", "active", "done", "error"}]
    /\ chunks \in [Names -> [Indexes -> Seq(1..MaxRows)]]
    /\ sampled \in [Names -> SUBSET (1..MaxRows)] /\ rows \in 0..MaxRows
NoteTypes ==
    /\ alerts \in 0..MaxAlerts /\ cursor \in 0..alerts /\ pushed \in Seq(1..MaxAlerts)
    /\ oldest \in 1..MaxAlerts + 1 /\ (alerts = 0 \/ oldest <= alerts) /\ (alerts = 0 => oldest = 1)
    /\ batch \in [from : 0..MaxAlerts, to : 0..MaxAlerts]
    /\ \A p \in Publishers : pc[p] \in {"forward", "push"} => p = "main"
    /\ \A p \in Publishers : pc[p] = "push" =>
         0 < batch.from /\ batch.from <= batch.to /\ batch.to <= alerts /\ cursor < batch.to
Types == GrillTypes /\ SnapTypes /\ CookTypes /\ NoteTypes /\ restarts \in 0..MaxRestarts

LEMMA NoCookType ==
    Bounds => NoCook \in Trackers /\ NoSnapshot \in Snapshots
              /\ NoBatch \in [from : 0..MaxAlerts, to : 0..MaxAlerts]
BY DEF Bounds, NoCook, NoSnapshot, Snapshots, Modes, Trackers, Indexes, NoBatch

LEMMA TypesInit == ASSUME Bounds, Init PROVE Types
<1>1. GrillTypes /\ SnapTypes
  <2>1. GrillTypes
    <3>1. mode = "Stop" /\ startup = 0 /\ cooks = 0 /\ hurried = FALSE
      BY DEF Init
    <3>2. mode \in Modes /\ startup \in 0..cooks /\ cooks \in 0..MaxCooks /\ (mode = "Startup" => cooks > 0)
      BY <3>1 DEF Bounds, Modes
    <3>3. hurried \in BOOLEAN
      BY <3>1
    <3> QED BY <3>2, <3>3, Zenon DEF GrillTypes
  <2>2. pc \in [Publishers -> Places] /\ snap \in [Publishers -> Snapshots]
    BY NoCookType DEF Init, Places
  <2>3. \A p \in Publishers : pc[p] # "track"
    BY DEF Init
  <2> QED BY <2>1, <2>2, <2>3 DEF SnapTypes
<1>2. CookTypes
  <2>1. tracker \in Trackers /\ tracker.index = 0 /\ Len(tracker.buffer) = 0
    BY NoCookType DEF Init, NoCook
  <2>2. docs \in [Names -> {"none", "active", "done", "error"}]
    BY DEF Init
  <2>3. chunks \in [Names -> [Indexes -> Seq(1..MaxRows)]]
    BY DEF Init
  <2>4. sampled \in [Names -> SUBSET (1..MaxRows)] /\ rows \in 0..MaxRows /\ rows = 0
    BY DEF Init, Bounds
  <2> QED BY <2>1, <2>2, <2>3, <2>4 DEF Init, CookTypes
<1>3. NoteTypes /\ restarts \in 0..MaxRestarts
  BY NoCookType DEF Bounds, Init, NoteTypes
<1> QED BY <1>1, <1>2, <1>3 DEF Types

\* A thread that goes on keeps the mode of its snapshot, or drops it; what the others
\* have read of the stream stays as it is.
LEMMA GoTypes ==
    ASSUME SnapTypes, NEW p \in Publishers, NEW place \in Places, place # "track", Bounds, Go(p, place),
           cooks' = cooks
    PROVE  SnapTypes'
<1>1. pc' \in [Publishers -> Places]
  BY DEF Go, SnapTypes
<1>2. snap' \in [Publishers -> Snapshots]
  BY DEF Go, SnapTypes, Snapshots, Modes
<1>3. \A q \in Publishers : pc'[q] = "track" => q # p /\ pc[q] = "track" /\ snap'[q] = snap[q]
  BY DEF Go, SnapTypes
<1> QED BY <1>1, <1>2, <1>3 DEF SnapTypes

LEMMA GoNotes ==
    ASSUME Types, NEW p \in Publishers, NEW place \in Places, Go(p, place),
           UNCHANGED <<alerts, oldest, cursor, batch, pushed>>,
           place \in {"forward", "push"} => p = "main", place # "push"
    PROVE  NoteTypes'
BY DEF Go, Types, SnapTypes, NoteTypes

LEMMA TypesNext == ASSUME Bounds, Types, [Next]_vars PROVE Types'
<1>. USE DEF Types
<1>1. ASSUME NEW p \in Publishers, Snapshot(p) PROVE Types'
  <2>1. GrillTypes' /\ CookTypes' /\ NoteTypes' /\ restarts' = restarts
    BY <1>1 DEF Snapshot, GrillTypes, SnapTypes, CookTypes, NoteTypes, grill, archive, notes
  <2>2. SnapTypes'
    <3> DEFINE now == [mode |-> mode, name |-> IF Cooking(mode) THEN Name ELSE NoName]
    <3>1. Cooking(mode) => Name \in Names
      BY DEF GrillTypes, Modes, Cooking, Name, Names, Bounds
    <3>2. now \in Snapshots /\ now.mode = mode /\ (Cooking(mode) => now.name \in Names)
      BY <3>1 DEF GrillTypes, Snapshots
    <3>3. pc' = [pc EXCEPT ![p] = "track"] /\ snap' = [snap EXCEPT ![p] = now]
      BY <1>1 DEF Snapshot
    <3> HIDE DEF now
    <3>4. \A q \in Publishers :
            (q # p => snap'[q] = snap[q] /\ pc'[q] = pc[q]) /\ snap'[p] = now
      BY <3>3 DEF SnapTypes
    <3>5. pc' \in [Publishers -> Places] /\ snap' \in [Publishers -> Snapshots]
      BY <3>2, <3>3 DEF SnapTypes, Places
    <3>6. ASSUME NEW q \in Publishers, pc'[q] = "track", Cooking(snap'[q].mode)
          PROVE  snap'[q].name \in Names /\ snap'[q].name[1] <= cooks'
      <4>1. Cooking(mode) => Name[1] <= cooks /\ cooks' = cooks
        BY <1>1 DEF Name, GrillTypes, Bounds, Snapshot, grill
      <4>2. CASE q = p
        BY <3>1, <3>2, <3>4, <3>6, <4>1, <4>2 DEF now
      <4>3. CASE q # p
        <5>1. cooks' = cooks /\ pc[q] = "track" /\ snap'[q] = snap[q]
          BY <1>1, <3>4, <3>6, <4>3 DEF Snapshot, grill
        <5> QED BY <3>6, <5>1 DEF SnapTypes
      <4> QED BY <4>2, <4>3
    <3> QED BY <3>5, <3>6 DEF SnapTypes
  <2> QED BY <2>1, <2>2
<1>2. ASSUME NEW p \in Publishers, Track(p) PROVE Types'
  <2>1. GrillTypes' /\ restarts' = restarts
    BY <1>2 DEF Track, GrillTypes, grill
  <2>2. PICK place \in {"create", "send", "sample"} : Go(p, place)
    BY <1>2 DEF Track
  <2>3. SnapTypes' /\ NoteTypes'
    BY <1>2, <2>2, GoTypes, GoNotes DEF Track, Places, grill, notes
  <2>4. CookTypes'
    <3>1. CASE Cooking(snap[p].mode) /\ tracker.name = NoName
      <4>1. snap[p].name \in Names
        BY <1>2, <3>1 DEF SnapTypes, Track
      <4>2. tracker' = [NoCook EXCEPT !.name = snap[p].name]
        BY <1>2, <3>1 DEF Track
      <4>3. tracker' \in Trackers /\ tracker'.index = 0 /\ tracker'.buffer = <<>>
        <5>1. tracker' = [name |-> snap[p].name, index |-> 0, buffer |-> <<>>]
          BY <4>2 DEF NoCook
        <5>2. 0 \in Indexes /\ <<>> \in Seq(1..MaxRows)
          BY DEF Indexes, Bounds
        <5> QED BY <4>1, <5>1, <5>2 DEF Trackers
      <4> QED BY <1>2, <4>3 DEF Track, CookTypes, archive
    <3>2. CASE ~(Cooking(snap[p].mode) /\ tracker.name = NoName)
      BY <1>2, <3>2 DEF Track, CookTypes, archive
    <3> QED BY <3>1, <3>2
  <2> QED BY <2>1, <2>3, <2>4
<1>3. ASSUME NEW p \in Publishers, Create(p) PROVE Types'
  <2>1. GrillTypes' /\ restarts' = restarts
    BY <1>3 DEF Create, GrillTypes, grill
  <2>2. PICK place \in {"idle", "sample"} : Go(p, place)
    BY <1>3 DEF Create
  <2>3. SnapTypes' /\ NoteTypes'
    BY <1>3, <2>2, GoTypes, GoNotes DEF Create, Places, grill, notes
  <2>4. CookTypes'
    BY <1>3 DEF Create, CookTypes
  <2> QED BY <2>1, <2>3, <2>4
<1>4. ASSUME NEW p \in Publishers, Sample(p) PROVE Types'
  <2>1. GrillTypes' /\ restarts' = restarts
    BY <1>4 DEF Sample, GrillTypes, grill
  <2>2. SnapTypes' /\ NoteTypes'
    <3>1. PICK place \in {"send", "put"} : Go(p, place)
      BY <1>4 DEF Sample
    <3> QED BY <1>4, <3>1, GoTypes, GoNotes DEF Sample, Places, grill, notes
  <2>3. CookTypes'
    <3>1. CASE rows' = rows + 1 /\ rows < MaxRows
      <4>1. /\ rows' = rows + 1
            /\ tracker' = [tracker EXCEPT !.buffer = Append(@, rows + 1)]
            /\ sampled' = [sampled EXCEPT ![tracker.name] = @ \cup {rows + 1}]
            /\ docs' = docs /\ chunks' = chunks
        BY <1>4, <3>1 DEF Sample, CookTypes
      <4>2. rows + 1 \in 1..MaxRows /\ tracker.buffer \in Seq(1..MaxRows)
        BY <3>1 DEF CookTypes, Bounds, Trackers
      <4>3. /\ Append(tracker.buffer, rows + 1) \in Seq(1..MaxRows)
            /\ Len(Append(tracker.buffer, rows + 1)) = Len(tracker.buffer) + 1
        BY <4>2
      <4>4. /\ tracker' \in Trackers /\ tracker'.index = tracker.index
            /\ tracker'.buffer = Append(tracker.buffer, rows + 1)
        BY <4>1, <4>3 DEF CookTypes, Trackers
      <4>5. tracker.index \in Nat /\ Len(tracker.buffer) \in Nat
        BY <4>2 DEF CookTypes, Trackers, Indexes
      <4>6. sampled' \in [Names -> SUBSET (1..MaxRows)]
        BY <4>1, <4>2 DEF CookTypes
      <4>7. tracker'.index + Len(tracker'.buffer) <= rows'
        BY <4>1, <4>3, <4>4, <4>5 DEF CookTypes
      <4>8. rows' \in 0..MaxRows
        BY <4>1, <4>2 DEF Bounds
      <4> QED BY <4>1, <4>4, <4>6, <4>7, <4>8 DEF CookTypes
    <3>2. CASE UNCHANGED <<rows, tracker, sampled>>
      BY <1>4, <3>2 DEF Sample, CookTypes
    <3> QED BY <1>4, <3>1, <3>2 DEF Sample
  <2> QED BY <2>1, <2>2, <2>3
<1>5. ASSUME NEW p \in Publishers, Send(p) PROVE Types'
  <2>1. GrillTypes' /\ restarts' = restarts
    BY <1>5 DEF Send, GrillTypes, grill
  <2>2. SnapTypes' /\ NoteTypes'
    <3>1. PICK place \in {"put", "finish", "idle", "close"} : Go(p, place)
      BY <1>5 DEF Send, AfterFlush
    <3> QED BY <1>5, <3>1, GoTypes, GoNotes DEF Send, Places, grill, notes
  <2>3. CookTypes'
    <3>1. \/ chunks' = chunks
          \/ chunks' = [chunks EXCEPT ![tracker.name][tracker.index] = tracker.buffer]
      BY <1>5 DEF Send
    <3>2. chunks' \in [Names -> [Indexes -> Seq(1..MaxRows)]]
      <4> DEFINE n == tracker.name  i == tracker.index  b == tracker.buffer
      <4>1. b \in Seq(1..MaxRows) /\ chunks \in [Names -> [Indexes -> Seq(1..MaxRows)]]
        BY DEF CookTypes, Trackers
      <4>2. chunks' = chunks \/ chunks' = [chunks EXCEPT ![n][i] = b]
        BY <3>1
      <4> HIDE DEF n, i, b
      <4>3. CASE n \in Names
        <5>1. [chunks[n] EXCEPT ![i] = b] \in [Indexes -> Seq(1..MaxRows)]
          BY <4>1, <4>3
        <5> QED BY <4>1, <4>2, <4>3, <5>1
      <4>4. CASE n \notin Names
        BY <4>1, <4>2, <4>4
      <4> QED BY <4>3, <4>4
    <3> QED BY <1>5, <3>2 DEF Send, CookTypes
  <2> QED BY <2>1, <2>2, <2>3
<1>6. ASSUME NEW p \in Publishers, Close(p) PROVE Types'
  <2>1. GrillTypes' /\ restarts' = restarts
    BY <1>6 DEF Close, GrillTypes, grill
  <2>2. SnapTypes' /\ NoteTypes'
    <3>1. PICK place \in {"put", "finish"} : Go(p, place)
      BY <1>6 DEF Close, AfterFlush
    <3> QED BY <1>6, <3>1, GoTypes, GoNotes DEF Close, Places, grill, notes
  <2>3. CookTypes'
    <3>1. /\ tracker.buffer \in Seq(1..MaxRows) /\ Len(tracker.buffer) \in Nat
          /\ tracker.index \in Nat
      BY DEF CookTypes, Trackers, Indexes
    <3>2. CASE Len(tracker.buffer) >= Full
      <4>1. tracker' = [tracker EXCEPT !.index = @ + 1, !.buffer = <<>>]
        BY <1>6, <3>2 DEF Close, Closed
      <4>2. tracker.index + 1 <= rows /\ rows \in 0..MaxRows
        BY <3>1, <3>2 DEF CookTypes, Bounds
      <4>3. tracker.index + 1 \in Indexes /\ <<>> \in Seq(1..MaxRows)
        BY <3>1, <4>2 DEF Indexes, Bounds
      <4>4. tracker' \in Trackers /\ tracker'.index = tracker.index + 1 /\ tracker'.buffer = <<>>
        BY <4>1, <4>3 DEF CookTypes, Trackers
      <4> QED BY <1>6, <3>1, <4>2, <4>4 DEF Close, CookTypes, archive
    <3>3. CASE ~(Len(tracker.buffer) >= Full)
      BY <1>6, <3>3 DEF Close, Closed, CookTypes, archive
    <3> QED BY <3>2, <3>3
  <2> QED BY <2>1, <2>2, <2>3
<1>7. ASSUME NEW p \in Publishers, Finish(p) PROVE Types'
  <2>1. GrillTypes' /\ restarts' = restarts
    BY <1>7 DEF Finish, GrillTypes, grill
  <2>2. SnapTypes' /\ NoteTypes'
    <3>1. PICK place \in {"put", "idle"} : Go(p, place)
      BY <1>7 DEF Finish
    <3> QED BY <1>7, <3>1, GoTypes, GoNotes DEF Finish, Places, grill, notes
  <2>3. CookTypes'
    <3>1. tracker' \in Trackers /\ tracker'.index + Len(tracker'.buffer) <= rows
      <4>1. tracker' = tracker \/ tracker' = NoCook
        BY <1>7 DEF Finish
      <4>2. NoCook \in Trackers /\ NoCook.index + Len(NoCook.buffer) <= rows
        BY NoCookType DEF NoCook, CookTypes
      <4> QED BY <4>1, <4>2 DEF CookTypes
    <3>2. docs' \in [Names -> {"none", "active", "done", "error"}]
      BY <1>7 DEF Finish, CookTypes
    <3> QED BY <1>7, <3>1, <3>2 DEF Finish, CookTypes
  <2> QED BY <2>1, <2>2, <2>3
<1>8. ASSUME NEW p \in Publishers, PutState(p) PROVE Types'
  <2>1. GrillTypes' /\ CookTypes' /\ restarts' = restarts
    BY <1>8 DEF PutState, GrillTypes, CookTypes, grill, archive
  <2>2. PICK place \in {"idle", "forward"} : Go(p, place) /\ (place = "forward" => p = "main")
    BY <1>8 DEF PutState
  <2>3. SnapTypes' /\ NoteTypes'
    BY <1>8, <2>2, GoTypes, GoNotes DEF PutState, Places, grill, notes
  <2> QED BY <2>1, <2>3
<1>9. ASSUME NEW p \in Publishers, Forward(p) PROVE Types'
  <2>1. GrillTypes' /\ CookTypes' /\ restarts' = restarts /\ p = "main"
    BY <1>9 DEF Forward, GrillTypes, CookTypes, grill, archive, NoteTypes
  <2>2. PICK place \in {"idle", "push"} : Go(p, place)
    BY <1>9 DEF Forward
  <2>3. SnapTypes'
    BY <1>9, <2>2, GoTypes DEF Places, Forward, grill
  <2>4. NoteTypes'
    <3>1. CASE cursor = alerts
      <4>1. Go(p, "idle") /\ batch' = batch
        BY <1>9, <3>1 DEF Forward
      <4> QED BY <1>9, <4>1, GoNotes DEF Forward, Places, grill
    <3>2. CASE cursor # alerts
      <4> DEFINE from == IF cursor < oldest THEN oldest ELSE cursor + 1
                 to == IF from + Count - 1 < alerts THEN from + Count - 1 ELSE alerts
      <4>1. batch' = [from |-> from, to |-> to] /\ Go(p, "push")
        BY <1>9, <3>2 DEF Forward
      <4>2. from \in 1..alerts /\ to \in 1..alerts /\ from <= to /\ cursor < from
        BY <3>2 DEF NoteTypes, Bounds
      <4>3. alerts \in 0..MaxAlerts /\ UNCHANGED <<alerts, oldest, cursor, pushed>>
        BY <1>9 DEF Forward, grill, NoteTypes
      <4> HIDE DEF from, to
      <4>4. /\ batch' \in [from : 0..MaxAlerts, to : 0..MaxAlerts]
            /\ 0 < batch'.from /\ batch'.from <= batch'.to /\ batch'.to <= alerts'
            /\ cursor' < batch'.to
        BY <4>1, <4>2, <4>3 DEF Bounds, NoteTypes
      <4>5. \A q \in Publishers : pc'[q] \in {"forward", "push"} => q = "main"
        BY <2>1, <4>1 DEF Go, NoteTypes, SnapTypes
      <4> QED BY <4>3, <4>4, <4>5 DEF NoteTypes
    <3> QED BY <3>1, <3>2
  <2> QED BY <2>1, <2>3, <2>4
<1>10. ASSUME NEW p \in Publishers, Push(p) PROVE Types'
  <2>1. GrillTypes' /\ CookTypes' /\ restarts' = restarts /\ p = "main" /\ pc[p] = "push"
    BY <1>10 DEF Push, GrillTypes, CookTypes, grill, archive, NoteTypes
  <2>2. PICK place \in {"idle", "push"} : Go(p, place)
    BY <1>10 DEF Push
  <2>3. SnapTypes'
    BY <1>10, <2>2, GoTypes DEF Places, Push, grill
  <2>4. Entry \in 1..alerts /\ cursor < Entry /\ Entry <= batch.to
    BY <2>1 DEF Entry, NoteTypes, Bounds
  <2>5. PICK raises \in BOOLEAN :
          /\ pushed' = pushed \/ pushed' = Append(pushed, Entry)
          /\ cursor' = IF raises THEN cursor ELSE Entry
          /\ Go(p, IF raises \/ Entry = batch.to THEN "idle" ELSE "push")
          /\ batch' = IF raises \/ Entry = batch.to THEN NoBatch ELSE batch
    BY <1>10 DEF Push, MoveCursor
  <2>6. pushed' \in Seq(1..MaxAlerts)
    <3>1. pushed \in Seq(1..MaxAlerts) /\ Entry \in 1..MaxAlerts
      BY <2>4 DEF NoteTypes, Bounds
    <3>2. Append(pushed, Entry) \in Seq(1..MaxAlerts)
      BY <3>1, AppendProperties
    <3> QED BY <2>5, <3>1, <3>2
  <2>7. NoteTypes'
    <3>1. UNCHANGED <<alerts, oldest>> /\ cursor' \in 0..alerts
      BY <1>10, <2>4, <2>5 DEF Push, grill, NoteTypes, Bounds
    <3>2. batch' \in [from : 0..MaxAlerts, to : 0..MaxAlerts]
      BY <2>5, NoCookType DEF NoteTypes
    <3>3. /\ \A q \in Publishers : q # p => pc'[q] = pc[q]
          /\ pc'[p] = (IF raises \/ Entry = batch.to THEN "idle" ELSE "push")
      BY <2>5 DEF Go, SnapTypes
    <3>4. \A q \in Publishers : pc'[q] \in {"forward", "push"} => q = "main"
      BY <2>1, <3>3 DEF NoteTypes
    <3>5. ASSUME NEW q \in Publishers, pc'[q] = "push"
          PROVE  0 < batch'.from /\ batch'.from <= batch'.to /\ batch'.to <= alerts'
                 /\ cursor' < batch'.to
      <4>1. q = p
        BY <2>1, <3>4, <3>5
      <4>2. ~raises /\ Entry # batch.to
        BY <3>3, <3>5, <4>1
      <4>3. batch' = batch /\ cursor' = Entry /\ Entry < batch.to
        <5>1. batch.to \in Nat /\ Entry \in Nat
          BY <2>4 DEF NoteTypes, Bounds
        <5> QED BY <2>4, <2>5, <4>2, <5>1
      <4> QED BY <2>1, <3>1, <4>3 DEF NoteTypes
    <3> QED BY <2>6, <3>1, <3>2, <3>4, <3>5 DEF NoteTypes
  <2> QED BY <2>1, <2>3, <2>7
<1>11. ASSUME NEW m \in Modes, ChangeMode(m) PROVE Types'
  <2>1. cooks' \in Nat /\ cooks <= cooks' /\ cooks' <= MaxCooks
    BY <1>11 DEF ChangeMode, GrillTypes, Bounds
  <2>2. GrillTypes'
    BY <1>11, <2>1 DEF ChangeMode, GrillTypes, Bounds
  <2>3. SnapTypes'
    <3>1. UNCHANGED <<pc, snap>> /\ cooks \in Nat
      BY <1>11 DEF ChangeMode, GrillTypes
    <3>2. ASSUME NEW p \in Publishers, pc[p] = "track", Cooking(snap[p].mode)
          PROVE  snap[p].name \in Names /\ snap[p].name[1] <= cooks'
      BY <2>1, <3>1, <3>2 DEF SnapTypes, Names, Bounds
    <3> QED BY <3>1, <3>2 DEF SnapTypes
  <2> QED BY <1>11, <2>2, <2>3 DEF ChangeMode, CookTypes, NoteTypes, archive, notes
<1>12. CASE WriteStatus \/ ClearStatus
  <2>1. GrillTypes'
    BY <1>12 DEF WriteStatus, ClearStatus, GrillTypes, Bounds
  <2> QED BY <1>12, <2>1 DEF WriteStatus, ClearStatus, SnapTypes, CookTypes, NoteTypes, archive,
     notes
<1>13. CASE Alert
  <2>1. GrillTypes' /\ SnapTypes' /\ CookTypes' /\ restarts' = restarts
    BY <1>13 DEF Alert, GrillTypes, SnapTypes, CookTypes, archive
  <2>2. /\ alerts' = alerts + 1 /\ alerts' \in 1..MaxAlerts
        /\ UNCHANGED <<pc, cursor, batch, pushed>>
    BY <1>13 DEF Alert, NoteTypes, notes, Bounds
  <2>3. oldest' \in 1..MaxAlerts + 1 /\ oldest' <= alerts'
    BY <1>13, <2>2 DEF Alert, NoteTypes, Bounds
  <2>4. NoteTypes'
    BY <2>2, <2>3 DEF NoteTypes, Bounds
  <2> QED BY <2>1, <2>4
<1>14. CASE Restart
  <2>1. GrillTypes' /\ restarts' \in 0..MaxRestarts
    BY <1>14 DEF Restart, GrillTypes, grill, Bounds
  <2>2. SnapTypes'
    BY <1>14, NoCookType DEF Restart, SnapTypes, Places
  <2>3. CookTypes'
    <3>1. NoCook \in Trackers /\ NoCook.index + Len(NoCook.buffer) <= rows
      BY NoCookType DEF NoCook, CookTypes
    <3> QED BY <1>14, <3>1 DEF Restart, CookTypes, archive
  <2>4. NoteTypes'
    BY <1>14, NoCookType DEF Restart, NoteTypes, grill
  <2> QED BY <2>1, <2>2, <2>3, <2>4
<1>15. CASE UNCHANGED vars
  BY <1>15 DEF vars, GrillTypes, SnapTypes, CookTypes, NoteTypes
<1> QED BY <1>1, <1>2, <1>3, <1>4, <1>5, <1>6, <1>7, <1>8, <1>9, <1>10, <1>11, <1>12, <1>13,
           <1>14, <1>15 DEF Next, Publish

LEMMA TypesOK == ASSUME Bounds, Types PROVE TypeOK
BY DEF Types, GrillTypes, SnapTypes, CookTypes, NoteTypes, TypeOK, Trackers, Places, Bounds

-----------------------------------------------------------------------------
(* The notifications.                                                      *)

\* While the bridge runs on: the pushes are in order and lack none before the cursor.
\* The one that is pushed next comes after all of them, and only entries that have been
\* trimmed are before it; it stays first in the stream, or next to the cursor, until it
\* has been pushed, and may then be pushed again.
NoteInv == restarts = 0 =>
    /\ InOrder /\ NoneSkipped
    /\ \A i \in 1..Len(pushed) : pushed[i] <= cursor + 1 \/ pushed[i] <= oldest
    /\ \A p \in Publishers : pc[p] = "push" =>
         /\ \A i \in 1..Len(pushed) : pushed[i] <= Entry
         /\ batch.from <= cursor + 1 \/ batch.from <= oldest

LEMMA NoteInit == Init => NoteInv
BY DEF Init, NoteInv, InOrder, NoneSkipped

\* A step that neither pushes nor reads.
LEMMA NoteSame ==
    ASSUME Bounds, Types, NoteInv, UNCHANGED <<notes, restarts>>, oldest' >= oldest, oldest' \in Nat,
           \A p \in Publishers : pc'[p] = "push" => pc[p] = "push"
    PROVE  NoteInv'
<1>1. /\ UNCHANGED <<pushed, cursor, batch, restarts>> /\ oldest \in Nat /\ cursor \in Nat
      /\ pushed \in Seq(Nat) /\ batch.from \in Nat
  <2>1. pushed \in Seq(1..MaxAlerts) /\ MaxAlerts \in Nat
    BY DEF Types, NoteTypes, Bounds
  <2> QED BY <2>1 DEF Types, NoteTypes, notes, Bounds
<1>2. restarts = 0 => InOrder' /\ NoneSkipped'
  BY <1>1 DEF NoteInv, InOrder, NoneSkipped
<1>3. \A i \in 1..Len(pushed) : pushed[i] \in Nat
  BY <1>1
<1>4. Entry' = Entry
  BY <1>1 DEF Entry
<1> QED BY <1>1, <1>2, <1>3, <1>4 DEF NoteInv

\* The entry is pushed, perhaps again, before the cursor passes it.
LEMMA NotePush ==
    ASSUME Bounds, Types, NoteInv, restarts = 0, NEW p \in Publishers, Push(p)
    PROVE  NoteInv'
<1>1. /\ pushed \in Seq(Nat) /\ cursor \in Nat /\ Len(pushed) \in Nat /\ oldest \in Nat
      /\ Entry \in Nat /\ Entry > cursor /\ batch.from \in Nat /\ pc[p] = "push"
      /\ UNCHANGED <<oldest, restarts>>
  BY DEF Types, NoteTypes, Bounds, Push, Entry, grill
<1>2. PICK effect \in BOOLEAN, raises \in BOOLEAN :
        /\ effect \/ raises
        /\ pushed' = IF effect THEN Append(pushed, Entry) ELSE pushed
        /\ cursor' = IF raises THEN cursor ELSE Entry
        /\ Go(p, IF raises \/ Entry = batch.to THEN "idle" ELSE "push")
        /\ batch' = IF raises \/ Entry = batch.to THEN NoBatch ELSE batch
  BY DEF Push, MoveCursor, Request
<1>3. /\ \A i \in 1..Len(pushed) : pushed[i] <= Entry /\ pushed[i] \in Nat
      /\ Entry <= cursor + 1 \/ Entry <= oldest
      /\ \A e \in Nat : e < Entry /\ e > cursor => e < oldest
  BY <1>1 DEF NoteInv, Entry
<1>4. PICK e : e = Entry
  OBVIOUS
<1>5. /\ pushed' \in Seq(Nat) /\ Len(pushed') \in Nat
      /\ \A i \in 1..Len(pushed) : i \in 1..Len(pushed') /\ pushed'[i] = pushed[i]
      /\ \A i \in 1..Len(pushed') : i \in 1..Len(pushed) \/ (i = Len(pushed) + 1 /\ pushed'[i] = e)
      /\ effect => Len(pushed') = Len(pushed) + 1 /\ pushed'[Len(pushed) + 1] = e
  BY <1>1, <1>2, <1>4
<1>6. \A i \in 1..Len(pushed') : pushed'[i] <= e /\ pushed'[i] \in Nat
  BY <1>1, <1>3, <1>4, <1>5
<1>7. InOrder'
  <2>1. ASSUME NEW i \in 1..Len(pushed'), NEW j \in 1..Len(pushed'), i < j
        PROVE  pushed'[i] <= pushed'[j]
    <3>1. CASE j \in 1..Len(pushed)
      <4>1. i \in 1..Len(pushed)
        BY <1>1, <2>1, <3>1
      <4> QED BY <1>1, <1>5, <2>1, <3>1, <4>1 DEF NoteInv, InOrder
    <3>2. CASE j = Len(pushed) + 1 /\ pushed'[j] = e
      BY <1>6, <3>2
    <3> QED BY <1>5, <3>1, <3>2
  <2> QED BY <2>1 DEF InOrder
<1>8. NoneSkipped'
  <2>1. ASSUME NEW k \in 1..cursor' PROVE k \in Range(pushed') \/ k < oldest'
    <3>1. CASE k <= cursor
      <4>1. k \in 1..cursor
        BY <1>1, <1>2, <3>1
      <4>2. k \in Range(pushed) \/ k < oldest
        BY <1>1, <4>1 DEF NoteInv, NoneSkipped
      <4>3. ASSUME k \in Range(pushed) PROVE k \in Range(pushed')
        <5>1. PICK i \in 1..Len(pushed) : k = pushed[i]
          BY <1>1, <4>3 DEF Range
        <5>2. i \in DOMAIN pushed' /\ k = pushed'[i]
          BY <1>5, <5>1
        <5> QED BY <5>2 DEF Range
      <4> QED BY <1>1, <4>2, <4>3
    <3>2. CASE k > cursor /\ k < e
      BY <1>1, <1>2, <1>3, <1>4, <3>2
    <3>3. CASE k = e /\ ~raises
      <4>1. Len(pushed) + 1 \in DOMAIN pushed' /\ k = pushed'[Len(pushed) + 1]
        BY <1>1, <1>2, <1>5, <3>3
      <4> QED BY <4>1 DEF Range
    <3>4. k \in Nat /\ (raises => k <= cursor) /\ k <= e
      BY <1>1, <1>2, <1>4
    <3> QED BY <1>1, <1>4, <3>1, <3>2, <3>3, <3>4
  <2> QED BY <2>1 DEF NoneSkipped
<1>9. \A i \in 1..Len(pushed') : pushed'[i] <= cursor' + 1 \/ pushed'[i] <= oldest'
  <2>1. e <= cursor' + 1 \/ e <= oldest'
    BY <1>1, <1>2, <1>3, <1>4
  <2>2. cursor' \in Nat /\ oldest' \in Nat /\ e \in Nat
    BY <1>1, <1>2, <1>4
  <2>3. ASSUME NEW i \in 1..Len(pushed')
        PROVE  pushed'[i] <= cursor' + 1 \/ pushed'[i] <= oldest'
    <3>1. PICK n : n = pushed'[i]
      OBVIOUS
    <3>2. n <= e /\ n \in Nat
      BY <1>6, <2>3, <3>1
    <3>3. PICK c, o : c = cursor' /\ o = oldest'
      OBVIOUS
    <3>4. c \in Nat /\ o \in Nat /\ (e <= c + 1 \/ e <= o)
      BY <2>1, <2>2, <3>3
    <3>5. ASSUME e <= c + 1 PROVE n <= c + 1
      BY <2>2, <3>2, <3>4, <3>5
    <3>6. ASSUME e <= o PROVE n <= o
      BY <2>2, <3>2, <3>4, <3>6
    <3> QED BY <3>1, <3>3, <3>4, <3>5, <3>6
  <2> QED BY <2>3
<1>10. ASSUME NEW q \in Publishers, pc'[q] = "push"
       PROVE  /\ \A i \in 1..Len(pushed') : pushed'[i] <= Entry'
              /\ batch'.from <= cursor' + 1 \/ batch'.from <= oldest'
  <2>1. q = p
    BY <1>2, <1>10, TypesNext DEF Types, NoteTypes, SnapTypes, Go, Push
  <2>2. ~raises /\ batch' = batch /\ cursor' = e /\ Entry # batch.to
    BY <1>2, <1>4, <1>10, <2>1 DEF Go, Types, SnapTypes
  <2>3. batch.from <= e
    BY <1>1, <1>4 DEF Entry
  <2>4. Entry' = e + 1
    BY <1>1, <1>4, <2>2, <2>3 DEF Entry
  <2> QED BY <1>1, <1>4, <1>6, <2>2, <2>3, <2>4
<1> QED BY <1>1, <1>7, <1>8, <1>9, <1>10 DEF NoteInv

LEMMA NoteNext == ASSUME Bounds, Types, NoteInv, [Next]_vars PROVE NoteInv'
<1>0. oldest \in Nat
  BY DEF Types, NoteTypes, Bounds
<1>1. ASSUME NEW p \in Publishers, Forward(p) PROVE NoteInv'
  <2>1. UNCHANGED <<oldest, cursor, pushed, restarts>> /\ pc[p] = "forward" /\ p = "main"
    BY <1>1 DEF Forward, grill, Types, NoteTypes
  <2>2. CASE cursor = alerts
    BY <1>0, <1>1, <2>1, <2>2, NoteSame DEF Forward, Go, notes, Types, SnapTypes
  <2>3. CASE cursor # alerts
    <3> DEFINE from == IF cursor < oldest THEN oldest ELSE cursor + 1
    <3>1. batch'.from = from
      BY <1>1, <2>3 DEF Forward
    <3>2. Entry' = from
      BY <1>0, <2>1, <3>1 DEF Entry, Types, NoteTypes, Bounds
    <3>3. restarts = 0 => \A i \in 1..Len(pushed) : pushed[i] <= from
      <4>1. /\ cursor \in Nat /\ \A i \in 1..Len(pushed) : pushed[i] \in Nat
        BY DEF Types, NoteTypes, Bounds
      <4> QED BY <1>0, <4>1 DEF NoteInv
    <3>4. from <= cursor + 1 \/ from <= oldest
      BY <1>0 DEF Types, NoteTypes
    <3>5. restarts = 0 => InOrder' /\ NoneSkipped'
      BY <2>1 DEF NoteInv, InOrder, NoneSkipped
    <3> HIDE DEF from
    <3> QED BY <2>1, <3>1, <3>2, <3>3, <3>4, <3>5 DEF NoteInv
  <2> QED BY <2>2, <2>3
<1>2. ASSUME NEW p \in Publishers, Push(p) PROVE NoteInv'
  <2>1. restarts' = restarts
    BY <1>2 DEF Push
  <2> QED BY <1>2, <2>1, NotePush DEF NoteInv
<1>3. CASE Restart
  BY <1>3 DEF Restart, NoteInv, Types
<1>4. ASSUME NEW p \in Publishers,
             \/ Snapshot(p) \/ Track(p) \/ Create(p) \/ Sample(p) \/ Send(p) \/ Close(p)
             \/ Finish(p) \/ PutState(p)
      PROVE  NoteInv'
  <2>1. UNCHANGED <<notes, restarts, oldest>>
    BY <1>4 DEF Snapshot, Track, Create, Sample, Send, Close, Finish, PutState, grill
  <2>2. \A q \in Publishers : pc'[q] = "push" => pc[q] = "push"
    BY <1>4 DEF Snapshot, Track, Create, Sample, Send, Close, Finish, PutState, AfterFlush, Go,
       Types, SnapTypes
  <2> QED BY <1>0, <2>1, <2>2, NoteSame
<1>5. CASE (\E m \in Modes : ChangeMode(m)) \/ WriteStatus \/ ClearStatus \/ UNCHANGED vars
  BY <1>0, <1>5, NoteSame DEF ChangeMode, WriteStatus, ClearStatus, vars, notes
<1>6. CASE Alert
  <2>1. oldest' \in Nat /\ oldest' >= oldest /\ UNCHANGED <<notes, restarts, pc>>
    BY <1>0, <1>6 DEF Alert, Bounds
  <2> QED BY <2>1, NoteSame
<1> QED BY <1>1, <1>2, <1>3, <1>4, <1>5, <1>6 DEF Next, Publish

\* MembersAreTold for any number of publishers, notifications and failures
\* (forward_notifications).
THEOREM NotificationsArrive == ASSUME Bounds PROVE Spec => []MembersAreTold
<1>1. Init => Types /\ NoteInv
  BY TypesInit, NoteInit
<1>2. Types /\ NoteInv /\ [Next]_vars => Types' /\ NoteInv'
  BY TypesNext, NoteNext
<1>3. NoteInv => MembersAreTold
  BY DEF NoteInv, MembersAreTold
<1> QED BY <1>1, <1>2, <1>3, PTL DEF Spec

-----------------------------------------------------------------------------
(* The archive, while main is the only publisher and the bridge runs on.   *)

Increasing(q) == \A k, l \in 1..Len(q) : k < l => q[k] < q[l]

\* What has been sampled into a cook is in its chunks and, of the tracker's cook, in
\* the buffer: the document of the current chunk is an earlier state of the buffer.
Kept(n) ==
    /\ Ordered(n) /\ sampled[n] \subseteq 1..rows
    /\ n # tracker.name => sampled[n] = Rows(n)
    /\ n = tracker.name =>
         /\ sampled[n] = Rows(n) \cup Range(tracker.buffer)
         /\ Increasing(tracker.buffer)
         /\ Range(chunks[n][tracker.index]) \subseteq Range(tracker.buffer)
         /\ \A i \in Indexes : i > tracker.index => chunks[n][i] = <<>>
         /\ \A i \in Indexes : i < tracker.index =>
              \A x \in Range(chunks[n][i]), y \in Range(tracker.buffer) : x < y
Whole == \A n \in Names : Kept(n)

\* A name is not given twice: the status has lost its timestamp, or is about to, when
\* a cook is over, and what begins then has a later number.
Used(n) == n = tracker.name \/ docs[n] # "none" \/ sampled[n] # {}
\* What the grill does next is no part of cook k.
After(k) ==
    /\ k <= cooks /\ (mode = "Startup" => cooks > k)
    /\ mode \notin {"Stop", "Error"} => startup = 0 \/ startup > k
Over == pc["main"] # "idle" /\ snap["main"].mode \in {"Stop", "Error"}
Starts == pc["main"] = "track" /\ tracker.name = NoName /\ Cooking(snap["main"].mode)
Fresh ==
    \A n \in Names : Used(n) =>
         /\ n[1] <= cooks
         /\ tracker.name = NoName \/ Over => After(n[1])
         /\ Starts => snap["main"].name[1] > n[1]

\* Where main is, and what has been written by then.
InPlace ==
    /\ tracker.name = NoName => tracker = NoCook
    /\ pc["main"] \in {"create", "send", "close", "finish"} => tracker.name # NoName
    /\ pc["main"] \in {"send", "close", "finish"} => snap["main"].mode # "Monitor"
    /\ pc["main"] = "close" => chunks[tracker.name][tracker.index] = tracker.buffer
    /\ pc["main"] = "finish" =>
         /\ ~Cooking(snap["main"].mode)
         /\ tracker.buffer = <<>> \/ chunks[tracker.name][tracker.index] = tracker.buffer

\* All of it, until the bridge restarts or a mode is begun over a status not cleared.
CookInv == restarts = 0 /\ ~hurried => Whole /\ Fresh /\ InPlace

\* A sequence no row is in, or one row more.
LEMMA EmptyRange ==
    ASSUME NEW S, NEW q \in Seq(S)
    PROVE  /\ Range(q) = {} => q = <<>>
           /\ \A i \in 1..Len(q) : q[i] \in Range(q)
           /\ \A x \in Range(q) : \E i \in 1..Len(q) : x = q[i]
BY DEF Range

LEMMA NoNameIsNone == Bounds => NoName \notin Names
BY DEF NoName, Names, Bounds

LEMMA CookInit == ASSUME Bounds, Publishers = {"main"}, Init PROVE CookInv
<1>1. ASSUME NEW n \in Names PROVE Kept(n) /\ ~Used(n)
  <2>1. /\ \A i \in Indexes : chunks[n][i] = <<>>
        /\ sampled[n] = {} /\ docs[n] = "none" /\ n # tracker.name
    BY <1>1, NoNameIsNone DEF Init, NoCook
  <2>2. Ordered(n)
    BY <2>1 DEF Ordered
  <2>3. Rows(n) = {}
    BY <2>1 DEF Rows, Range
  <2> QED BY <2>1, <2>2, <2>3 DEF Kept, Used
<1>2. InPlace
  BY DEF Init, InPlace, NoCook
<1> QED BY <1>1, <1>2 DEF CookInv, Whole, Fresh, Init

\* A cook nothing of which changes.
LEMMA KeptSame ==
    ASSUME NEW n \in Names, Kept(n), chunks'[n] = chunks[n], sampled'[n] = sampled[n],
           rows' = rows,
           tracker' = tracker \/ (n # tracker.name /\ n # tracker'.name)
    PROVE  Kept(n)'
BY DEF Kept, Ordered, Rows

\* A step of main after the first two.
LEMMA FreshStep ==
    ASSUME Fresh, UNCHANGED grill, pc'["main"] # "track",
           pc'["main"] = "idle" \/ (pc["main"] # "idle" /\ snap'["main"].mode = snap["main"].mode),
           \A n \in Names : Used(n)' => Used(n),
           tracker'.name = NoName => tracker.name = NoName \/ Over
    PROVE  Fresh'
BY DEF Fresh, grill, After, Over, Starts

LEMMA GoMain ==
    ASSUME Types, Publishers = {"main"}, NEW place, Go("main", place)
    PROVE  pc'["main"] = place /\ (place # "idle" => snap'["main"].mode = snap["main"].mode)
BY DEF Types, SnapTypes, Go

LEMMA SnapshotCook ==
    ASSUME Bounds, Types, Publishers = {"main"}, Whole, Fresh, InPlace, Snapshot("main")
    PROVE  Whole' /\ Fresh' /\ InPlace'
<1>1. Whole'
  BY KeptSame DEF Snapshot, Whole, archive
<1>2. InPlace'
  BY DEF Snapshot, InPlace, Types, SnapTypes
<1>3. /\ pc'["main"] = "track" /\ snap'["main"].mode = mode
      /\ Cooking(mode) => snap'["main"].name = Name
  BY DEF Snapshot, Types, SnapTypes
<1>4. UNCHANGED <<mode, startup, cooks, tracker, docs, sampled>>
  BY DEF Snapshot, grill, archive
<1>5. ASSUME NEW n \in Names, Used(n)
      PROVE  /\ n[1] <= cooks /\ n[1] \in Nat /\ cooks \in Nat
             /\ tracker.name = NoName => After(n[1])
  BY <1>5 DEF Fresh, Types, GrillTypes, Names, Bounds
<1>6. Cooking(mode) => mode = "Startup" /\ Name[1] = IF startup # 0 THEN startup ELSE cooks
  BY DEF Cooking, Types, GrillTypes, Modes, Name
<1>7. Fresh'
  <2>1. ASSUME NEW n \in Names, Used(n)'
        PROVE  /\ n[1] <= cooks' /\ (tracker'.name = NoName \/ Over' => After(n[1])')
               /\ Starts' => snap'["main"].name[1] > n[1]
    <3>1. Used(n)
      BY <1>4, <2>1 DEF Used
    <3>2. Over' => mode \in {"Stop", "Error"}
      BY <1>3 DEF Over
    <3>3. tracker'.name = NoName \/ Over' => After(n[1])'
      BY <1>4, <1>5, <3>1, <3>2 DEF After
    <3>4. Starts' => tracker.name = NoName /\ Cooking(mode)
      BY <1>3, <1>4 DEF Starts
    <3>5. Starts' => snap'["main"].name[1] > n[1]
      BY <1>3, <1>5, <1>6, <3>1, <3>4 DEF After
    <3> QED BY <1>4, <1>5, <3>1, <3>3, <3>5
  <2> QED BY <2>1 DEF Fresh
<1> QED BY <1>1, <1>2, <1>7

LEMMA TrackCook ==
    ASSUME Bounds, Types, Publishers = {"main"}, Whole, Fresh, InPlace, Track("main")
    PROVE  Whole' /\ Fresh' /\ InPlace'
<1>1. UNCHANGED <<mode, startup, cooks, docs, chunks, sampled, rows>> /\ pc["main"] = "track"
  BY DEF Track, grill, archive
<1>2. CASE Cooking(snap["main"].mode) /\ tracker.name = NoName
  <2>0. PICK m : m = snap["main"].name
    OBVIOUS
  <2>2. m \in Names
    BY <1>1, <1>2, <2>0 DEF Types, SnapTypes
  <2>3. ~Used(m)
    BY <1>1, <1>2, <2>0, <2>2 DEF Fresh, Starts, Names, Bounds
  <2>4. /\ tracker' = [name |-> m, index |-> 0, buffer |-> <<>>]
        /\ pc'["main"] = "create" /\ snap'["main"].mode = snap["main"].mode
    BY <1>2, <2>0, GoMain DEF Track, NoCook
  <2>5. ASSUME NEW n \in Names, n # m PROVE Kept(n)'
    BY <1>1, <1>2, <2>4, <2>5, KeptSame, NoNameIsNone DEF Whole
  <2>6. Kept(m)'
    <3>1. sampled[m] = {} /\ Rows(m) = {} /\ Ordered(m)
      BY <1>2, <2>2, <2>3, NoNameIsNone DEF Whole, Kept, Used
    <3>2. ASSUME NEW i \in Indexes PROVE chunks[m][i] = <<>>
      <4>1. chunks[m][i] \in Seq(1..MaxRows) /\ Range(chunks[m][i]) \subseteq Rows(m)
        BY <2>2 DEF Types, CookTypes, Rows
      <4>2. Range(chunks[m][i]) = {}
        BY <3>1, <4>1
      <4> QED BY <4>1, <4>2, EmptyRange
    <3>3. Range(<<>>) = {} /\ Increasing(<<>>)
      BY DEF Range, Increasing
    <3>4. 0 \in Indexes
      BY DEF Indexes, Bounds
    <3>5. tracker'.name = m /\ tracker'.index = 0 /\ tracker'.buffer = <<>>
      BY <2>4
    <3>6. Ordered(m)' /\ Rows(m)' = Rows(m)
      BY <1>1, <3>1 DEF Ordered, Rows
    <3>7. chunks'[m] = chunks[m] /\ sampled'[m] = sampled[m]
      BY <1>1
    <3> QED BY <3>1, <3>2, <3>3, <3>4, <3>5, <3>6, <3>7 DEF Kept
  <2>7. Fresh'
    <3>1. ~Over' /\ ~Starts' /\ tracker'.name # NoName
      BY <1>2, <2>2, <2>4, NoNameIsNone DEF Over, Starts, Cooking
    <3>2. m[1] <= cooks
      BY <1>1, <1>2, <2>0 DEF Types, SnapTypes
    <3>3. \A n \in Names : Used(n)' => n[1] <= cooks
      BY <1>1, <2>2, <2>4, <3>2 DEF Used, Fresh
    <3> QED BY <1>1, <3>1, <3>3 DEF Fresh
  <2>8. InPlace'
    BY <2>2, <2>4, NoNameIsNone DEF InPlace
  <2>9. Whole'
    BY <2>5, <2>6 DEF Whole
  <2> QED BY <2>7, <2>8, <2>9
<1>3. CASE ~(Cooking(snap["main"].mode) /\ tracker.name = NoName)
  <2>1. PICK place \in {"send", "sample"} :
          /\ Go("main", place) /\ tracker' = tracker
          /\ place = "send" => snap["main"].mode \in {"Stop", "Error"} /\ tracker.name # NoName
    BY <1>3 DEF Track
  <2>2. pc'["main"] = place /\ snap'["main"].mode = snap["main"].mode
    BY <2>1, GoMain
  <2>3. Whole'
    BY <1>1, <2>1, KeptSame DEF Whole
  <2>4. InPlace'
    BY <1>1, <2>1, <2>2 DEF InPlace
  <2>5. Fresh'
    BY <1>1, <2>1, <2>2, FreshStep DEF Used, grill, Track
  <2> QED BY <2>3, <2>4, <2>5
<1> QED BY <1>2, <1>3

LEMMA CreateCook ==
    ASSUME Bounds, Types, Publishers = {"main"}, Whole, Fresh, InPlace, Create("main")
    PROVE  Whole' /\ Fresh' /\ InPlace'
<1>1. /\ UNCHANGED <<grill, tracker, chunks, sampled, rows>> /\ pc["main"] = "create"
      /\ docs' = docs \/ docs' = [docs EXCEPT ![tracker.name] = "active"]
  BY DEF Create
<1>2. PICK place \in {"idle", "sample"} : Go("main", place)
  BY DEF Create
<1>3. pc'["main"] = place /\ (place # "idle" => snap'["main"].mode = snap["main"].mode)
  BY <1>2, GoMain
<1>4. Whole'
  BY <1>1, KeptSame DEF Whole
<1>5. \A n \in Names : Used(n)' => Used(n)
  BY <1>1 DEF Used, Types, CookTypes
<1>6. Fresh'
  BY <1>1, <1>3, <1>5, FreshStep
<1>7. InPlace'
  BY <1>1, <1>3 DEF InPlace
<1> QED BY <1>4, <1>6, <1>7

\* A row more than all before it.
LEMMA RowMore ==
    ASSUME NEW r \in Nat, NEW q \in Seq(Nat), Range(q) \subseteq 1..r, Increasing(q)
    PROVE  /\ Increasing(Append(q, r + 1))
           /\ Range(Append(q, r + 1)) = Range(q) \cup {r + 1}
<1> DEFINE a == Append(q, r + 1)
<1>1. /\ a \in Seq(Nat) /\ Len(a) = Len(q) + 1 /\ a[Len(q) + 1] = r + 1 /\ Len(q) \in Nat
      /\ \A i \in 1..Len(q) : a[i] = q[i]
  OBVIOUS
<1>2. \A i \in 1..Len(q) : q[i] \in 1..r /\ q[i] \in Range(q)
  BY EmptyRange
<1> HIDE DEF a
<1>3. Increasing(a)
  <2>1. ASSUME NEW k \in 1..Len(a), NEW l \in 1..Len(a), k < l PROVE a[k] < a[l]
    <3>1. k \in 1..Len(q) /\ (l \in 1..Len(q) \/ l = Len(q) + 1)
      <4>1. k \in 1..(Len(q) + 1) /\ l \in 1..(Len(q) + 1) /\ Len(q) \in Nat
        BY <1>1
      <4> QED BY <2>1, <4>1
    <3>2. CASE l \in 1..Len(q)
      BY <1>1, <2>1, <3>1, <3>2 DEF Increasing
    <3>3. CASE l = Len(q) + 1
      BY <1>1, <1>2, <3>1, <3>3
    <3> QED BY <3>1, <3>2, <3>3
  <2> QED BY <2>1 DEF Increasing
<1>4. Range(a) = Range(q) \cup {r + 1}
  <2>1. ASSUME NEW x \in Range(a) PROVE x \in Range(q) \cup {r + 1}
    <3>1. PICK i \in 1..Len(a) : x = a[i]
      BY <1>1, <2>1, EmptyRange
    <3>2. i \in 1..Len(q) \/ i = Len(q) + 1
      BY <1>1
    <3> QED BY <1>1, <1>2, <3>1, <3>2
  <2>2. ASSUME NEW x \in Range(q) PROVE x \in Range(a)
    <3>1. PICK i \in 1..Len(q) : x = q[i]
      BY <2>2, EmptyRange
    <3>2. i \in 1..Len(a) /\ a[i] = x
      BY <1>1, <3>1
    <3> QED BY <1>1, <3>2, EmptyRange
  <2>3. r + 1 \in Range(a)
    <3>1. Len(a) \in 1..Len(a) /\ a[Len(a)] = r + 1
      BY <1>1
    <3> QED BY <1>1, <3>1, EmptyRange
  <2> QED BY <2>1, <2>2, <2>3
<1> QED BY <1>3, <1>4 DEF a

LEMMA SampleCook ==
    ASSUME Bounds, Types, Publishers = {"main"}, Whole, Fresh, InPlace, Sample("main")
    PROVE  Whole' /\ Fresh' /\ InPlace'
<1>1. UNCHANGED <<grill, docs, chunks>> /\ pc["main"] = "sample"
  BY DEF Sample
<1>2. CASE tracker.name # NoName /\ Cooking(snap["main"].mode) /\ rows' # rows
  <2>1. /\ rows' = rows + 1
        /\ tracker' = [tracker EXCEPT !.buffer = Append(@, rows + 1)]
        /\ sampled' = [sampled EXCEPT ![tracker.name] = @ \cup {rows + 1}]
    BY <1>2 DEF Sample
  <2>2. PICK place \in {"send", "put"} : Go("main", place)
    BY <1>2 DEF Sample
  <2>3. pc'["main"] = place /\ snap'["main"].mode = snap["main"].mode
    BY <2>2, GoMain
  <2>4. PICK m, q, x : m = tracker.name /\ q = tracker.buffer /\ x = tracker.index
    OBVIOUS
  <2>5. /\ m \in Names /\ q \in Seq(Nat) /\ rows \in Nat /\ x \in Indexes
        /\ chunks \in [Names -> [Indexes -> Seq(1..MaxRows)]]
        /\ sampled \in [Names -> SUBSET (1..MaxRows)]
    BY <1>2, <2>4 DEF Types, CookTypes, Trackers, Bounds
  <2>6. /\ tracker'.name = m /\ tracker'.index = x
        /\ tracker'.buffer = Append(q, rows + 1)
    BY <2>1, <2>4 DEF Types, CookTypes, Trackers
  <2>7. Kept(m) /\ sampled[m] \subseteq 1..rows
    BY <2>5 DEF Whole, Kept
  <2>8. Increasing(q) /\ Range(q) \subseteq sampled[m] /\ Rows(m) \subseteq sampled[m]
    BY <2>4, <2>7 DEF Kept
  <2>9. /\ Increasing(Append(q, rows + 1))
        /\ Range(Append(q, rows + 1)) = Range(q) \cup {rows + 1}
    BY <2>5, <2>7, <2>8, RowMore
  <2>10. ASSUME NEW n \in Names, n # m PROVE Kept(n)'
    <3>1. sampled'[n] = sampled[n] /\ 1..rows \subseteq 1..rows'
      BY <2>1, <2>4, <2>5, <2>10
    <3>2. Ordered(n)' /\ Rows(n)' = Rows(n) /\ Ordered(n) /\ sampled[n] = Rows(n)
          /\ sampled[n] \subseteq 1..rows
      BY <1>1, <2>4, <2>10 DEF Ordered, Rows, Whole, Kept
    <3> QED BY <2>6, <2>10, <3>1, <3>2 DEF Kept
  <2>11. Kept(m)'
    <3>1. sampled'[m] = sampled[m] \cup {rows + 1} /\ sampled'[m] \subseteq 1..rows'
      BY <2>1, <2>4, <2>5, <2>7
    <3>2. Ordered(m)' /\ Rows(m)' = Rows(m) /\ Ordered(m)
      BY <1>1, <2>7 DEF Ordered, Rows, Kept
    <3>3. sampled[m] = Rows(m) \cup Range(q)
      BY <2>4, <2>7 DEF Kept
    <3>4. Range(chunks[m][x]) \subseteq Range(q)
      BY <2>4, <2>7 DEF Kept
    <3>5. \A i \in Indexes : i > x => chunks[m][i] = <<>>
      BY <2>4, <2>7 DEF Kept
    <3>6. ASSUME NEW i \in Indexes, i < x, NEW z \in Range(chunks[m][i]),
                 NEW y \in Range(q) \cup {rows + 1}
          PROVE  z < y
      <4>1. CASE y \in Range(q)
        BY <2>4, <2>7, <3>6, <4>1 DEF Kept
      <4>2. CASE y = rows + 1
        <5>1. z \in Rows(m)
          BY <3>6 DEF Rows
        <5>2. z \in 1..rows
          BY <2>7, <2>8, <5>1
        <5> QED BY <2>5, <4>2, <5>2
      <4> QED BY <4>1, <4>2
    <3> QED BY <1>1, <2>6, <2>9, <3>1, <3>2, <3>3, <3>4, <3>5, <3>6 DEF Kept
  <2>12. Whole'
    BY <2>10, <2>11 DEF Whole
  <2>13. \A n \in Names : Used(n)' => Used(n)
    BY <1>1, <2>1, <2>4, <2>5, <2>6 DEF Used
  <2>14. Fresh'
    BY <1>1, <1>2, <2>3, <2>6, <2>4, <2>13, FreshStep
  <2>15. InPlace'
    BY <1>1, <1>2, <2>3, <2>4, <2>6 DEF InPlace, Cooking
  <2> QED BY <2>12, <2>14, <2>15
<1>3. CASE Go("main", "put") /\ UNCHANGED <<rows, tracker, sampled>>
  <2>1. Go("main", "put") /\ UNCHANGED <<rows, tracker, sampled>>
    BY <1>3 DEF Sample
  <2>2. pc'["main"] = "put" /\ snap'["main"].mode = snap["main"].mode
    BY <2>1, GoMain
  <2>3. Whole'
    BY <1>1, <2>1, KeptSame DEF Whole
  <2>4. Fresh'
    BY <1>1, <2>1, <2>2, FreshStep DEF Used
  <2>5. InPlace'
    BY <1>1, <2>1, <2>2 DEF InPlace
  <2> QED BY <2>3, <2>4, <2>5
<1>4. \/ tracker.name # NoName /\ Cooking(snap["main"].mode) /\ rows' = rows + 1
      \/ Go("main", "put") /\ UNCHANGED <<rows, tracker, sampled>>
  BY DEF Sample
<1>5. rows + 1 # rows
  BY DEF Types, CookTypes
<1> QED BY <1>2, <1>3, <1>4, <1>5

LEMMA SendCook ==
    ASSUME Bounds, Types, Publishers = {"main"}, Whole, Fresh, InPlace, Send("main")
    PROVE  Whole' /\ Fresh' /\ InPlace'
<1>1. UNCHANGED <<grill, tracker, docs, sampled, rows>> /\ pc["main"] = "send"
  BY DEF Send
<1>2. PICK m, q, x : m = tracker.name /\ q = tracker.buffer /\ x = tracker.index
  OBVIOUS
<1>3. /\ m \in Names /\ q \in Seq(Nat) /\ rows \in Nat /\ x \in Nat /\ x \in Indexes
      /\ chunks \in [Names -> [Indexes -> Seq(1..MaxRows)]]
  BY <1>1, <1>2 DEF Types, CookTypes, Trackers, InPlace, Bounds, Indexes
<1>4. CASE tracker.buffer = <<>>
  <2>1. chunks' = chunks /\ Go("main", AfterFlush("main"))
    BY <1>4 DEF Send
  <2>2. pc'["main"] = AfterFlush("main") /\ snap'["main"].mode = snap["main"].mode
    BY <2>1, GoMain DEF AfterFlush
  <2>3. Whole'
    BY <1>1, <2>1, KeptSame DEF Whole
  <2>4. Fresh'
    BY <1>1, <2>1, <2>2, FreshStep DEF Used, AfterFlush
  <2>5. InPlace'
    BY <1>1, <1>4, <2>1, <2>2 DEF InPlace, AfterFlush
  <2> QED BY <2>3, <2>4, <2>5
<1>5. CASE tracker.buffer # <<>>
  <2>1. PICK effect \in BOOLEAN, raises \in BOOLEAN :
          /\ effect \/ raises
          /\ chunks' = IF effect THEN [chunks EXCEPT ![m][x] = q] ELSE chunks
          /\ Go("main", IF raises THEN "idle" ELSE "close")
    BY <1>2, <1>5 DEF Send, Request
  <2>2. /\ pc'["main"] = (IF raises THEN "idle" ELSE "close")
        /\ pc'["main"] # "idle" => snap'["main"].mode = snap["main"].mode
    BY <2>1, GoMain
  <2>3. Whole'
    <3>1. CASE ~effect
      BY <1>1, <2>1, <3>1, KeptSame DEF Whole
    <3>2. CASE effect
      <4>1. /\ \A n \in Names \ {m} : chunks'[n] = chunks[n]
            /\ chunks'[m][x] = q
            /\ \A i \in Indexes \ {x} : chunks'[m][i] = chunks[m][i]
        BY <1>3, <2>1, <3>2
      <4>2. ASSUME NEW n \in Names, n # m PROVE Kept(n)'
        BY <1>1, <4>1, <4>2, KeptSame DEF Whole
      <4>3. Kept(m)'
        <5>1. Kept(m)
          BY <1>3 DEF Whole
        <5>2. /\ Ordered(m) /\ Increasing(q) /\ Range(chunks[m][x]) \subseteq Range(q)
              /\ sampled[m] = Rows(m) \cup Range(q) /\ sampled[m] \subseteq 1..rows
              /\ \A i \in Indexes : i > x => chunks[m][i] = <<>>
              /\ \A i \in Indexes : i < x => \A y \in Range(chunks[m][i]), z \in Range(q) : y < z
          BY <1>2, <5>1 DEF Kept
        <5>3. sampled[m] = Rows(m)' \cup Range(q)
          <6>1. ASSUME NEW y \in Rows(m) PROVE y \in Rows(m)'
            <7>1. PICK i \in Indexes : y \in Range(chunks[m][i])
              BY <6>1 DEF Rows
            <7>2. y \in Range(chunks'[m][i])
              BY <4>1, <5>2, <7>1
            <7> QED BY <7>2 DEF Rows
          <6>2. ASSUME NEW y \in Rows(m)' PROVE y \in Rows(m) \cup Range(q)
            <7>1. PICK i \in Indexes : y \in Range(chunks'[m][i])
              BY <6>2 DEF Rows
            <7>2. y \in Range(chunks[m][i]) \/ y \in Range(q)
              BY <4>1, <7>1
            <7> QED BY <7>2 DEF Rows
          <6> QED BY <5>2, <6>1, <6>2
        <5>4. Ordered(m)'
          <6>1. ASSUME NEW i \in Indexes, NEW j \in Indexes,
                       NEW k \in 1..Len(chunks'[m][i]), NEW l \in 1..Len(chunks'[m][j]),
                       i < j \/ (i = j /\ k < l)
                PROVE  chunks'[m][i][k] < chunks'[m][j][l]
            <7>1. CASE i # x /\ j # x
              BY <4>1, <5>2, <6>1, <7>1 DEF Ordered
            <7>2. CASE i = x /\ j = x
              <8>1. k < l /\ chunks'[m][i] = q /\ chunks'[m][j] = q
                BY <1>3, <4>1, <6>1, <7>2
              <8> QED BY <5>2, <8>1 DEF Increasing
            <7>3. CASE i # x /\ j = x
              <8>1. i < x /\ chunks'[m][i] = chunks[m][i] /\ chunks[m][i] \in Seq(1..MaxRows)
                BY <1>3, <4>1, <6>1, <7>3
              <8>2. chunks'[m][i][k] \in Range(chunks[m][i]) /\ chunks'[m][j][l] \in Range(q)
                BY <1>3, <4>1, <7>3, <8>1, EmptyRange
              <8> QED BY <5>2, <8>1, <8>2
            <7>4. CASE i = x /\ j # x
              <8>1. j > x /\ chunks'[m][j] = <<>>
                BY <1>3, <4>1, <5>2, <6>1, <7>4 DEF Indexes
              <8> QED BY <8>1
            <7> QED BY <7>1, <7>2, <7>3, <7>4
          <6> QED BY <6>1 DEF Ordered
        <5>5. tracker'.name = m /\ tracker'.buffer = q /\ tracker'.index = x
          BY <1>1, <1>2
        <5>6. /\ \A i \in Indexes : i > x => chunks'[m][i] = <<>>
              /\ \A i \in Indexes : i < x => \A y \in Range(chunks'[m][i]), z \in Range(q) : y < z
          <6>1. \A i \in Indexes : i > x \/ i < x => chunks'[m][i] = chunks[m][i]
            <7>1. \A i \in Indexes : i > x \/ i < x => i # x
              BY <1>3
            <7> QED BY <4>1, <7>1
          <6> QED BY <5>2, <6>1
        <5> QED BY <1>1, <4>1, <5>2, <5>3, <5>4, <5>5, <5>6 DEF Kept
      <4> QED BY <4>2, <4>3 DEF Whole
    <3> QED BY <3>1, <3>2
  <2>4. Fresh'
    BY <1>1, <2>2, FreshStep DEF Used
  <2>5. InPlace'
    <3>1. pc'["main"] = "close" => chunks'[m][x] = q
      BY <1>3, <2>1, <2>2
    <3> QED BY <1>1, <1>2, <2>2, <3>1 DEF InPlace
  <2> QED BY <2>3, <2>4, <2>5
<1> QED BY <1>4, <1>5

LEMMA CloseCook ==
    ASSUME Bounds, Types, Publishers = {"main"}, Whole, Fresh, InPlace, Close("main")
    PROVE  Whole' /\ Fresh' /\ InPlace'
<1>1. /\ UNCHANGED <<grill, docs, chunks, sampled, rows>> /\ pc["main"] = "close"
      /\ tracker' = Closed(tracker) /\ Go("main", AfterFlush("main"))
  BY DEF Close, archive
<1>2. pc'["main"] = AfterFlush("main") /\ snap'["main"].mode = snap["main"].mode
  BY <1>1, GoMain DEF AfterFlush
<1>3. PICK m, q, x : m = tracker.name /\ q = tracker.buffer /\ x = tracker.index
  OBVIOUS
<1>4. /\ m \in Names /\ q \in Seq(Nat) /\ x \in Nat /\ x \in Indexes /\ chunks[m][x] = q
      /\ tracker \in Trackers /\ chunks \in [Names -> [Indexes -> Seq(1..MaxRows)]]
  BY <1>1, <1>3 DEF Types, CookTypes, Trackers, InPlace, Bounds, Indexes
<1>5. CASE Len(q) >= Full
  <2>1. tracker' = [tracker EXCEPT !.index = @ + 1, !.buffer = <<>>]
    BY <1>1, <1>3, <1>5 DEF Closed
  <2>2. tracker'.name = m /\ tracker'.index = x + 1 /\ tracker'.buffer = <<>>
    BY <1>3, <1>4, <2>1 DEF Trackers
  <2>3. x + 1 \in Indexes
    BY TypesNext, <1>1, <2>2 DEF Types, CookTypes, Trackers, Next, Publish
  <2>4. ASSUME NEW n \in Names, n # m PROVE Kept(n)'
    BY <1>1, <1>3, <2>2, <2>4, KeptSame DEF Whole
  <2>5. Kept(m)'
    <3>1. /\ Ordered(m) /\ sampled[m] = Rows(m) \cup Range(q) /\ sampled[m] \subseteq 1..rows
          /\ \A i \in Indexes : i > x => chunks[m][i] = <<>>
      BY <1>3, <1>4 DEF Whole, Kept
    <3>2. Range(q) \subseteq Rows(m)
      BY <1>4 DEF Rows
    <3>3. Range(<<>>) = {} /\ Increasing(<<>>)
      BY DEF Range, Increasing
    <3>4. Ordered(m)' /\ Rows(m)' = Rows(m)
      BY <1>1, <3>1 DEF Ordered, Rows
    <3>5. \A i \in Indexes : i > x + 1 => i > x
      BY <1>4 DEF Indexes
    <3>6. chunks[m][x + 1] = <<>>
      BY <1>4, <2>3, <3>1
    <3> QED BY <1>1, <2>2, <3>1, <3>2, <3>3, <3>4, <3>5, <3>6 DEF Kept
  <2>6. Whole'
    BY <2>4, <2>5 DEF Whole
  <2>7. Fresh'
    BY <1>1, <1>2, <1>3, <2>2, FreshStep DEF Used, AfterFlush
  <2>8. InPlace'
    BY <1>1, <1>2, <1>4, <2>2, NoNameIsNone DEF InPlace, AfterFlush
  <2> QED BY <2>6, <2>7, <2>8
<1>6. CASE ~(Len(q) >= Full)
  <2>1. tracker' = tracker
    BY <1>1, <1>3, <1>6 DEF Closed
  <2>2. Whole'
    BY <1>1, <2>1, KeptSame DEF Whole
  <2>3. Fresh'
    BY <1>1, <1>2, <2>1, FreshStep DEF Used, AfterFlush
  <2>4. InPlace'
    BY <1>1, <1>2, <1>3, <1>4, <2>1 DEF InPlace, AfterFlush
  <2> QED BY <2>2, <2>3, <2>4
<1> QED BY <1>5, <1>6

LEMMA FinishCook ==
    ASSUME Bounds, Types, Publishers = {"main"}, Whole, Fresh, InPlace, Finish("main")
    PROVE  Whole' /\ Fresh' /\ InPlace'
<1>1. /\ UNCHANGED <<grill, chunks, sampled, rows>> /\ pc["main"] = "finish"
      /\ tracker' = tracker \/ tracker' = NoCook
      /\ \/ docs' = docs
         \/ \E d : docs' = [docs EXCEPT ![tracker.name] = d]
  BY DEF Finish
<1>2. PICK place \in {"idle", "put"} : Go("main", place)
  BY DEF Finish
<1>3. pc'["main"] = place /\ (place # "idle" => snap'["main"].mode = snap["main"].mode)
  BY <1>2, GoMain
<1>4. Over
  BY <1>1 DEF Over, InPlace, Cooking
<1>5. PICK m : m = tracker.name
  OBVIOUS
<1>6. m \in Names /\ NoCook.name = NoName /\ NoName \notin Names /\ tracker.index \in Indexes
  BY <1>1, <1>5, NoNameIsNone DEF Types, CookTypes, Trackers, InPlace, NoCook
<1>7. ASSUME NEW n \in Names PROVE Kept(n)'
  <2>1. CASE n # m \/ tracker' = tracker
    BY <1>1, <1>5, <1>6, <2>1, KeptSame DEF Whole
  <2>2. CASE n = m /\ tracker' = NoCook
    <3>1. Ordered(n) /\ sampled[n] = Rows(n) \cup Range(tracker.buffer)
              /\ sampled[n] \subseteq 1..rows
      BY <1>5, <2>2 DEF Whole, Kept
    <3>2. Range(tracker.buffer) \subseteq Rows(n)
      <4>1. CASE tracker.buffer = <<>>
        BY <4>1 DEF Range
      <4>2. CASE chunks[n][tracker.index] = tracker.buffer
        BY <1>6, <4>2 DEF Rows
      <4> QED BY <1>1, <1>5, <2>2, <4>1, <4>2 DEF InPlace
    <3>3. Ordered(n)' /\ Rows(n)' = Rows(n)
      BY <1>1, <3>1 DEF Ordered, Rows
    <3>4. n # tracker'.name
      BY <1>6, <2>2
    <3> QED BY <1>1, <3>1, <3>2, <3>3, <3>4 DEF Kept
  <2> QED BY <1>1, <2>1, <2>2
<1>8. \A n \in Names : Used(n)' => Used(n)
  BY <1>1, <1>5, <1>6 DEF Used, Types, CookTypes
<1>9. Fresh'
  BY <1>1, <1>3, <1>4, <1>8, FreshStep
<1>10. InPlace'
  BY <1>1, <1>3, <1>6 DEF InPlace
<1> QED BY <1>7, <1>9, <1>10 DEF Whole

LEMMA OtherCook ==
    ASSUME Bounds, Types, Publishers = {"main"}, Whole, Fresh, InPlace,
           PutState("main") \/ Forward("main") \/ Push("main")
    PROVE  Whole' /\ Fresh' /\ InPlace'
<1>1. /\ UNCHANGED <<grill, tracker, docs, chunks, sampled, rows>>
      /\ pc["main"] \in {"put", "forward", "push"}
  BY DEF PutState, Forward, Push, archive
<1>2. PICK place \in {"idle", "forward", "push"} : Go("main", place)
  BY DEF PutState, Forward, Push
<1>3. pc'["main"] = place /\ (place # "idle" => snap'["main"].mode = snap["main"].mode)
  BY <1>2, GoMain
<1>4. Whole'
  BY <1>1, KeptSame DEF Whole
<1>5. Fresh'
  BY <1>1, <1>3, FreshStep DEF Used
<1>6. InPlace'
  BY <1>1, <1>3 DEF InPlace
<1> QED BY <1>4, <1>5, <1>6

\* What the control process does, but for a mode begun over a status not cleared.
LEMMA GrillCook ==
    ASSUME Bounds, Types, Whole, Fresh, InPlace, ~hurried',
           (\E m \in Modes : ChangeMode(m)) \/ WriteStatus \/ ClearStatus \/ Alert
    PROVE  Whole' /\ Fresh' /\ InPlace'
<1>1. UNCHANGED <<tracker, docs, chunks, sampled, rows, pc, snap>>
  BY DEF ChangeMode, WriteStatus, ClearStatus, Alert, archive
<1>2. Whole' /\ InPlace'
  BY <1>1, KeptSame DEF Whole, InPlace
<1>3. ASSUME NEW n \in Names PROVE n[1] \in Nat /\ n[1] > 0
  BY <1>3 DEF Names, Bounds
<1>4. cooks \in Nat /\ cooks' \in Nat /\ cooks <= cooks' /\ startup \in Nat
  BY DEF ChangeMode, WriteStatus, ClearStatus, Alert, Types, GrillTypes, Bounds
<1>5. ASSUME NEW k \in Nat, k > 0, After(k) PROVE After(k)'
  <2>1. CASE WriteStatus \/ ClearStatus \/ Alert
    BY <1>4, <1>5, <2>1 DEF After, WriteStatus, ClearStatus, Alert
  <2>2. ASSUME NEW m \in Modes, ChangeMode(m) PROVE After(k)'
    <3>1. /\ mode' = m /\ startup' = startup /\ (m = "Startup" => cooks' = cooks + 1)
          /\ mode \in {"Stop", "Error"} /\ m \notin {"Stop", "Error"} => startup = 0
      BY <2>2 DEF ChangeMode
    <3> QED BY <1>4, <1>5, <3>1 DEF After
  <2> QED BY <2>1, <2>2
<1>6. Fresh'
  BY <1>1, <1>3, <1>4, <1>5 DEF Fresh, Used, Over, Starts
<1> QED BY <1>2, <1>6

LEMMA CookNext ==
    ASSUME Bounds, Types, Publishers = {"main"}, CookInv, [Next]_vars
    PROVE  CookInv'
<1>1. CASE Restart
  BY <1>1 DEF Restart, CookInv, Types
<1>2. CASE UNCHANGED vars
  BY <1>2 DEF vars, CookInv, Whole, Kept, Ordered, Rows, Fresh, Used, After, Over, Starts, InPlace
<1>3. ASSUME ~Restart, Next PROVE CookInv'
  <2>1. restarts' = restarts /\ (hurried => hurried')
    <3>1. CASE \E p \in Publishers : Publish(p)
      BY <3>1 DEF Publish, Snapshot, Track, Create, Sample, Send, Close, Finish, PutState,
         Forward, Push, grill
    <3>2. CASE \E m \in Modes : ChangeMode(m)
      BY <3>2 DEF ChangeMode
    <3>3. CASE WriteStatus \/ ClearStatus \/ Alert
      BY <3>3 DEF WriteStatus, ClearStatus, Alert
    <3> QED BY <1>3, <3>1, <3>2, <3>3 DEF Next
  <2>2. ASSUME Whole, Fresh, InPlace, ~hurried' PROVE Whole' /\ Fresh' /\ InPlace'
    <3>1. CASE Publish("main")
      BY <2>2, <3>1, SnapshotCook, TrackCook, CreateCook, SampleCook, SendCook, CloseCook,
         FinishCook, OtherCook DEF Publish
    <3>2. CASE (\E m \in Modes : ChangeMode(m)) \/ WriteStatus \/ ClearStatus \/ Alert
      BY <2>2, <3>2, GrillCook
    <3> QED BY <1>3, <3>1, <3>2 DEF Next
  <2> QED BY <2>1, <2>2 DEF CookInv
<1> QED BY <1>1, <1>2, <1>3

LEMMA CookHolds == ASSUME CookInv PROVE CookIsArchived
<1>1. ASSUME restarts = 0, ~hurried, NEW n \in Names
      PROVE  /\ Archived(n) = sampled[n] /\ Ordered(n)
             /\ tracker.name # n => Rows(n) = sampled[n]
  <2>1. Kept(n)
    BY <1>1 DEF CookInv, Whole
  <2>2. Archived(n) = Rows(n) \cup (IF tracker.name = n THEN Range(tracker.buffer) ELSE {})
    BY DEF Archived
  <2>3. CASE tracker.name = n
    <3>1. Archived(n) = Rows(n) \cup Range(tracker.buffer)
      BY <2>2, <2>3
    <3> QED BY <2>1, <2>3, <3>1 DEF Kept
  <2>4. CASE tracker.name # n
    <3>1. Archived(n) = Rows(n)
      BY <2>2, <2>4
    <3> QED BY <2>1, <2>4, <3>1 DEF Kept
  <2> QED BY <2>3, <2>4
<1> QED BY <1>1 DEF CookIsArchived, NothingTruncated, ClosedIsComplete

\* CookIsArchived for any number of cooks, samples, rows in a chunk and failures, while
\* main is the only thread that publishes (publish_state).
THEOREM CooksAreComplete ==
    ASSUME Bounds, Publishers = {"main"}
    PROVE  Spec => []CookIsArchived
<1>1. Init => Types /\ CookInv
  BY TypesInit, CookInit
<1>2. Types /\ CookInv /\ [Next]_vars => Types' /\ CookInv'
  BY TypesNext, CookNext
<1>3. CookInv => CookIsArchived
  BY CookHolds
<1> QED BY <1>1, <1>2, <1>3, PTL DEF Spec

=============================================================================
