--------------------------- MODULE CloudBridge_proofs ---------------------------
(***************************************************************************)
(* Theorems about CloudBridge, for every number of commands and Bridge     *)
(* objects and every course of the network.                                *)
(***************************************************************************)
EXTENDS CloudBridge, FiniteSetTheorems, SequenceTheorems, TLAPS

-----------------------------------------------------------------------------
(* Sequences of commands.                                                  *)

\* Reading documents gives a sequence without repetition of those there are.
LEMMA OrderedType ==
    ASSUME NEW S \in SUBSET Commands, NEW todo \in Ordered(S)
    PROVE  /\ todo \in Seq(Commands) /\ IsInjective(todo)
           /\ \A i \in DOMAIN todo : todo[i] \in S
<1>1. IsFiniteSet(S)
  BY CloudBridgeAssumption, FS_Subset
<1>2. Cardinality(S) \in Nat
  BY <1>1, FS_CardinalityType
<1>3. todo \in [1..Cardinality(S) -> S]
  BY DEF Ordered
<1>4. \A i, j \in DOMAIN todo : i < j => todo[i] < todo[j]
  BY DEF Ordered
<1>5. todo \in Seq(Commands)
  BY <1>2, <1>3
<1>6. \A i, j \in DOMAIN todo : todo[i] = todo[j] => i = j
  <2>1. \A i \in DOMAIN todo : i \in Nat
    BY <1>2, <1>3
  <2>2. \A i \in DOMAIN todo : todo[i] \in S
    BY <1>3
  <2>3. \A c \in S : c \in Nat
    BY CloudBridgeAssumption
  <2>4. \A i \in DOMAIN todo : todo[i] \in Nat
    BY <2>2, <2>3
  <2> QED BY <1>4, <2>1, <2>4
<1> QED BY <1>3, <1>5, <1>6 DEF IsInjective

\* An inbox may be empty.
LEMMA NothingLeft == <<>> \in Seq(Commands) /\ DOMAIN <<>> = {} /\ IsInjective(<<>>)
<1>1. <<>> \in Seq(Commands) /\ Len(<<>>) = 0
  BY EmptySeq
<1>2. DOMAIN <<>> = 1..0
  BY <1>1, LenProperties
<1> QED BY <1>1, <1>2 DEF IsInjective

\* What is left of an inbox when its head has been dealt with.
LEMMA TailOf ==
    ASSUME NEW s \in Seq(Commands), s # <<>>
    PROVE  /\ Head(s) \in Commands /\ Head(s) = s[1] /\ 1 \in DOMAIN s
           /\ Tail(s) \in Seq(Commands)
           /\ \A i \in DOMAIN Tail(s) : i + 1 \in DOMAIN s /\ Tail(s)[i] = s[i + 1]
                 /\ i \in Nat \ {0}
<1>1. Len(s) \in Nat \ {0} /\ DOMAIN s = 1..Len(s)
  BY EmptySeq, LenProperties
<1>2. /\ Head(s) \in Commands /\ Tail(s) \in Seq(Commands)
      /\ Len(Tail(s)) = Len(s) - 1 /\ \A i \in 1..Len(Tail(s)) : Tail(s)[i] = s[i + 1]
  BY HeadTailProperties
<1>3. DOMAIN Tail(s) = 1..Len(Tail(s))
  BY <1>2, LenProperties
<1> QED BY <1>1, <1>2, <1>3

\* It holds every command it held before but its head, if it held each once.
LEMMA TailOnce ==
    ASSUME NEW s \in Seq(Commands), s # <<>>, IsInjective(s)
    PROVE  /\ IsInjective(Tail(s))
           /\ \A i \in DOMAIN Tail(s) : Tail(s)[i] # Head(s)
<1>1. \A i, j \in DOMAIN Tail(s) : i + 1 = j + 1 => i = j
  BY TailOf
<1>2. \A i \in DOMAIN Tail(s) : i + 1 # 1
  BY TailOf
<1> QED BY TailOf, <1>1, <1>2 DEF IsInjective

\* A command that is handed to an open stream comes last.
LEMMA AppendOf ==
    ASSUME NEW s \in Seq(Commands), NEW c \in Commands
    PROVE  /\ Append(s, c) \in Seq(Commands) /\ Append(s, c) # <<>>
           /\ s # <<>> => Head(Append(s, c)) = Head(s)
           /\ DOMAIN Append(s, c) = DOMAIN s \cup {Len(s) + 1}
           /\ Append(s, c)[Len(s) + 1] = c
           /\ \A i \in DOMAIN s : Append(s, c)[i] = s[i] /\ i # Len(s) + 1
<1>1. Len(s) \in Nat /\ DOMAIN s = 1..Len(s)
  BY LenProperties
<1>2. /\ Append(s, c) \in Seq(Commands) /\ Append(s, c) # <<>> /\ Len(Append(s, c)) = Len(s) + 1
      /\ \A i \in 1..Len(s) : Append(s, c)[i] = s[i]
      /\ Append(s, c)[Len(s) + 1] = c
  BY AppendProperties
<1>3. DOMAIN Append(s, c) = 1..(Len(s) + 1)
  BY <1>2, LenProperties
<1>4. s # <<>> => Head(Append(s, c)) = Head(s)
  BY HeadTailAppend
<1> QED BY <1>1, <1>2, <1>3, <1>4

\* What is remembered are commands, and with room for all of them none is forgotten.
LEMMA RememberOf ==
    ASSUME NEW seen \in Seq(Commands), NEW c \in Commands
    PROVE  /\ Remember(seen, c) \in Seq(Commands)
           /\ Cardinality(Commands) <= NonceMemory /\ IsInjective(seen) /\ c \notin Range(seen)
              => /\ IsInjective(Remember(seen, c))
                 /\ Range(Remember(seen, c)) = Range(seen) \cup {c}
<1> DEFINE more == Append(seen, c)
<1>1. Remember(seen, c) \in Seq(Commands)
  BY AppendOf, TailOf DEF Remember
<1>2. ASSUME Cardinality(Commands) <= NonceMemory, IsInjective(seen), c \notin Range(seen)
      PROVE  IsInjective(Remember(seen, c)) /\ Range(Remember(seen, c)) = Range(seen) \cup {c}
  <2>1. IsInjective(more)
    BY <1>2, AppendOf DEF IsInjective, Range
  <2>2. Range(more) = Range(seen) \cup {c}
    BY AppendOf DEF Range
  <2>3. more \in Injection(1..Len(more), Commands)
    <3>1. more \in Seq(Commands)
      BY AppendOf
    <3> HIDE DEF more
    <3>2. more \in [1..Len(more) -> Commands]
      BY <3>1, LenProperties
    <3> QED BY <2>1, <3>2 DEF Injection
  <2>4. Cardinality(1..Len(more)) <= Cardinality(Commands)
    BY <2>3, FS_Injection, CloudBridgeAssumption
  <2>5. Len(more) \in Nat /\ Cardinality(1..Len(more)) = Len(more)
    BY AppendOf, FS_Interval
  <2>6. Cardinality(Commands) \in Nat /\ NonceMemory \in Nat
    BY FS_CardinalityType, CloudBridgeAssumption
  <2>7. ~(Len(more) > NonceMemory)
    BY <1>2, <2>4, <2>5, <2>6
  <2> QED BY <2>1, <2>2, <2>7 DEF Remember
<1> QED BY <1>1, <1>2

-----------------------------------------------------------------------------
(* What holds whatever the network does.                                   *)

\* There is something in an inbox only while its listener is reading, and the
\* listener is at work on a command only while it is at the head of the inbox.
Shape ==
    \A b \in Bridges :
        /\ stage[b] # "check" => inbox[b] # <<>>
        /\ listener[b] \in {"off", "drain"} => inbox[b] = <<>>
        /\ main[b] \in {"none", "refresh"} => listener[b] = "off"
        /\ b > made => main[b] = "none"

\* A command that is done or failed has been run, by the one who says so.
Told ==
    /\ \A c \in sent : doc[c] # "none"
    /\ \A b \in Bridges : stage[b] \in {"done", "failed"} => ran[b][Head(inbox[b])] > 0
    /\ \A c \in Commands : doc[c] \in {"done", "failed"} => WasRun(c)

Inv == TypeOK /\ Shape /\ Told

LEMMA InvInit == Init => Inv
<1> SUFFICES ASSUME Init PROVE Inv
  OBVIOUS
<1>1. bound \in Bounds /\ bound.owner \in SUBSET {"control", "pairing"}
  BY CloudBridgeAssumption DEF Init
<1>2. TypeOK
  BY <1>1, CloudBridgeAssumption, EmptySeq DEF Init, TypeOK, Bridges
<1>3. Shape /\ Told
  BY DEF Init, Shape, Told, Bridges
<1> QED BY <1>2, <1>3 DEF Inv

\* The steps keep the types.
LEMMA TypeStep ==
    ASSUME Inv, Next
    PROVE  TypeOK'
<1> USE DEF TypeOK, Bridges, cloud, pi, threads
<1>1. CASE MakeBridge
  <2>1. bound.bridges \in 1..MaxBridges
    BY CloudBridgeAssumption DEF Inv
  <2>2. made' \in 0..MaxBridges
    BY <1>1, <2>1, CloudBridgeAssumption DEF Inv, MakeBridge
  <2> QED BY <1>1, <2>2 DEF Inv, MakeBridge
<1>2. CASE RefreshCache
  BY <1>2 DEF Inv, RefreshCache
<1>12. CASE Restart
  <2>1. inbox' \in [Bridges -> Seq(Commands)]
    BY <1>12, NothingLeft DEF Restart
  <2>2. main' \in [Bridges -> {"none", "refresh", "publish", "loop", "left"}]
    BY <1>12 DEF Inv, Restart
  <2> QED BY <1>12, <2>1, <2>2 DEF Inv, Restart
<1>3. CASE Owner
  BY <1>3 DEF Inv, Owner
<1>4. CASE Network
  BY <1>4 DEF Inv, Network
<1>5. ASSUME NEW b \in Bridges, Refresh(b) \/ FirstPublish(b) \/ MirrorSettings(b)
      PROVE  TypeOK'
  BY <1>5 DEF Inv, Refresh, FirstPublish, MirrorSettings
<1>6. ASSUME NEW b \in Bridges, Drain(b) \/ OpenStream(b) \/ StreamEnds(b)
      PROVE  TypeOK'
  <2>1. \A todo \in Ordered(Pending) : todo \in Seq(Commands)
    BY OrderedType DEF Pending
  <2>2. inbox' \in [Bridges -> Seq(Commands)]
    <3>1. CASE Drain(b)
      <4>1. \E todo \in Seq(Commands) : inbox' = [inbox EXCEPT ![b] = todo]
        BY <2>1, <3>1, NothingLeft DEF Drain
      <4> QED BY <4>1 DEF Inv
    <3>2. CASE OpenStream(b)
      BY <2>1, <3>2 DEF Inv, OpenStream, AtOpening
    <3>3. CASE StreamEnds(b)
      BY <3>3, NothingLeft DEF Inv, StreamEnds
    <3> QED BY <1>6, <3>1, <3>2, <3>3
  <2> QED BY <1>6, <2>2 DEF Inv, Drain, OpenStream, StreamEnds
<1>7. ASSUME NEW b \in Bridges, Check(b)
      PROVE  TypeOK'
  <2> DEFINE c == Head(inbox[b])
  <2>1. c \in Commands /\ Tail(inbox[b]) \in Seq(Commands)
    BY <1>7, TailOf DEF Inv, Check
  <2>2. Remember(nonces[b], c) \in Seq(Commands)
    BY <2>1, RememberOf DEF Inv
  <2> HIDE DEF c
  <2>3. nonces' \in [Bridges -> Seq(Commands)]
    BY <1>7, <2>2 DEF Inv, Check, c
  <2>4. inbox' \in [Bridges -> Seq(Commands)]
            /\ stage' \in [Bridges -> {"check", "run", "done", "failed", "raised"}]
    BY <1>7, <2>1 DEF Inv, Check, Done, c
  <2>5. doc' \in [Commands -> {"none", "pending", "acked", "done", "failed", "rejected"}]
    BY <1>7, <2>1 DEF Inv, Check, SetStatus, c
  <2> QED BY <1>7, <2>3, <2>4, <2>5 DEF Inv, Check
<1>8. ASSUME NEW b \in Bridges, Execute(b)
      PROVE  TypeOK'
  <2>1. inbox[b] # <<>> /\ Head(inbox[b]) \in Commands
    BY <1>8, TailOf DEF Inv, Shape, Execute
  <2>2. ran' \in [Bridges -> [Commands -> Nat]]
    <3> DEFINE c == Head(inbox[b])
               r == [ran[b] EXCEPT ![c] = ran[b][c] + 1]
    <3>1. ran \in [Bridges -> [Commands -> Nat]] /\ ran[b] \in [Commands -> Nat]
      BY DEF Inv
    <3>2. ran[b][c] + 1 \in Nat
      BY <2>1, <3>1
    <3>3. ran' = [ran EXCEPT ![b] = r]
      BY <1>8 DEF Execute
    <3>4. r \in [Commands -> Nat]
      BY <3>1, <3>2
    <3> HIDE DEF r
    <3> QED BY <3>1, <3>3, <3>4
  <2> QED BY <1>8, <2>2 DEF Inv, Execute
<1>9. ASSUME NEW b \in Bridges, Report(b)
      PROVE  TypeOK'
  <2>1. Head(inbox[b]) \in Commands /\ Tail(inbox[b]) \in Seq(Commands)
    BY <1>9, TailOf DEF Inv, Shape, Report
  <2>2. inbox' \in [Bridges -> Seq(Commands)]
    <3>1. inbox' = [inbox EXCEPT ![b] = <<>>] \/ inbox' = [inbox EXCEPT ![b] = Tail(inbox[b])]
      BY <1>9 DEF Inv, Report, Done
    <3> QED BY <2>1, <3>1, NothingLeft DEF Inv
  <2>3. doc' \in [Commands -> {"none", "pending", "acked", "done", "failed", "rejected"}]
    BY <1>9, <2>1 DEF Inv, Report, SetStatus, Outcome
  <2> QED BY <1>9, <2>2, <2>3 DEF Inv, Report
<1>13. ASSUME NEW b \in Bridges, StartOver(b)
       PROVE  TypeOK'
  BY <1>13, NothingLeft DEF Inv, StartOver
<1>10. ASSUME NEW c \in Commands, Send(c)
       PROVE  TypeOK'
  <2>1. inbox' \in [Bridges -> Seq(Commands)]
    BY <1>10, AppendOf DEF Inv, Send
  <2> QED BY <1>10, <2>1 DEF Inv, Send
<1>11. ASSUME NEW c \in Commands, Expire(c)
       PROVE  TypeOK'
  BY <1>11 DEF Inv, Expire
<1> QED
  BY <1>1, <1>2, <1>3, <1>4, <1>5, <1>6, <1>7, <1>8, <1>9, <1>10, <1>11, <1>12, <1>13
     DEF Next, BridgeStep

\* The steps keep the listeners and their inboxes in shape.
LEMMA ShapeStep ==
    ASSUME Inv, Next
    PROVE  Shape'
<1> USE DEF Shape, Inv, TypeOK, cloud, pi, threads
<1>1. CASE MakeBridge
  BY <1>1 DEF MakeBridge, Bridges
<1>2. CASE RefreshCache \/ Owner \/ Network
  BY <1>2 DEF RefreshCache, Owner, Network
<1>3. CASE Restart
  BY <1>3 DEF Restart, Bridges
<1>4. ASSUME NEW b \in Bridges, Refresh(b) \/ FirstPublish(b) \/ MirrorSettings(b)
      PROVE  Shape'
  BY SMTT(30), <1>4 DEF Refresh, FirstPublish, MirrorSettings
<1>5. ASSUME NEW b \in Bridges, Drain(b) \/ OpenStream(b) \/ StreamEnds(b)
      PROVE  Shape'
  BY SMTT(30), <1>5 DEF Drain, OpenStream, StreamEnds
<1>6. ASSUME NEW b \in Bridges, Check(b)
      PROVE  Shape'
  BY SMTT(30), <1>6 DEF Check, Done
<1>7. ASSUME NEW b \in Bridges, Execute(b)
      PROVE  Shape'
  BY <1>7 DEF Execute
<1>8. ASSUME NEW b \in Bridges, Report(b)
      PROVE  Shape'
  BY SMTT(30), <1>8 DEF Report, Done
<1>11. ASSUME NEW b \in Bridges, StartOver(b)
       PROVE  Shape'
  <2>1. main[b] \notin {"none", "refresh"}
    <3>1. inbox[b] # <<>>
      BY <1>11 DEF StartOver
    <3>2. listener[b] # "off"
      BY <3>1
    <3> QED BY <3>2
  <2> QED BY SMTT(30), <1>11, <2>1 DEF StartOver
<1>9. ASSUME NEW c \in Commands, Send(c)
      PROVE  Shape'
  BY ZenonT(40), <1>9, AppendOf DEF Send
<1>10. ASSUME NEW c \in Commands, Expire(c)
       PROVE  Shape'
  BY <1>10 DEF Expire
<1> QED
  BY <1>1, <1>2, <1>3, <1>4, <1>5, <1>6, <1>7, <1>8, <1>9, <1>10, <1>11 DEF Next, BridgeStep

\* Nobody reports the outcome of a command that has not been run.
LEMMA ToldStep ==
    ASSUME Inv, Next
    PROVE  Told'
<1> USE DEF Told, WasRun, Inv, TypeOK, cloud, pi, threads
<1>1. CASE MakeBridge \/ RefreshCache \/ Owner \/ Network \/ Restart
  BY <1>1 DEF MakeBridge, RefreshCache, Owner, Network, Restart
<1>2. ASSUME NEW b \in Bridges, Refresh(b) \/ FirstPublish(b) \/ MirrorSettings(b)
      PROVE  Told'
  BY <1>2 DEF Refresh, FirstPublish, MirrorSettings
<1>3. ASSUME NEW b \in Bridges, Drain(b) \/ OpenStream(b) \/ StreamEnds(b)
      PROVE  Told'
  <2>1. stage[b] = "check"
    BY <1>3 DEF Shape, Drain, OpenStream, StreamEnds
  <2>2. \A a \in Bridges : a # b => inbox'[a] = inbox[a]
    BY <1>3 DEF Drain, OpenStream, StreamEnds
  <2> QED BY <1>3, <2>1, <2>2 DEF Drain, OpenStream, StreamEnds
<1>4. ASSUME NEW b \in Bridges, Check(b)
      PROVE  Told'
  <2>1. /\ stage[b] = "check" /\ stage'[b] \in {"check", "run"}
        /\ \A a \in Bridges : a # b => stage'[a] = stage[a] /\ inbox'[a] = inbox[a]
    BY <1>4 DEF Check, Done
  <2>2. \A c \in Commands : doc'[c] = doc[c] \/ doc'[c] \in {"acked", "rejected"}
    BY <1>4 DEF Check, SetStatus
  <2>3. ran' = ran /\ sent' = sent
    BY <1>4 DEF Check
  <2> QED BY <2>1, <2>2, <2>3
<1>5. ASSUME NEW b \in Bridges, Execute(b)
      PROVE  Told'
  <2>1. Head(inbox[b]) \in Commands
    BY <1>5, TailOf DEF Shape, Execute
  <2>2. ran'[b][Head(inbox[b])] > 0
    BY <1>5, <2>1 DEF Execute
  <2>3. \A a \in Bridges, c \in Commands : ran[a][c] > 0 => ran'[a][c] > 0
    BY <1>5, <2>1 DEF Execute
  <2>4. /\ inbox' = inbox /\ doc' = doc /\ sent' = sent
        /\ \A a \in Bridges : a # b => stage'[a] = stage[a]
    BY <1>5 DEF Execute
  <2>5. \A a \in Bridges : Head(inbox[a]) \in Commands \/ inbox[a] = <<>>
    BY TailOf
  <2>6. \A a \in Bridges : stage'[a] \in {"done", "failed"} => ran'[a][Head(inbox'[a])] > 0
    <3> TAKE a \in Bridges
    <3>1. CASE a = b
      BY <2>2, <2>4, <3>1
    <3>2. CASE a # b
      BY <2>3, <2>4, <2>5, <3>2 DEF Shape
    <3> QED BY <3>1, <3>2
  <2>7. \A c \in Commands : WasRun(c) => WasRun(c)'
    BY <2>3
  <2> QED BY <2>4, <2>6, <2>7
<1>6. ASSUME NEW b \in Bridges, Report(b)
      PROVE  Told'
  <2> DEFINE c == Head(inbox[b])
  <2>1. c \in Commands /\ ran[b][c] > 0 /\ ran' = ran /\ sent' = sent
    BY <1>6, TailOf DEF Shape, Report
  <2>2. \A d \in Commands : doc'[d] = doc[d] \/ (d = c /\ doc'[d] = stage[b] /\ stage[b] # "none")
    BY <1>6, <2>1 DEF Report, SetStatus, Outcome
  <2>3. /\ stage'[b] = "check"
        /\ \A a \in Bridges : a # b => stage'[a] = stage[a] /\ inbox'[a] = inbox[a]
    BY <1>6 DEF Report, Done
  <2> QED BY <2>1, <2>2, <2>3
<1>9. ASSUME NEW b \in Bridges, StartOver(b)
      PROVE  Told'
  <2>1. /\ stage'[b] = "check" /\ UNCHANGED <<doc, sent, ran>>
        /\ \A a \in Bridges : a # b => stage'[a] = stage[a] /\ inbox'[a] = inbox[a]
    BY <1>9 DEF StartOver
  <2> QED BY <2>1
<1>7. ASSUME NEW c \in Commands, Send(c)
      PROVE  Told'
  <2>1. \A b \in Bridges : inbox[b] # <<>> => Head(inbox'[b]) = Head(inbox[b])
    BY <1>7, AppendOf DEF Send
  <2>2. \A d \in Commands : doc'[d] = IF d = c THEN "pending" ELSE doc[d]
    BY <1>7 DEF Send
  <2> QED BY <1>7, <2>1, <2>2 DEF Send, Shape
<1>8. ASSUME NEW c \in Commands, Expire(c)
      PROVE  Told'
  BY <1>8 DEF Expire
<1> QED
  BY <1>1, <1>2, <1>3, <1>4, <1>5, <1>6, <1>7, <1>8, <1>9 DEF Next, BridgeStep

LEMMA InvAlways == Spec => []Inv
<1>1. Inv /\ [Next]_vars => Inv'
  <2>1. Inv /\ Next => Inv'
    BY TypeStep, ShapeStep, ToldStep DEF Inv
  <2>2. Inv /\ UNCHANGED vars => Inv'
    BY DEF Inv, TypeOK, Shape, Told, WasRun, vars
  <2> QED BY <2>1, <2>2
<1> QED BY <1>1, InvInit, PTL DEF Spec

\* The model keeps its types.
THEOREM TypesKept == Spec => []TypeOK
<1>1. Inv => TypeOK
  BY DEF Inv
<1> QED BY <1>1, InvAlways, PTL

-----------------------------------------------------------------------------
(* While every request arrives: the database itself is the memory that the *)
(* objects and processes share.                                            *)

\* Only the object made last has a listener.  What waits in its inbox is still
\* pending, but the command it is at work on, which is acknowledged; and what is
\* pending has been run by nobody.
Good ==
    /\ \A b \in Bridges : main[b] \in {"refresh", "publish", "loop"} => b = made
    /\ \A b \in Bridges : listener[b] # "off" => b = made /\ main[b] \in {"publish", "loop"}
    /\ \A b \in Bridges : IsInjective(inbox[b])
    /\ \A b \in Bridges : \A i \in DOMAIN inbox[b] :
          doc[inbox[b][i]] = IF i = 1 /\ stage[b] # "check" THEN "acked" ELSE "pending"
    /\ \A c \in Commands :
          doc[c] \in {"none", "pending", "rejected"} => \A b \in Bridges : ran[b][c] = 0
    /\ \A b \in Bridges : stage[b] = "run" => \A a \in Bridges : ran[a][Head(inbox[b])] = 0
    /\ \A c \in Commands : RunsOnce(c)

GoodInv == network = "good" => Good

LEMMA GoodInit == Init => GoodInv
<1> SUFFICES ASSUME Init PROVE Good
  BY DEF GoodInv
<1> QED BY NothingLeft DEF Init, Good, RunsOnce, Bridges

\* The object that is not the last to be made has nothing in its inbox.
LEMMA OnlyOne ==
    ASSUME Inv, Good, NEW b \in Bridges, listener[b] # "off", NEW a \in Bridges, a # b
    PROVE  inbox[a] = <<>> /\ stage[a] = "check"
BY DEF Inv, Good, Shape, TypeOK

LEMMA GoodStep ==
    ASSUME Inv, Good, Next, network = "good", network' = "good"
    PROVE  Good'
<1> USE DEF Inv, TypeOK, cloud, pi, threads
<1>1. Succeeds = {TRUE}
  BY DEF Succeeds
<1>2. CASE MakeBridge
  <2>1. \A b \in Bridges : listener[b] = "off"
    BY <1>2 DEF MakeBridge, Good
  <2>2. \A b \in Bridges : main'[b] \in {"refresh", "publish", "loop"} => b = made'
    BY <1>2 DEF MakeBridge
  <2>3. UNCHANGED <<doc, listener, inbox, stage, ran>>
    BY <1>2 DEF MakeBridge
  <2> QED BY <2>1, <2>2, <2>3 DEF Good, RunsOnce
<1>3. CASE RefreshCache \/ Owner
  BY <1>3 DEF RefreshCache, Owner, Good, RunsOnce
<1>4. CASE Restart
  BY <1>4, NothingLeft DEF Restart, Good, RunsOnce
<1>5. CASE Network
  BY <1>5 DEF Network
<1>6. ASSUME NEW b \in Bridges, Refresh(b) \/ FirstPublish(b) \/ MirrorSettings(b)
      PROVE  Good'
  <2>1. CASE Refresh(b)
    <3>1. /\ main' = [main EXCEPT ![b] = "publish"] /\ listener' = [listener EXCEPT ![b] = "drain"]
      BY <1>1, <2>1 DEF Refresh
    <3>2. b = made /\ \A a \in Bridges : a # b => listener[a] = "off"
      BY <2>1 DEF Refresh, Good, Shape
    <3> QED BY <2>1, <3>1, <3>2 DEF Refresh, Good, RunsOnce
  <2>2. CASE FirstPublish(b)
    <3>1. main' = [main EXCEPT ![b] = "loop"]
      BY <1>1, <2>2 DEF FirstPublish
    <3> QED BY <2>2, <3>1 DEF FirstPublish, Good, RunsOnce
  <2>3. CASE MirrorSettings(b)
    BY <2>3 DEF MirrorSettings, Good, RunsOnce
  <2> QED BY <1>6, <2>1, <2>2, <2>3
<1>7. ASSUME NEW b \in Bridges, Drain(b) \/ OpenStream(b) \/ StreamEnds(b)
      PROVE  Good'
  <2>1. \E todo \in Seq(Commands) :
          /\ inbox' = [inbox EXCEPT ![b] = todo]
          /\ IsInjective(todo) /\ \A i \in DOMAIN todo : doc[todo[i]] = "pending"
    <3>1. \A todo \in Ordered(Pending) :
            /\ todo \in Seq(Commands) /\ IsInjective(todo)
            /\ \A i \in DOMAIN todo : doc[todo[i]] = "pending"
      <4>1. Pending \in SUBSET Commands /\ \A c \in Pending : doc[c] = "pending"
        BY DEF Pending
      <4> HIDE DEF Inv, TypeOK
      <4> QED BY <4>1, OrderedType
    <3>2. CASE Drain(b)
      BY <1>1, <3>1, <3>2 DEF Drain
    <3>3. CASE OpenStream(b)
      BY <3>1, <3>3 DEF OpenStream, AtOpening
    <3>4. CASE StreamEnds(b)
      BY <3>4, NothingLeft DEF StreamEnds
    <3> QED BY <1>7, <3>2, <3>3, <3>4
  <2>2. PICK todo \in Seq(Commands) :
          /\ inbox' = [inbox EXCEPT ![b] = todo]
          /\ IsInjective(todo) /\ \A i \in DOMAIN todo : doc[todo[i]] = "pending"
    BY <2>1
  <2>3. stage[b] = "check" /\ listener[b] # "off"
    BY <1>7 DEF Shape, Drain, OpenStream, StreamEnds
  <2>4. /\ UNCHANGED <<doc, made, main, stage, ran>>
        /\ \A a \in Bridges : a # b => listener'[a] = listener[a]
    BY <1>7 DEF Drain, OpenStream, StreamEnds
  <2> QED BY <2>2, <2>3, <2>4 DEF Good, RunsOnce
<1>8. ASSUME NEW b \in Bridges, Check(b)
      PROVE  Good'
  <2> DEFINE c == Head(inbox[b])
  <2>1. /\ c \in Commands /\ c = inbox[b][1] /\ 1 \in DOMAIN inbox[b]
        /\ stage[b] = "check" /\ listener[b] # "off"
    BY <1>8, TailOf DEF Check, Shape
  <2>2. doc[c] = "pending" /\ \A a \in Bridges : ran[a][c] = 0
    BY <2>1 DEF Good
  <2>3. \A a \in Bridges : a # b => inbox[a] = <<>> /\ stage[a] = "check"
    BY <2>1, OnlyOne
  <2>4. UNCHANGED <<made, main, listener, ran>>
    BY <1>8 DEF Check
  <2>5. CASE /\ doc' = [doc EXCEPT ![c] = "acked"] /\ stage' = [stage EXCEPT ![b] = "run"]
             /\ UNCHANGED inbox
    <3>1. \A i \in DOMAIN inbox[b] : i # 1 => inbox[b][i] # c
      BY <2>1 DEF Good, IsInjective
    <3>2. \A i \in DOMAIN inbox[b] : inbox[b][i] \in Commands
      BY ElementOfSeq, LenProperties
    <3> HIDE DEF c
    <3>3. \A a \in Bridges : \A i \in DOMAIN inbox'[a] :
            doc'[inbox'[a][i]] = IF i = 1 /\ stage'[a] # "check" THEN "acked" ELSE "pending"
      BY <2>1, <2>3, <2>5, <3>1, <3>2, NothingLeft DEF Good
    <3> QED BY SMTT(30), <2>1, <2>2, <2>3, <2>4, <2>5, <3>3 DEF Good, RunsOnce, c
  <2>6. CASE /\ doc' = [doc EXCEPT ![c] = "rejected"] /\ UNCHANGED stage
             /\ inbox' = [inbox EXCEPT ![b] = Tail(inbox[b])]
    <3>1. /\ IsInjective(Tail(inbox[b])) /\ Tail(inbox[b]) \in Seq(Commands)
          /\ \A i \in DOMAIN Tail(inbox[b]) : Tail(inbox[b])[i] # c
      BY <1>8, TailOf, TailOnce DEF Check, Good
    <3>2. \A i \in DOMAIN Tail(inbox[b]) : doc[Tail(inbox[b])[i]] = "pending"
      BY <1>8, <2>1, TailOf DEF Check, Good
    <3>3. \A i \in DOMAIN Tail(inbox[b]) : Tail(inbox[b])[i] \in Commands
      BY <3>1, ElementOfSeq, LenProperties
    <3> HIDE DEF c
    <3>4. \A a \in Bridges : IsInjective(inbox'[a]) /\ \A i \in DOMAIN inbox'[a] :
            doc'[inbox'[a][i]] = IF i = 1 /\ stage'[a] # "check" THEN "acked" ELSE "pending"
      BY SMTT(30), <2>1, <2>3, <2>6, <3>1, <3>2, <3>3, NothingLeft
    <3> QED BY SMTT(30), <2>1, <2>2, <2>3, <2>4, <2>6, <3>4 DEF Good, RunsOnce
  <2> QED BY <1>1, <1>8, <2>5, <2>6 DEF Check, SetStatus, Done
<1>9. ASSUME NEW b \in Bridges, Execute(b)
      PROVE  Good'
  <2> DEFINE c == Head(inbox[b])
  <2>1. /\ c \in Commands /\ c = inbox[b][1] /\ 1 \in DOMAIN inbox[b]
        /\ stage[b] = "run" /\ listener[b] # "off"
    BY <1>9, TailOf DEF Execute, Shape
  <2>2. doc[c] = "acked" /\ \A a \in Bridges : ran[a][c] = 0
    BY <2>1 DEF Good
  <2>3. \A a \in Bridges : a # b => inbox[a] = <<>> /\ stage[a] = "check"
    BY <2>1, OnlyOne
  <2>4. UNCHANGED <<doc, made, main, listener, inbox>>
    BY <1>9 DEF Execute
  <2>5. stage'[b] \in {"done", "failed", "raised"} /\ \A a \in Bridges : a # b => stage'[a] = stage[a]
    BY <1>9 DEF Execute
  <2> HIDE DEF c
  <2>6. \A a \in Bridges, d \in Commands : ran'[a][d] = IF a = b /\ d = c THEN 1 ELSE ran[a][d]
    BY <1>9, <2>1, <2>2 DEF Execute, c
  <2>7. \A d \in Commands : RunsOnce(d)'
    <3> TAKE d \in Commands
    <3>1. CASE d = c
      <4>1. \A a \in Bridges : ran'[a][d] = IF a = b THEN 1 ELSE 0
        BY <2>1, <2>2, <2>6, <3>1
      <4>2. \A a \in Bridges : ran'[a][d] <= 1 /\ (ran'[a][d] > 0 => a = b)
        BY <4>1
      <4> QED BY <4>2 DEF RunsOnce
    <3>2. CASE d # c
      BY <2>6, <3>2 DEF Good, RunsOnce
    <3> QED BY <3>1, <3>2
  <2>8. \A d \in Commands :
          doc'[d] \in {"none", "pending", "rejected"} => \A a \in Bridges : ran'[a][d] = 0
    <3> TAKE d \in Commands
    <3>1. CASE d = c
      BY <2>2, <2>4, <3>1
    <3>2. CASE d # c
      BY <2>4, <2>6, <3>2 DEF Good
    <3> QED BY <3>1, <3>2
  <2>9. \A a \in Bridges : stage'[a] # "run" /\ IsInjective(inbox'[a])
    BY <2>3, <2>4, <2>5 DEF Good
  <2>10. \A a \in Bridges : \A i \in DOMAIN inbox'[a] :
           doc'[inbox'[a][i]] = IF i = 1 /\ stage'[a] # "check" THEN "acked" ELSE "pending"
    BY <2>1, <2>3, <2>4, <2>5, NothingLeft DEF Good
  <2> QED BY <2>4, <2>7, <2>8, <2>9, <2>10 DEF Good
<1>10. ASSUME NEW b \in Bridges, Report(b)
       PROVE  Good'
  <2> DEFINE c == Head(inbox[b])
  <2>1. /\ inbox[b] # <<>> /\ c \in Commands /\ c = inbox[b][1] /\ 1 \in DOMAIN inbox[b]
        /\ stage[b] \in {"done", "failed"} /\ listener[b] # "off"
    BY <1>10, TailOf DEF Report, Shape
  <2>2. \A a \in Bridges : a # b => inbox[a] = <<>> /\ stage[a] = "check"
    BY <2>1, OnlyOne
  <2>3. /\ doc' = [doc EXCEPT ![c] = stage[b]] /\ stage' = [stage EXCEPT ![b] = "check"]
        /\ inbox' = [inbox EXCEPT ![b] = Tail(inbox[b])] /\ UNCHANGED listener
        /\ UNCHANGED <<made, main, ran>>
    BY <1>1, <1>10 DEF Report, SetStatus, Outcome, Done
  <2>4. /\ IsInjective(Tail(inbox[b])) /\ Tail(inbox[b]) \in Seq(Commands)
        /\ \A i \in DOMAIN Tail(inbox[b]) : Tail(inbox[b])[i] # c
    BY <2>1, TailOf, TailOnce DEF Good
  <2>5. \A i \in DOMAIN Tail(inbox[b]) : doc[Tail(inbox[b])[i]] = "pending"
    BY <2>1, TailOf DEF Good
  <2>6. \A i \in DOMAIN Tail(inbox[b]) : Tail(inbox[b])[i] \in Commands
    BY <2>4, ElementOfSeq, LenProperties
  <2> HIDE DEF c
  <2>7. \A a \in Bridges : IsInjective(inbox'[a]) /\ \A i \in DOMAIN inbox'[a] :
          doc'[inbox'[a][i]] = IF i = 1 /\ stage'[a] # "check" THEN "acked" ELSE "pending"
    BY <2>1, <2>2, <2>3, <2>4, <2>5, <2>6, NothingLeft
  <2> QED BY SMTT(30), <2>1, <2>2, <2>3, <2>7 DEF Good, RunsOnce
<1>13. ASSUME NEW b \in Bridges, StartOver(b)
       PROVE  Good'
  <2>1. inbox[b] # <<>> /\ listener[b] # "off"
    BY <1>13 DEF StartOver, Shape
  <2>2. /\ inbox' = [inbox EXCEPT ![b] = <<>>] /\ stage' = [stage EXCEPT ![b] = "check"]
        /\ listener' = [listener EXCEPT ![b] = "drain"] /\ UNCHANGED <<doc, made, main, ran>>
    BY <1>13 DEF StartOver
  <2> QED BY SMTT(30), <2>1, <2>2, NothingLeft DEF Good, RunsOnce
<1>11. ASSUME NEW c \in Commands, Send(c)
       PROVE  Good'
  <2>1. \A b \in Bridges : \A i \in DOMAIN inbox[b] : inbox[b][i] # c
    <3>1. doc[c] = "none"
      BY <1>11 DEF Send
    <3>2. \A b \in Bridges : \A i \in DOMAIN inbox[b] : doc[inbox[b][i]] # "none"
      BY DEF Good
    <3> QED BY <3>1, <3>2
  <2>2. doc' = [doc EXCEPT ![c] = "pending"] /\ UNCHANGED <<made, main, listener, stage, ran>>
    BY <1>11 DEF Send
  <2>3. \A b \in Bridges : \A i \in DOMAIN inbox[b] : inbox[b][i] \in Commands
    BY ElementOfSeq, LenProperties
  <2>4. ASSUME NEW b \in Bridges
        PROVE  /\ IsInjective(inbox'[b])
               /\ \A i \in DOMAIN inbox'[b] :
                    doc'[inbox'[b][i]] = IF i = 1 /\ stage'[b] # "check" THEN "acked" ELSE "pending"
               /\ inbox[b] # <<>> => Head(inbox'[b]) = Head(inbox[b])
    <3>1. CASE inbox'[b] = inbox[b]
      BY <2>1, <2>2, <2>3, <3>1 DEF Good
    <3>2. CASE inbox'[b] = Append(inbox[b], c)
      <4>1. IsInjective(inbox'[b])
        BY <2>1, <3>2, AppendOf DEF Good, IsInjective
      <4>2. Len(inbox[b]) + 1 = 1 => inbox[b] = <<>>
        BY EmptySeq, LenProperties
      <4>3. \A i \in DOMAIN inbox[b] : doc'[inbox[b][i]] = doc[inbox[b][i]]
        BY <2>1, <2>2, <2>3
      <4> QED BY <2>2, <3>2, <4>1, <4>2, <4>3, AppendOf DEF Good, Shape
    <3> QED BY <1>11, <3>1, <3>2 DEF Send
  <2> QED BY <1>11, <2>2, <2>4 DEF Good, Shape, RunsOnce, Send
<1>12. ASSUME NEW c \in Commands, Expire(c)
       PROVE  Good'
  BY <1>12 DEF Expire, Good, RunsOnce
<1> QED
  BY <1>2, <1>3, <1>4, <1>5, <1>6, <1>7, <1>8, <1>9, <1>10, <1>11, <1>12, <1>13
     DEF Next, BridgeStep

LEMMA GoodAlways == Spec => []GoodInv
<1>1. Inv /\ GoodInv /\ [Next]_vars => GoodInv'
  <2>1. Next /\ network' = "good" => network = "good"
    BY DEF Next, BridgeStep, MakeBridge, RefreshCache, Restart, Owner, Network, Refresh,
           FirstPublish, MirrorSettings, Drain, OpenStream, StreamEnds, Check, Execute, Report,
           StartOver, Send, Expire, pi
  <2>2. Inv /\ GoodInv /\ Next => GoodInv'
    BY <2>1, GoodStep DEF GoodInv
  <2>3. GoodInv /\ UNCHANGED vars => GoodInv'
    BY DEF GoodInv, Good, RunsOnce, vars
  <2> QED BY <2>2, <2>3
<1> QED BY <1>1, GoodInit, InvAlways, PTL DEF Spec

\* While every request arrives, a command is run at most once by all the objects
\* and processes there ever are, however little each of them remembers.
THEOREM NothingRunsTwice == Spec => []RunsOnceOverall
<1>1. GoodInv => RunsOnceOverall
  BY DEF GoodInv, Good, RunsOnceOverall
<1> QED BY <1>1, GoodAlways, PTL

\* Whatever fails, no member is told of an outcome that did not happen; and while
\* every request arrives, what is reported as rejected was not run.
THEOREM MembersAreToldTheTruth == Spec => []ReportsAreTrue
<1>1. Inv /\ GoodInv => ReportsAreTrue
  BY DEF Inv, Told, GoodInv, Good, ReportsAreTrue, WasRun
<1> QED BY <1>1, InvAlways, GoodAlways, PTL

-----------------------------------------------------------------------------
(* CloudBridge implements CommandLedger, as long as a bridge has room for  *)
(* the nonces of all commands.                                             *)

\* What a listener is at work on it has accepted and not run yet; and what it has
\* not accepted it has not run.
Remembered ==
    \A b \in Bridges :
        /\ IsInjective(nonces[b])
        /\ stage[b] = "run" => /\ Head(inbox[b]) \in Range(nonces[b])
                               /\ ran[b][Head(inbox[b])] = 0
        /\ \A c \in Commands : c \notin Range(nonces[b]) => ran[b][c] = 0

LEMMA RememberedInit == Init => Remembered
BY NothingLeft DEF Init, Remembered, Bridges, Range

\* Looking at a command is Accept, or nothing the ledger knows of.
LEMMA CheckAccepts ==
    ASSUME Cardinality(Commands) <= NonceMemory, Inv, Remembered, NEW b \in Bridges, Check(b)
    PROVE  Remembered' /\ (Ledger!Next \/ UNCHANGED Ledger!ledger)
<1> DEFINE c == Head(inbox[b])
<1> USE DEF Inv, TypeOK, pi
<1>1. c \in Commands /\ stage[b] = "check"
  BY TailOf DEF Check
<1>2. /\ \A a \in Bridges : a # b => stage'[a] = stage[a] /\ inbox'[a] = inbox[a]
      /\ stage'[b] = "run" => Acceptable(b, c) /\ inbox' = inbox
      /\ stage'[b] \in {"run", "check"} /\ UNCHANGED <<sent, fresh, ran>>
  BY <1>1 DEF Check, Done
<1>3. CASE Acceptable(b, c)
  <2>1. nonces' = [nonces EXCEPT ![b] = Remember(nonces[b], c)]
    BY <1>3 DEF Check
  <2>2. c \in fresh /\ c \notin Range(nonces[b])
    BY <1>3 DEF Acceptable
  <2>3. nonces[b] \in Seq(Commands) /\ IsInjective(nonces[b])
    BY DEF Remembered
  <2>4. IsInjective(Remember(nonces[b], c))
        /\ Range(Remember(nonces[b], c)) = Range(nonces[b]) \cup {c}
    BY <1>1, <2>2, <2>3, RememberOf
  <2>5. /\ IsInjective(nonces'[b]) /\ Range(nonces'[b]) = Range(nonces[b]) \cup {c}
        /\ \A a \in Bridges : a # b => nonces'[a] = nonces[a]
    BY <2>1, <2>4
  <2>6. ran[b][c] = 0
    BY <1>1, <2>2 DEF Remembered
  <2>7. Remembered'
    BY ZenonT(40), <1>2, <2>5, <2>6 DEF Remembered
  <2>8. [a \in Bridges |-> Range(nonces'[a])]
          = [[a \in Bridges |-> Range(nonces[a])] EXCEPT ![b] = @ \cup {c}]
    BY <2>5
  <2>9. Ledger!Accept(b, c)
    BY <1>2, <2>2, <2>8 DEF Ledger!Accept
  <2> QED BY <1>1, <2>7, <2>9 DEF Ledger!Next
<1>4. CASE ~Acceptable(b, c)
  <2>1. nonces' = nonces
    BY <1>4 DEF Check
  <2> QED BY <1>2, <1>4, <2>1 DEF Remembered, Ledger!ledger
<1> QED BY <1>3, <1>4

\* Executing one is Run.
LEMMA ExecuteRuns ==
    ASSUME Inv, Remembered, NEW b \in Bridges, Execute(b)
    PROVE  Remembered' /\ Ledger!Next
<1> DEFINE c == Head(inbox[b])
<1> USE DEF Inv, TypeOK, cloud, pi
<1>1. c \in Commands /\ stage[b] = "run" /\ c \in Range(nonces[b]) /\ ran[b][c] = 0
  BY TailOf DEF Shape, Execute, Remembered
<1>2. /\ \A a \in Bridges : a # b => stage'[a] = stage[a]
      /\ stage'[b] # "run" /\ UNCHANGED <<sent, fresh, inbox, nonces>>
  BY DEF Execute
<1>3. ran' = [ran EXCEPT ![b][c] = 1]
  BY <1>1 DEF Execute
<1> HIDE DEF c
<1>4. \A a \in Bridges : (a # b => ran'[a] = ran[a])
  BY <1>3
<1>5. \A d \in Commands : d # c => ran'[b][d] = ran[b][d]
  BY <1>3
<1>6. Remembered'
  <2>1. \A a \in Bridges, d \in Commands : d \notin Range(nonces'[a]) => ran'[a][d] = 0
    <3> TAKE a \in Bridges, d \in Commands
    <3>1. d \notin Range(nonces[a]) => ran[a][d] = 0
      BY DEF Remembered
    <3>2. d \notin Range(nonces[a]) => ran'[a][d] = ran[a][d]
      BY <1>1, <1>4, <1>5
    <3> QED BY <1>2, <3>1, <3>2
  <2>2. \A a \in Bridges : stage'[a] = "run" =>
          Head(inbox'[a]) \in Range(nonces'[a]) /\ ran'[a][Head(inbox'[a])] = 0
    BY <1>2, <1>4 DEF Remembered
  <2>3. \A a \in Bridges : IsInjective(nonces'[a])
    BY <1>2 DEF Remembered
  <2> QED BY <2>1, <2>2, <2>3 DEF Remembered
<1>7. Ledger!Run(b, c)
  BY <1>1, <1>2, <1>3 DEF Ledger!Run
<1> QED BY <1>1, <1>6, <1>7 DEF Ledger!Next

\* The steps that leave the ledger as it is, and what the listener is at work on.
LEMMA OthersStutter ==
    ASSUME Inv, Remembered, UNCHANGED <<sent, fresh, nonces, ran>>,
           \A b \in Bridges : stage'[b] = "run" =>
              stage[b] = "run" /\ Head(inbox'[b]) = Head(inbox[b])
    PROVE  Remembered' /\ UNCHANGED Ledger!ledger
BY DEF Remembered, Ledger!ledger

LEMMA LedgerStep ==
    ASSUME Cardinality(Commands) <= NonceMemory, Inv, Remembered, Next
    PROVE  Remembered' /\ (Ledger!Next \/ UNCHANGED Ledger!ledger)
<1> USE DEF cloud, pi, threads
<1>1. CASE MakeBridge \/ RefreshCache \/ Restart \/ Owner \/ Network
  BY <1>1, OthersStutter DEF MakeBridge, RefreshCache, Restart, Owner, Network
<1>2. ASSUME NEW b \in Bridges, Refresh(b) \/ FirstPublish(b) \/ MirrorSettings(b)
      PROVE  Remembered' /\ UNCHANGED Ledger!ledger
  BY <1>2, OthersStutter DEF Refresh, FirstPublish, MirrorSettings
<1>3. ASSUME NEW b \in Bridges, Drain(b) \/ OpenStream(b) \/ StreamEnds(b)
      PROVE  Remembered' /\ UNCHANGED Ledger!ledger
  <2>1. stage[b] = "check" /\ UNCHANGED <<sent, fresh, nonces, ran, stage>>
    BY <1>3 DEF Inv, Shape, Drain, OpenStream, StreamEnds
  <2>2. \A a \in Bridges : a # b => inbox'[a] = inbox[a]
    BY <1>3 DEF Inv, TypeOK, Drain, OpenStream, StreamEnds
  <2> QED BY <2>1, <2>2, OthersStutter
<1>4. ASSUME NEW b \in Bridges, Report(b)
      PROVE  Remembered' /\ UNCHANGED Ledger!ledger
  <2>1. /\ stage'[b] = "check" /\ UNCHANGED <<sent, fresh, nonces, ran>>
        /\ \A a \in Bridges : a # b => stage'[a] = stage[a] /\ inbox'[a] = inbox[a]
    BY <1>4 DEF Inv, TypeOK, Report, Done
  <2> QED BY <2>1, OthersStutter
<1>7. ASSUME NEW b \in Bridges, StartOver(b)
      PROVE  Remembered' /\ UNCHANGED Ledger!ledger
  <2>1. /\ stage'[b] = "check" /\ UNCHANGED <<sent, fresh, nonces, ran>>
        /\ \A a \in Bridges : a # b => stage'[a] = stage[a] /\ inbox'[a] = inbox[a]
    BY <1>7 DEF Inv, TypeOK, StartOver
  <2> QED BY <2>1, OthersStutter
<1>5. ASSUME NEW c \in Commands, Send(c)
      PROVE  Remembered' /\ Ledger!Next
  <2>1. c \notin sent
    BY <1>5 DEF Inv, Told, Send
  <2>2. \A b \in Bridges : inbox[b] # <<>> => Head(inbox'[b]) = Head(inbox[b])
    BY <1>5, AppendOf DEF Inv, TypeOK, Send
  <2>3. Remembered'
    BY <1>5, <2>2 DEF Remembered, Inv, Shape, Send
  <2>4. Ledger!Send(c)
    BY <1>5, <2>1 DEF Send, Ledger!Send
  <2> QED BY <2>3, <2>4 DEF Ledger!Next
<1>6. ASSUME NEW c \in Commands, Expire(c)
      PROVE  Remembered' /\ Ledger!Next
  <2>1. Ledger!Expire(c)
    BY <1>6 DEF Expire, Ledger!Expire
  <2>2. Remembered'
    BY <1>6 DEF Expire, Remembered
  <2> QED BY <2>1, <2>2 DEF Ledger!Next
<1> QED
  BY <1>1, <1>2, <1>3, <1>4, <1>5, <1>6, <1>7, CheckAccepts, ExecuteRuns DEF Next, BridgeStep

\* Whatever is lost, sent again or restarted, and in whichever order drain and
\* stream deliver: a bridge that can remember every command accepts only fresh
\* commands and runs none twice.
THEOREM BridgesKeepTheLedger ==
    ASSUME Cardinality(Commands) <= NonceMemory
    PROVE  Spec => LedgerKept
<1>1. Init => Ledger!Init
  BY DEF Init, Ledger!Init, Bridges, Range
<1>2. Inv /\ Remembered /\ [Next]_vars => Remembered' /\ [Ledger!Next]_Ledger!ledger
  <2>1. Inv /\ Remembered /\ UNCHANGED vars => Remembered' /\ UNCHANGED Ledger!ledger
    BY OthersStutter DEF vars
  <2> QED BY <2>1, LedgerStep
<1> QED BY <1>1, <1>2, RememberedInit, InvAlways, PTL DEF Spec, LedgerKept, Ledger!Spec

=============================================================================
