------------------------------ MODULE CloudBridge ------------------------------
(***************************************************************************)
(* The command path of the cloud bridge (bridge/main.py, bridge/sync.py):  *)
(* how a command document in the Realtime Database comes to be run on the  *)
(* Pi.  The bridge process makes one Bridge object after another; each has *)
(* a main loop and a listener thread with its own memory of nonces.  The   *)
(* listener is a daemon thread: when run() leaves by an exception it goes  *)
(* on, beside the next object's listener.                                  *)
(*                                                                         *)
(* A command's age is its membership in `fresh`; every write to the        *)
(* database may fail.  A command's nonce is the command.                   *)
(***************************************************************************)
EXTENDS Naturals, Sequences, FiniteSets, Functions

CONSTANTS
    Commands,     \* the commands sent, in the order of their push ids: 1..n
    CloudAllowed, \* those the registry marks cloud_allowed
    NonceMemory,  \* NONCE_MEMORY
    MaxBridges,   \* bound of the model: Bridge objects that come into being
    NetworkFails, \* whether requests to the database may fail
    Bounds        \* bounds of the model: of each behaviour, one of them says which
                  \* commands are sent, how many Bridge objects there are, and what
                  \* the owner changes, "control" or "pairing"

ASSUME CloudBridgeAssumption ==
    /\ Commands \subseteq Nat /\ IsFiniteSet(Commands)
    /\ CloudAllowed \subseteq Commands
    /\ NonceMemory \in Nat \ {0} /\ MaxBridges \in Nat \ {0}
    /\ NetworkFails \in BOOLEAN
    /\ Bounds \subseteq [commands: SUBSET Commands, bridges: 1..MaxBridges,
                         owner: SUBSET {"control", "pairing"}]

VARIABLES
    bound,    \* the member of Bounds this behaviour keeps to
    doc,      \* doc[c]: the status of the command's document
    sent, fresh, \* commands sent, and those not older than COMMAND_MAX_AGE_S
    control_enabled, cached, mirrored, \* settings['cloud']['control_enabled'], the
              \* bridge's cached copy, and the copy in Firestore
    paired,   \* the credentials file exists and settings['cloud']['enabled']
    made,     \* how many Bridge objects there have been
    main,     \* main[b]: where run() of object b is
    listener, \* listener[b]: where its command_listener thread is
    inbox,    \* inbox[b]: pending documents it has been handed and not looked at
    stage,    \* stage[b]: how far handle_command is with the head of the inbox
    nonces,   \* nonces[b]: _seen_nonces, oldest first
    ran,      \* ran[b][c]: how often its listener has executed c
    network   \* "good" until a request may fail, "flaky", and "recovered" for ever

cloud == <<bound, doc, sent, fresh, mirrored>>
pi == <<control_enabled, cached, paired, network>>
threads == <<made, main, listener, inbox, stage, nonces, ran>>
vars == <<bound, doc, sent, fresh, control_enabled, cached, mirrored, paired,
          made, main, listener, inbox, stage, nonces, ran, network>>

Bridges == 1..MaxBridges

TypeOK ==
    /\ bound \in Bounds
    /\ doc \in [Commands -> {"none", "pending", "acked", "done", "failed", "rejected"}]
    /\ sent \subseteq Commands /\ fresh \subseteq sent
    /\ {control_enabled, cached, mirrored, paired} \subseteq BOOLEAN
    /\ made \in 0..MaxBridges
    /\ main \in [Bridges -> {"none", "refresh", "publish", "loop", "left"}]
    /\ listener \in [Bridges -> {"off", "drain", "drained", "stream"}]
    /\ inbox \in [Bridges -> Seq(Commands)]
    /\ stage \in [Bridges -> {"check", "run", "done", "failed", "raised"}]
    /\ nonces \in [Bridges -> Seq(Commands)]
    /\ ran \in [Bridges -> [Commands -> Nat]]
    /\ network \in {"good", "flaky", "recovered"}

Init ==
    /\ bound \in Bounds
    /\ doc = [c \in Commands |-> "none"] /\ sent = {} /\ fresh = {}
    /\ paired = ("pairing" \notin bound.owner)
    /\ control_enabled = ("control" \notin bound.owner)
    /\ cached = control_enabled /\ mirrored = control_enabled
    /\ made = 0
    /\ main = [b \in Bridges |-> "none"]
    /\ listener = [b \in Bridges |-> "off"]
    /\ inbox = [b \in Bridges |-> <<>>]
    /\ stage = [b \in Bridges |-> "check"]
    /\ nonces = [b \in Bridges |-> <<>>]
    /\ ran = [b \in Bridges |-> [c \in Commands |-> 0]]
    /\ network = "good"

\* A request to the database succeeds, or it raises.
Succeeds == IF network = "flaky" THEN BOOLEAN ELSE {TRUE}

-----------------------------------------------------------------------------
(* The process: main() of bridge/main.py and run() of the Bridge object.   *)

\* Paired and enabled, and no object is in use: make the next one.
MakeBridge ==
    /\ paired /\ made < bound.bridges
    /\ \A b \in Bridges : main[b] \in {"none", "left"}
    /\ made' = made + 1
    /\ main' = [main EXCEPT ![made + 1] = "refresh"]
    /\ UNCHANGED <<cloud, pi, listener, inbox, stage, nonces, ran>>

\* run(): refresh the token, then start the listener.
Refresh(b) ==
    /\ main[b] = "refresh"
    /\ \E ok \in Succeeds :
         IF ok THEN /\ main' = [main EXCEPT ![b] = "publish"]
                    /\ listener' = [listener EXCEPT ![b] = "drain"]
         ELSE main' = [main EXCEPT ![b] = "left"] /\ UNCHANGED listener
    /\ UNCHANGED <<cloud, pi, made, inbox, stage, nonces, ran>>

\* The three forced publications before the loop: state, presence, settings.
\* If one raises, run() leaves and nobody sets the stop_event of its listener.
FirstPublish(b) ==
    /\ main[b] = "publish"
    /\ \E ok \in Succeeds :
         IF ok THEN main' = [main EXCEPT ![b] = "loop"] /\ mirrored' = control_enabled
         ELSE main' = [main EXCEPT ![b] = "left"] /\ UNCHANGED mirrored
    /\ UNCHANGED <<bound, doc, sent, fresh, pi, made, listener, inbox, stage, nonces, ran>>

\* tick() mirrors the settings when the file has changed; an exception in it is
\* caught by the loop, and the next tick tries again.
MirrorSettings(b) ==
    /\ main[b] = "loop" /\ mirrored # control_enabled
    /\ mirrored' = control_enabled
    /\ UNCHANGED <<bound, doc, sent, fresh, pi, threads>>

\* core_state.cached_settings() looks at the file again, at most a second later.
RefreshCache ==
    /\ cached # control_enabled
    /\ cached' = control_enabled
    /\ UNCHANGED <<cloud, control_enabled, paired, network, threads>>

\* The supervisor restarts the process: every object and thread is gone, and
\* with it, as nobody uses it again, its memory of nonces.
Restart ==
    /\ \E b \in Bridges : main[b] # "none"
    /\ main' = [b \in Bridges |-> IF b <= made THEN "left" ELSE main[b]]
    /\ listener' = [b \in Bridges |-> "off"]
    /\ inbox' = [b \in Bridges |-> <<>>]
    /\ stage' = [b \in Bridges |-> "check"]
    /\ UNCHANGED <<cloud, pi, made, nonces, ran>>

-----------------------------------------------------------------------------
(* The listener thread.                                                    *)

\* Mutant: the status of a document is not looked at.
AllSent == sent

\* The commands whose documents are pending.
Pending == {c \in Commands : doc[c] = "pending"}

\* Documents arrive in the order of their ids.
Ordered(S) == {todo \in [1..Cardinality(S) -> S] : \A i, j \in DOMAIN todo : i < j => todo[i] < todo[j]}

\* drain_pending_commands reads the documents; a failed read counts as none.
Drain(b) ==
    /\ listener[b] = "drain"
    /\ \E ok \in Succeeds, todo \in Ordered(Pending) :
         inbox' = [inbox EXCEPT ![b] = IF ok THEN todo ELSE <<>>]
    /\ listener' = [listener EXCEPT ![b] = "drained"]
    /\ UNCHANGED <<cloud, pi, made, main, stage, nonces, ran>>

\* Mutant: the first put is taken for what the drain has already read.
NothingAtOpening == {<<>>}

\* The stream begins with a put of everything there is.
AtOpening == Ordered(Pending)
OpenStream(b) ==
    /\ listener[b] = "drained" /\ inbox[b] = <<>>
    /\ listener' = [listener EXCEPT ![b] = "stream"]
    /\ \E todo \in AtOpening : inbox' = [inbox EXCEPT ![b] = todo]
    /\ UNCHANGED <<cloud, pi, made, main, stage, nonces, ran>>

\* The stream ends, breaks, or its token is revoked: drain and open it again.
StreamEnds(b) ==
    /\ listener[b] = "stream" /\ stage[b] = "check"
    /\ listener' = [listener EXCEPT ![b] = "drain"]
    /\ inbox' = [inbox EXCEPT ![b] = <<>>]
    /\ UNCHANGED <<cloud, pi, made, main, stage, nonces, ran>>

\* _set_status: written, or given up.
SetStatus(c, status) ==
    \E ok \in Succeeds : doc' = IF ok THEN [doc EXCEPT ![c] = status] ELSE doc

\* Mutant: nothing is remembered.
RememberNothing(seen, c) == seen

\* _remember_nonce: the oldest is forgotten when there are too many.
Remember(seen, c) ==
    LET more == Append(seen, c) IN IF Len(more) > NonceMemory THEN Tail(more) ELSE more

\* Mutant: the age is not looked at.
AcceptableAtAnyAge(b, c) == c \notin Range(nonces[b])

\* The first two checks of handle_command: the age and the nonce.
Acceptable(b, c) == c \in fresh /\ c \notin Range(nonces[b])

\* The other two: the owner's opt-in and the registry.
Permitted(c) == cached /\ c \in CloudAllowed

Done(b) == inbox' = [inbox EXCEPT ![b] = Tail(@)]

\* handle_command up to the acknowledgement.
Check(b) ==
    /\ inbox[b] # <<>> /\ stage[b] = "check"
    /\ LET c == Head(inbox[b])
       IN  /\ nonces' = IF Acceptable(b, c) THEN [nonces EXCEPT ![b] = Remember(@, c)] ELSE nonces
           /\ IF Acceptable(b, c) /\ Permitted(c)
              THEN /\ SetStatus(c, "acked")
                   /\ stage' = [stage EXCEPT ![b] = "run"] /\ UNCHANGED inbox
              ELSE SetStatus(c, "rejected") /\ Done(b) /\ UNCHANGED stage
    /\ UNCHANGED <<bound, sent, fresh, mirrored, pi, made, main, listener, ran>>

\* cmdreg.execute: the command's patch is queued, the handler refuses, or it
\* raises what execute does not catch (anything but CommandError and ValueError).
Execute(b) ==
    /\ stage[b] = "run"
    /\ ran' = [ran EXCEPT ![b][Head(inbox[b])] = @ + 1]
    /\ \E outcome \in {"done", "failed", "raised"} :
         stage' = [stage EXCEPT ![b] = outcome]
    /\ UNCHANGED <<cloud, pi, made, main, listener, inbox, nonces>>

\* Mutant: a failure is reported with a word the apps do not know.
OutcomeUnknown(b) == IF stage[b] = "failed" THEN "error" ELSE stage[b]

\* The result that is reported.
Outcome(b) == stage[b]

\* The result is written; after a success the state is published, and if that
\* raises, the listener starts over with a drain.
Report(b) ==
    /\ stage[b] \in {"done", "failed"}
    /\ SetStatus(Head(inbox[b]), Outcome(b))
    /\ stage' = [stage EXCEPT ![b] = "check"]
    /\ \E published \in Succeeds :
         IF stage[b] = "done" /\ ~published
         THEN /\ inbox' = [inbox EXCEPT ![b] = <<>>]
              /\ listener' = [listener EXCEPT ![b] = "drain"]
         ELSE Done(b) /\ UNCHANGED listener
    /\ UNCHANGED <<bound, sent, fresh, mirrored, pi, made, main, nonces, ran>>

\* The exception leaves the stream or the drain: the document stays acked, and
\* the listener starts over.
StartOver(b) ==
    /\ stage[b] = "raised"
    /\ stage' = [stage EXCEPT ![b] = "check"]
    /\ inbox' = [inbox EXCEPT ![b] = <<>>]
    /\ listener' = [listener EXCEPT ![b] = "drain"]
    /\ UNCHANGED <<cloud, pi, made, main, nonces, ran>>

-----------------------------------------------------------------------------
(* The outside world.                                                      *)

\* sendCommand: a member sends the next command, if the mirrored settings say
\* that cloud control is on; every open stream is handed the new document.
Send(c) ==
    /\ c \in bound.commands /\ doc[c] = "none" /\ mirrored
    /\ \A d \in bound.commands : d < c => doc[d] # "none"
    /\ doc' = [doc EXCEPT ![c] = "pending"]
    /\ sent' = sent \cup {c} /\ fresh' = fresh \cup {c}
    /\ inbox' = [b \in Bridges |-> IF listener[b] = "stream" THEN Append(inbox[b], c) ELSE inbox[b]]
    /\ UNCHANGED <<bound, mirrored, pi, made, main, listener, stage, nonces, ran>>

\* COMMAND_MAX_AGE_S have passed since the command was sent.
Expire(c) ==
    /\ c \in fresh /\ fresh' = fresh \ {c}
    /\ UNCHANGED <<bound, doc, sent, mirrored, pi, threads>>

\* The owner turns cloud control on or off, or pairs or unpairs the grill.
Owner ==
    /\ \/ "control" \in bound.owner /\ control_enabled' = ~control_enabled /\ UNCHANGED paired
       \/ "pairing" \in bound.owner /\ paired' = ~paired /\ UNCHANGED control_enabled
    /\ UNCHANGED <<cloud, cached, network, threads>>

\* Requests begin to fail; later they arrive again.
Network ==
    /\ NetworkFails
    /\ \/ network = "good" /\ network' = "flaky"
       \/ network = "flaky" /\ network' = "recovered"
    /\ UNCHANGED <<cloud, control_enabled, cached, paired, threads>>

BridgeStep(b) ==
    \/ Refresh(b) \/ FirstPublish(b) \/ MirrorSettings(b)
    \/ Drain(b) \/ OpenStream(b) \/ Check(b) \/ Execute(b) \/ Report(b)
    \/ StartOver(b)

Next ==
    \/ MakeBridge \/ RefreshCache \/ Restart \/ Owner \/ Network
    \/ \E b \in Bridges : BridgeStep(b) \/ StreamEnds(b)
    \/ \E c \in Commands : Send(c) \/ Expire(c)

Spec == Init /\ [][Next]_vars

\* Fairness: the threads run, and a stream does not end again and again before
\* its first event is looked at.  Nothing is assumed of members, owner, network.
FairSpec ==
    /\ Spec /\ WF_vars(MakeBridge) /\ WF_vars(RefreshCache)
    /\ \A b \in Bridges :
         /\ WF_vars(Refresh(b)) /\ WF_vars(FirstPublish(b)) /\ WF_vars(MirrorSettings(b))
         /\ WF_vars(Drain(b)) /\ WF_vars(OpenStream(b))
         /\ SF_vars(Check(b)) /\ WF_vars(Execute(b)) /\ WF_vars(Report(b))
         /\ WF_vars(StartOver(b))

-----------------------------------------------------------------------------
(* Properties.                                                             *)

\* Each Bridge object keeps the promise of CommandLedger: whatever is lost, sent
\* again or restarted, and in whichever order drain and stream deliver, it
\* accepts only fresh commands and runs none twice.
Ledger == INSTANCE CommandLedger WITH accepted <- [b \in Bridges |-> Range(nonces[b])]
LedgerKept == Ledger!Spec

WasRun(c) == \E b \in Bridges : ran[b][c] > 0
RunsOnce(c) ==
    \A a, b \in Bridges : ran[a][c] <= 1 /\ (ran[a][c] > 0 /\ ran[b][c] > 0 => a = b)

\* While every request arrives, a command is run at most once by all the objects
\* and processes there ever are, though none knows the others' nonces.
RunsOnceOverall == network = "good" => \A c \in Commands : RunsOnce(c)

\* What the member is told is so: a command reported done or failed was run; and
\* while every request arrives one reported as rejected never was.
ReportsAreTrue ==
    \A c \in Commands :
        /\ doc[c] \in {"done", "failed"} => WasRun(c)
        /\ network = "good" /\ doc[c] = "rejected" => ~WasRun(c)

\* Once requests arrive, and go on arriving, a listener looks at every fresh pending command,
\* whatever the hiccup made it miss.
CommandsAreSeen ==
    \A b \in Bridges, c \in Commands :
        (network # "flaky" /\ listener[b] # "off" /\ doc[c] = "pending" /\ c \in fresh)
            ~> (doc[c] # "pending" \/ c \in Range(nonces[b]) \/ c \notin fresh
                \/ listener[b] = "off" \/ network = "flaky")

=============================================================================
