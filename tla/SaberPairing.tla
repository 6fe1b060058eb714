----------------------------- MODULE SaberPairing -----------------------------
(***************************************************************************)
(* async_pair (bluetooth.py): one attempt to pair a Saber hub.  The task   *)
(* connects, checks the GATT services (up to three links), greets the hub, *)
(* asks for pairing, and waits for the user's answer on the hub.  Answers  *)
(* come as notifications, through two bounded queues, or by reading the    *)
(* RESPONSE characteristic, which holds the hub's last response.           *)
(*                                                                         *)
(* An action is what the code does from one await to the next.  The hub,   *)
(* its user and the radio are external: they answer, keep silent, send     *)
(* telemetry or drop the link as they like.  Frames are told apart by what *)
(* _pairing_payload makes of them; the bytes are the codecs' business.     *)
(***************************************************************************)
EXTENDS Naturals, Sequences, FiniteSets

CONSTANTS MaxQueue,        \* MAX_PAIRING_NOTIFICATIONS
          ServiceAttempts, \* range(3) of the connection loop
          Greetings,       \* range(3) of the greeting loop
          Versions,        \* message versions a hub may name
          InitialVersion   \* initial_version

ASSUME PairingAssumption ==
  /\ MaxQueue \in Nat \ {0} /\ ServiceAttempts \in Nat \ {0} /\ Greetings \in Nat \ {0}
  /\ InitialVersion \in Nat /\ Versions \subseteq Nat
\* A queue has room for the answers to every command of an attempt: three
\* greetings and the request, against eight.
ASSUME QueueAssumption == Greetings < MaxQueue

VARIABLES
  pc,              \* the await the task is suspended at
  outcome,         \* how async_pair ends
  link,            \* connections made so far
  client,          \* the link the local variable client names, 0 for None
  open,            \* links on which disconnect() has not been called
  up,              \* the radio link of client is there
  subs,            \* characteristics whose notifications reach notify()
  canRead,         \* response_can_read
  replies, pairingReplies,
  lastPolled,      \* last_polled_response
  offered,         \* values RESPONSE has had since the pending read began
  version, sequence,
  value,           \* external: what RESPONSE holds
  owed,            \* external: sequences of commands the hub has not answered
  decision         \* external: the user's answer to this request

linkVars == <<link, client, open, up, subs, canRead>>
queueVars == <<replies, pairingReplies>>
readVars == <<lastPolled, offered>>
hubVars == <<value, owed, decision>>
vars == <<pc, outcome, link, client, open, up, subs, canRead, replies, pairingReplies,
          lastPolled, offered, version, sequence, value, owed, decision>>

Decisions == {"confirmed", "refused"}
\* PAIRING_RESPONSE_TYPES: greeted is 0xF1 or 0xF2, version the error that
\* names another message version, other the rest.
PairingKinds == Decisions \cup {"greeted", "version", "other"}
FrameKinds == PairingKinds \cup {"telemetry", "malformed"}
\* seq: the command it answers; link 0: sent before this attempt.
Frames == [kind : FrameKinds, link : 0 .. ServiceAttempts,
           seq : 0 .. Greetings + 1, version : Versions \cup {InitialVersion}]
NoFrame == [kind |-> "none"]
Frame(kind, k, s, v) == [kind |-> kind, link |-> k, seq |-> s, version |-> v]
\* What a hub makes of a greeting and of a request.  Another reply to a
\* greeting has the effect of an error that names the version in use.
GreetingAnswers == {<<"greeted", InitialVersion>>} \cup {"version"} \X Versions
RequestAnswers == (Decisions \cup {"other"}) \X {InitialVersion}
Answers == GreetingAnswers \cup RequestAnswers
Old == {Frame(a[1], 0, 0, a[2]) : a \in Answers}

Setup == {"subscribe", "status", "session"}
Polling == {"greeting", "confirm"}
Exchange == Polling \cup {"greet", "request", "post", "farewell"}

Init ==
  /\ pc = "connect" /\ outcome = "none"
  /\ link = 0 /\ client = 0 /\ open = {} /\ up = FALSE /\ subs = {} /\ canRead = FALSE
  /\ replies = <<>> /\ pairingReplies = <<>>
  /\ lastPolled = NoFrame /\ offered = {}
  /\ version = InitialVersion /\ sequence = 1
  /\ value \in Old \cup {NoFrame} /\ owed = {} /\ decision = "none"

\* The finally clause: _safe_disconnect, if there is a client.
End(how) ==
  /\ outcome' = how
  /\ pc' = IF client = 0 THEN "done" ELSE "release"
  /\ open' = open \ {client}
  /\ offered' = {}
Finish(how) ==
  /\ End(how)
  /\ UNCHANGED <<link, client, up, subs, canRead, queueVars, lastPolled, version, sequence,
                 hubVars>>

-----------------------------------------------------------------------------
(* Connections and services.                                               *)

\* Mutant: the queues are made once, before the loop.
ConnectedSharedQueues ==
  /\ pc = "connect"
  /\ link' = link + 1 /\ client' = link + 1 /\ open' = open \cup {link + 1}
  /\ up' = TRUE /\ subs' = {}
  /\ \/ pc' = "subscribe" /\ canRead' \in BOOLEAN
     \/ pc' = "clear" /\ UNCHANGED canRead
  /\ UNCHANGED <<outcome, queueVars, readVars, version, sequence, hubVars>>
\* Required services there: this link gets queues of its own.
Connected ==
  /\ pc = "connect"
  /\ link' = link + 1 /\ client' = link + 1 /\ open' = open \cup {link + 1}
  /\ up' = TRUE /\ subs' = {}
  /\ \/ /\ pc' = "subscribe" /\ canRead' \in BOOLEAN
        /\ replies' = <<>> /\ pairingReplies' = <<>>
     \/ pc' = "clear" /\ UNCHANGED <<canRead, queueVars>>
  /\ UNCHANGED <<outcome, readVars, version, sequence, hubVars>>

ConnectFails == pc = "connect" /\ Finish("failed")

SetupStep(next) ==
  /\ pc' = next
  /\ UNCHANGED <<outcome, link, client, open, up, canRead, queueVars, readVars, version,
                 sequence, hubVars>>

\* start_notify on RESPONSE; an error other than "not found" is swallowed.
Subscribe ==
  /\ pc = "subscribe"
  /\ subs' \in {{}} \cup (IF up THEN {{"response"}} ELSE {})
  /\ SetupStep("status")

\* STATUS and NOTIFICATION; then a way to get responses must be left.
SubscribeStatus ==
  /\ pc = "status"
  /\ subs' \in {subs} \cup (IF up THEN {subs \cup {"status"}} ELSE {})
  /\ SetupStep(IF canRead \/ "response" \in subs THEN "session" ELSE "clear")

OpenSession ==
  /\ pc = "session" /\ UNCHANGED subs
  /\ SetupStep("greet")

SessionFails == pc = "session" /\ Finish("failed")

\* BleakCharacteristicNotFoundError from a setup call.
ServicesMissing == pc \in Setup /\ UNCHANGED subs /\ SetupStep("clear")

\* Mutant: the incomplete link is forgotten, not disconnected.
CacheClearedKeepsLink ==
  /\ pc = "clear" /\ pc' = "drop"
  /\ UNCHANGED <<outcome, linkVars, queueVars, readVars, version, sequence, hubVars>>
\* clear_cache() has ended, however; disconnect() is called.
CacheCleared ==
  /\ pc = "clear" /\ pc' = "drop"
  /\ open' = open \ {client}
  /\ UNCHANGED <<outcome, link, client, up, subs, canRead, queueVars, readVars, version,
                 sequence, hubVars>>

Dropped ==
  /\ pc = "drop"
  /\ client' = 0 /\ up' = FALSE /\ subs' = {}
  /\ IF link = ServiceAttempts
       THEN pc' = "done" /\ outcome' = "failed"
       ELSE pc' = "backoff" /\ UNCHANGED outcome
  /\ UNCHANGED <<link, open, canRead, queueVars, readVars, version, sequence, hubVars>>

Reconnect ==
  /\ pc = "backoff" /\ pc' = "connect"
  /\ UNCHANGED <<outcome, linkVars, queueVars, readVars, version, sequence, hubVars>>

-----------------------------------------------------------------------------
(* Writes.  A write that fails ends the attempt; the hub may have got it,  *)
(* which no longer matters to this task.                                   *)

Write(from, to) ==
  /\ pc = from /\ up /\ pc' = to
  /\ owed' = owed \cup {sequence}
  /\ UNCHANGED <<outcome, linkVars, queueVars, readVars, version, value, decision>>

Greet == Write("greet", "greeting") /\ sequence' = sequence + 1
Request == Write("request", "confirm") /\ UNCHANGED sequence

\* The greeting after the confirmation; its answer is awaited, not looked at.
PostPair ==
  /\ pc = "post" /\ up /\ pc' = "farewell"
  /\ UNCHANGED <<outcome, linkVars, queueVars, readVars, version, sequence, hubVars>>

\* Mutant: a characteristic that vanished is a reason to reconnect, as in the
\* setup.
WriteFailsReconnect ==
  /\ pc \in {"greet", "request", "post"} /\ pc' = "clear"
  /\ UNCHANGED <<outcome, linkVars, queueVars, readVars, version, sequence, hubVars>>
WriteFails == pc \in {"greet", "request", "post"} /\ Finish("failed")

-----------------------------------------------------------------------------
(* Replies.                                                                *)

NextGreeting == IF sequence <= Greetings THEN "greet" ELSE "request"

\* What the greeting loop, or the confirmation loop, does with a reply.
Deliver(f) ==
  \/ /\ f.kind = "malformed" \/ (pc = "confirm" /\ f.kind = "refused")
     /\ End("failed") /\ UNCHANGED version
  \/ /\ pc = "greeting" /\ f.kind # "malformed"
     /\ pc' = IF f.kind = "greeted" THEN "request" ELSE NextGreeting
     /\ version' = IF f.kind = "version" THEN f.version ELSE version
     /\ offered' = {} /\ UNCHANGED <<outcome, open>>
  \/ /\ pc = "confirm" /\ f.kind \notin {"malformed", "refused"}
     /\ pc' = IF f.kind = "confirmed" THEN "post" ELSE "confirm"
     /\ offered' = {} /\ UNCHANGED <<outcome, open, version>>

\* poll_response: a queued frame, pairing replies first.
Take ==
  /\ pc \in Polling /\ offered = {}
  /\ \/ /\ pairingReplies # <<>> /\ Deliver(Head(pairingReplies))
        /\ pairingReplies' = Tail(pairingReplies) /\ UNCHANGED replies
     \/ /\ pairingReplies = <<>> /\ replies # <<>> /\ Deliver(Head(replies))
        /\ replies' = Tail(replies) /\ UNCHANGED pairingReplies
  /\ UNCHANGED <<link, client, up, subs, canRead, lastPolled, sequence, hubVars>>

\* ... or else a read, where RESPONSE can be read.
StartRead ==
  /\ pc \in Polling /\ offered = {} /\ pairingReplies = <<>> /\ replies = <<>>
  /\ canRead /\ up
  /\ offered' = {value}
  /\ UNCHANGED <<pc, outcome, linkVars, queueVars, lastPolled, version, sequence, hubVars>>

\* A value counts once.
ReadEnds ==
  /\ \E v \in offered :
       IF v \notin {NoFrame, lastPolled}
         THEN lastPolled' = v /\ Deliver(v)
         ELSE offered' = {} /\ UNCHANGED <<pc, outcome, open, version, lastPolled>>
  /\ UNCHANGED <<link, client, up, subs, canRead, queueVars, sequence, hubVars>>

ReadFails ==
  /\ offered # {} /\ offered' = {}
  /\ UNCHANGED <<pc, outcome, linkVars, queueVars, lastPolled, version, sequence, hubVars>>

\* Mutant: the greeting is repeated until the hub answers.
GreetingTimeoutAgain ==
  /\ pc = "greeting" /\ pc' = "greeting" /\ offered' = {}
  /\ UNCHANGED <<outcome, linkVars, queueVars, lastPolled, version, sequence, hubVars>>
\* poll_response returns None after HANDSHAKE_RESPONSE_TIMEOUT.
GreetingTimeout ==
  /\ pc = "greeting" /\ pc' = NextGreeting /\ offered' = {}
  /\ UNCHANGED <<outcome, linkVars, queueVars, lastPolled, version, sequence, hubVars>>

ConfirmTimeout == pc = "confirm" /\ Finish("failed")

Farewell == pc = "farewell" /\ Finish("paired")

\* disconnect() has ended, or been given up after five seconds.
Released ==
  /\ pc = "release" /\ pc' = "done"
  /\ client' = 0 /\ up' = FALSE /\ subs' = {}
  /\ UNCHANGED <<outcome, link, open, canRead, queueVars, readVars, version, sequence, hubVars>>

\* The flow is closed.  A disconnect under way is cancelled as well.
Cancel ==
  /\ outcome # "cancelled" /\ pc # "done"
  /\ IF pc = "release"
       THEN /\ pc' = "done" /\ outcome' = "cancelled"
            /\ UNCHANGED <<linkVars, queueVars, readVars, version, sequence, hubVars>>
       ELSE Finish("cancelled")

-----------------------------------------------------------------------------
(* External: the hub, its user and the radio.                              *)

\* notify(): bounded, pairing replies in a queue of their own.
Bounded(q, f) == Append(IF Len(q) = MaxQueue THEN Tail(q) ELSE q, f)
\* Mutant: one queue for all notifications.
NotifyOneQueue(f) == replies' = Bounded(replies, f) /\ UNCHANGED pairingReplies
Notify(f) ==
  IF f.kind \in PairingKinds
    THEN pairingReplies' = Bounded(pairingReplies, f) /\ UNCHANGED replies
    ELSE replies' = Bounded(replies, f) /\ UNCHANGED pairingReplies

\* What comes once no queue and no value is looked at again is left out.
Heard == up /\ pc \notin {"post", "farewell", "release"}

\* The hub answers a command: RESPONSE takes the frame and notifies it.
\* Only the pairing request, the last of them, has the user's decision.
Respond(s, kind, v) ==
  /\ Heard /\ s \in owed
  /\ \/ kind = "malformed"
     \/ <<kind, v>> \in IF pc = "confirm" /\ s = sequence THEN RequestAnswers ELSE GreetingAnswers
  /\ LET f == Frame(kind, link, s, v)
     IN /\ value' = f
        /\ offered' = IF offered = {} THEN {} ELSE offered \cup {f}
        /\ IF "response" \in subs THEN Notify(f) ELSE UNCHANGED queueVars
  /\ owed' = owed \ {s}
  /\ decision' = IF kind \in Decisions THEN kind ELSE decision
  /\ UNCHANGED <<pc, outcome, linkVars, lastPolled, version, sequence>>

\* A status notification, whole or not.
Telemetry(kind) ==
  /\ Heard /\ "status" \in subs
  /\ Notify(Frame(kind, link, 0, InitialVersion))
  /\ UNCHANGED <<pc, outcome, linkVars, readVars, version, sequence, hubVars>>

LinkLost ==
  /\ up /\ up' = FALSE
  /\ UNCHANGED <<pc, outcome, link, client, open, subs, canRead, queueVars, readVars, version,
                 sequence, hubVars>>

HubStep ==
  \/ \E s \in 1 .. Greetings + 1, a \in Answers \cup {<<"malformed", InitialVersion>>} :
       Respond(s, a[1], a[2])
  \/ \E kind \in {"telemetry", "malformed"} : Telemetry(kind)
  \/ LinkLost

TaskStep ==
  \/ Connected \/ ConnectFails
  \/ Subscribe \/ SubscribeStatus \/ OpenSession \/ SessionFails \/ ServicesMissing
  \/ CacheCleared \/ Dropped \/ Reconnect
  \/ Greet \/ Request \/ PostPair \/ WriteFails
  \/ Take \/ StartRead \/ ReadEnds \/ ReadFails
  \/ GreetingTimeout \/ ConfirmTimeout \/ Farewell \/ Released

Next == TaskStep \/ Cancel \/ HubStep

Spec == Init /\ [][Next]_vars

\* Every await of the task is bounded by a timeout of its own, and so are
\* the two waits for the hub; a read or a frame does not extend them.
Fairness == WF_vars(TaskStep) /\ WF_vars(GreetingTimeout) /\ WF_vars(ConfirmTimeout)
FairSpec == Spec /\ Fairness

-----------------------------------------------------------------------------
(* Properties.                                                             *)

Queues == {q \in Seq(Frames) : Len(q) <= MaxQueue}

TypeOK ==
  /\ pc \in Setup \cup Exchange \cup {"connect", "clear", "drop", "backoff", "release", "done"}
  /\ outcome \in {"none", "paired", "failed", "cancelled"}
  /\ link \in 0 .. ServiceAttempts /\ client \in {0, link} /\ open \subseteq 1 .. ServiceAttempts
  /\ up \in BOOLEAN /\ subs \subseteq {"response", "status"} /\ canRead \in BOOLEAN
  /\ replies \in Queues /\ pairingReplies \in Queues
  /\ lastPolled \in Frames \cup {NoFrame} /\ offered \subseteq Frames \cup {NoFrame}
  /\ version \in Versions \cup {InitialVersion} /\ sequence \in 1 .. Greetings + 1
  /\ value \in Frames \cup {NoFrame} /\ owed \subseteq 1 .. Greetings + 1
  /\ decision \in Decisions \cup {"none"}

\* Every link the loop or the exchange gives up has been told to disconnect
\* before the next one is made, and none is left when async_pair ends,
\* whatever step failed or was cancelled.
OneLink ==
  /\ open \subseteq {client}
  /\ pc \in {"connect", "backoff", "done"} => open = {}
  /\ pc \in Setup \cup Exchange => open = {client}

\* "Notifications received during failed service setup must not become the
\* next link's greeting" (bluetooth.py:412): in the exchange, every queued
\* frame came over the link in use.
LinkIsolation ==
  pc \in Setup \cup Exchange =>
    \A f \in {replies[i] : i \in DOMAIN replies}
         \cup {pairingReplies[i] : i \in DOMAIN pairingReplies} : f.link = link

\* Once the user has decided and the hub has notified it, the decision stays
\* in the queue until the task takes it, however much telemetry arrives.
DecisionKept ==
  pc = "confirm" /\ decision # "none" /\ "response" \in subs =>
    \E i \in DOMAIN pairingReplies :
      pairingReplies[i].kind = decision /\ pairingReplies[i].seq = sequence

\* The hub is not reconnected to once a command may have reached it, so the
\* user is asked at most once.
NoReconnectOnceAsked == [][link' # link => sequence = 1 /\ owed = {}]_vars

\* Pairing ends, with its link released, whatever the hub does.
PairingEnds == <>(pc = "done" /\ open = {})

\* What the docstring says: paired only after the user confirmed this request.
PairedAfterConfirmation == outcome = "paired" => decision = "confirmed"

=============================================================================
