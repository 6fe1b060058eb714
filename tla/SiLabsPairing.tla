---------------------------- MODULE SiLabsPairing ----------------------------
(***************************************************************************)
(* Pairing a SiLabs appliance and resuming a stored pairing:               *)
(* async_pair_silabs, async_reconnect_silabs and GattResponseChannel       *)
(* (bluetooth.py), the exchange of silabs_pairing.py and the state of      *)
(* SiLabsExchange (silabs_secure.py).                                      *)
(*                                                                         *)
(* An action is what the code does from one await to the next.  The        *)
(* appliance is external: it answers the commands it got, once, several    *)
(* times or never, in any order, and sends frames of its own.  A sealed    *)
(* frame is one the pairing's keys open; keys and bytes are not modelled.  *)
(***************************************************************************)
EXTENDS Naturals, Sequences, FiniteSets

CONSTANTS MaxQueue,               \* MAX_PAIRING_NOTIFICATIONS
          MaxResponses,           \* MAX_RESPONSES of one wait
          MinVersion, MaxVersion, \* 5 and MESSAGE_VERSION
          HubVersions,            \* versions the appliance's frames carry
          MaxSent                 \* bound: frames the appliance sends

ASSUME ExchangeAssumption ==
  /\ MaxQueue \in Nat \ {0} /\ MaxResponses \in Nat \ {0} /\ MaxSent \in Nat
  /\ MinVersion \in Nat /\ MaxVersion \in Nat /\ MinVersion < MaxVersion
  /\ HubVersions \subseteq Nat

VARIABLES
  mode,         \* "pair" or "resume"
  pc,           \* the await the task is suspended at
  outcome,      \* how the call ends
  open,         \* a link is there that disconnect() has not been called on
  canRead, subscribed,
  queue,        \* the channel's notifications
  lastRead,     \* _last_read
  offered,      \* values RESPONSE has had since the pending read began
  state,        \* ExchangeState
  version, requestSeq,
  cipher,       \* the exchange holds a session key
  seen,         \* _seen_incoming; a nonce belongs to one marker
  count,        \* unrelated responses in this wait
  written,      \* external: commands that reached the appliance
  value,        \* external: what RESPONSE holds
  sent,         \* external: frames sent so far
  agreedTo,     \* external: requests the appliance confirmed
  sealedSeqs,   \* external: sequences of its sealed frames
  repeats       \* external: it used one of them twice

channelVars == <<canRead, subscribed, queue, lastRead, offered>>
exchangeVars == <<state, version, requestSeq, cipher, seen, count>>
hubVars == <<written, value, sent, agreedTo, sealedSeqs, repeats>>
vars == <<mode, pc, outcome, open, canRead, subscribed, queue, lastRead, offered, state, version,
          requestSeq, cipher, seen, count, written, value, sent, agreedTo, sealedSeqs, repeats>>

MaxSeq == 4  \* two requests, the greeting, the fetch
RequestKinds == {"confirmed", "rejected", "timedOut", "odd", "lower", "error"}
FrameKinds == RequestKinds \cup {"success", "capabilities", "other", "malformed"}
\* n tells frames apart that carry the same; seal: "plain", "ours" or "foreign".
Frames == [n : 1 .. MaxSent, kind : FrameKinds, seq : 0 .. MaxSeq,
           seal : {"plain", "ours", "foreign"}, version : HubVersions \cup {MaxVersion}]
NoFrame == [n |-> 0, kind |-> "none"]

Waits == {"confirmation", "handshake", "capabilities"}
Writes == {"ask", "greet", "fetch"}
GreetSeq == requestSeq + 1
FetchSeq == requestSeq + 2
Supported(v) == MinVersion <= v /\ v <= MaxVersion

Init ==
  /\ mode \in {"pair", "resume"} /\ pc = "connect" /\ outcome = "none" /\ open = FALSE
  /\ canRead = FALSE /\ subscribed = FALSE /\ queue = <<>>
  /\ lastRead = NoFrame /\ offered = {}
  /\ state = "new" /\ version = MaxVersion /\ requestSeq = 0 /\ cipher = FALSE
  /\ seen = {} /\ count = 0
  /\ written = {} /\ value = NoFrame
  /\ sent = 0 /\ agreedTo = {} /\ sealedSeqs = {} /\ repeats = FALSE

\* The finally clauses: cancel() of the exchange, _safe_disconnect.
Release(how, reached) ==
  /\ outcome' = how /\ offered' = {} /\ cipher' = FALSE
  /\ state' = IF reached \in {"active", "rejected", "timedOut"} THEN reached ELSE "cancelled"
  /\ open' = FALSE /\ pc' = IF open THEN "release" ELSE "done"
Fail(reached) ==
  /\ Release("failed", reached)
  /\ UNCHANGED <<version, requestSeq, seen, count>>

-----------------------------------------------------------------------------
(* The link and the channel.                                               *)

ChannelStep(next) ==
  /\ pc' = next
  /\ UNCHANGED <<mode, outcome, queue, lastRead, offered, seen, count, hubVars>>

Connected ==
  /\ pc = "connect" /\ open' = TRUE
  /\ ChannelStep("open") /\ UNCHANGED <<canRead, subscribed, exchangeVars>>

\* async_open, then the first request, or the greeting of a stored pairing.
Opened ==
  /\ pc = "open" /\ UNCHANGED open
  /\ canRead' \in BOOLEAN /\ subscribed' \in BOOLEAN /\ (canRead' \/ subscribed')
  /\ \/ /\ mode = "pair" /\ ChannelStep("ask")
        /\ state' = "awaiting" /\ requestSeq' = 1 /\ UNCHANGED <<version, cipher>>
     \/ /\ mode = "resume" /\ ChannelStep("greet")
        /\ state' = "handshaking" /\ cipher' = TRUE
        /\ version' \in MinVersion .. MaxVersion /\ UNCHANGED requestSeq

\* Mutant: the wait for the user has no deadline.
StageFailsUnlessAsked ==
  /\ pc \in {"connect", "open", "handshake", "capabilities"} \cup Writes
  /\ Fail(state)
  /\ UNCHANGED <<mode, canRead, subscribed, queue, lastRead, hubVars>>
\* A write, a read, opening the channel or connecting fails, or the deadline
\* of the stage passes.
StageFails ==
  /\ pc \in {"connect", "open"} \cup Writes \cup Waits
  /\ Fail(state)
  /\ UNCHANGED <<mode, canRead, subscribed, queue, lastRead, hubVars>>

Write(from, to, seq) ==
  /\ pc = from /\ pc' = to /\ count' = 0
  /\ written' = written \cup {<<from, seq>>}
  /\ UNCHANGED <<mode, outcome, open, channelVars, state, version, requestSeq, cipher, seen,
                 value, sent, agreedTo, sealedSeqs, repeats>>
WriteRequest == Write("ask", "confirmation", requestSeq)
WriteGreeting == Write("greet", "handshake", GreetSeq)
WriteFetch == Write("fetch", "capabilities", FetchSeq)

-----------------------------------------------------------------------------
(* What a wait does with a frame.                                          *)

\* One of at most MaxResponses frames that are not the answer.
Unrelated(newSeen) ==
  /\ seen' = newSeen /\ count' = count + 1
  /\ IF count + 1 = MaxResponses
       THEN Release("failed", state) /\ UNCHANGED <<version, requestSeq>>
       ELSE /\ offered' = {} /\ UNCHANGED <<pc, outcome, open, state, version, requestSeq, cipher>>

Proceed(next) == pc' = next /\ offered' = {} /\ UNCHANGED <<outcome, open, count>>

\* Mutant: the version is lowered as often as the appliance wants.
LowerAgain ==
  IF version <= MinVersion
    THEN Fail(state)
    ELSE /\ Proceed("ask")
         /\ version' = version - 1 /\ requestSeq' = requestSeq + 1
         /\ UNCHANGED <<state, cipher, seen>>
\* retry_lower_version, once.
Lower ==
  IF requestSeq > 1 \/ version <= MinVersion
    THEN Fail(state)
    ELSE /\ Proceed("ask")
         /\ version' = version - 1 /\ requestSeq' = requestSeq + 1
         /\ UNCHANGED <<state, cipher, seen>>

\* pairing_response; the greeting follows without an await in between.
Decide(f) ==
  IF f.kind = "confirmed" /\ Supported(f.version)
    THEN /\ Proceed("greet")
         /\ state' = "handshaking" /\ cipher' = TRUE /\ version' = f.version
         /\ UNCHANGED <<requestSeq, seen>>
    ELSE Fail(IF f.kind \in {"rejected", "timedOut"} /\ Supported(f.version)
                THEN f.kind ELSE state)

\* Mutant: any request's answer will do.
OnConfirmationAnySeq(f) ==
  IF f.seal = "plain" /\ f.kind \in RequestKinds
    THEN IF f.kind = "lower" THEN Lower ELSE Decide(f)
    ELSE Unrelated(seen)
OnConfirmation(f) ==
  IF f.seal = "plain" /\ f.seq = requestSeq /\ f.kind \in RequestKinds
    THEN IF f.kind = "lower" THEN Lower ELSE Decide(f)
    ELSE Unrelated(seen)

\* authenticated_body accepts f, or raises: the tag is wrong, or the marker
\* was seen before.
Authentic(f) == f.seal = "ours" /\ cipher /\ f.seq \notin seen
Refuse(f) ==
  /\ Release(IF f.seal = "ours" THEN "replayed" ELSE "failed", state)
  /\ UNCHANGED <<version, requestSeq, seen, count>>

OnHandshake(f) ==
  \/ f.seal = "plain" /\ Unrelated(seen)
  \/ f.seal # "plain" /\ ~Authentic(f) /\ Refuse(f)
  \/ Authentic(f) /\ f.kind # "success" /\ Unrelated(seen \cup {f.seq})
  \/ Authentic(f) /\ f.kind = "success" /\ ~Supported(f.version) /\ Fail(state)
  \/ /\ Authentic(f) /\ f.kind = "success" /\ Supported(f.version)
     /\ Proceed("fetch")
     /\ state' = "active" /\ version' = f.version /\ seen' = seen \cup {f.seq}
     /\ UNCHANGED <<requestSeq, cipher>>

Fetched(f) == f.kind = "capabilities" /\ f.seq = FetchSeq
AtMostAgreed(f) == MinVersion <= f.version /\ f.version <= version

OnCapabilities(f) ==
  \/ f.seal = "plain" /\ Unrelated(seen)
  \/ f.seal # "plain" /\ ~Authentic(f) /\ Refuse(f)
  \/ Authentic(f) /\ ~Fetched(f) /\ Unrelated(seen \cup {f.seq})
  \/ Authentic(f) /\ Fetched(f) /\ ~AtMostAgreed(f) /\ Fail(state)
  \/ /\ Authentic(f) /\ Fetched(f) /\ AtMostAgreed(f)
     /\ Release("paired", state)
     /\ seen' = seen \cup {f.seq} /\ UNCHANGED <<version, requestSeq, count>>

Accept(f) ==
  \/ f.kind = "malformed" /\ Fail(state)
  \/ f.kind # "malformed" /\ pc = "confirmation" /\ OnConfirmation(f)
  \/ f.kind # "malformed" /\ pc = "handshake" /\ OnHandshake(f)
  \/ f.kind # "malformed" /\ pc = "capabilities" /\ OnCapabilities(f)

\* Mutant: only the queue is free of repetitions.
ReceivedAgain(f) ==
  IF f = NoFrame
    THEN offered' = {} /\ UNCHANGED <<pc, outcome, open, exchangeVars, lastRead>>
    ELSE lastRead' = f /\ Accept(f)
\* A value or notification equal to the one before it is skipped.
Received(f) ==
  IF f \in {NoFrame, lastRead}
    THEN offered' = {} /\ UNCHANGED <<pc, outcome, open, exchangeVars, lastRead>>
    ELSE lastRead' = f /\ Accept(f)

Take ==
  /\ pc \in Waits /\ offered = {} /\ queue # <<>>
  /\ queue' = Tail(queue) /\ Received(Head(queue))
  /\ UNCHANGED <<mode, canRead, subscribed, hubVars>>

StartRead ==
  /\ pc \in Waits /\ offered = {} /\ queue = <<>> /\ canRead
  /\ offered' = {value}
  /\ UNCHANGED <<mode, pc, outcome, open, canRead, subscribed, queue, lastRead, exchangeVars,
                 hubVars>>

ReadEnds ==
  /\ \E f \in offered : Received(f)
  /\ UNCHANGED <<mode, canRead, subscribed, queue, hubVars>>

Released ==
  /\ pc = "release" /\ pc' = "done"
  /\ UNCHANGED <<mode, outcome, open, channelVars, exchangeVars, hubVars>>

\* The flow is closed; a disconnect under way is cancelled as well.
Cancel ==
  /\ pc # "done" /\ outcome # "cancelled"
  /\ IF pc = "release"
       THEN /\ pc' = "done" /\ outcome' = "cancelled"
            /\ UNCHANGED <<open, offered, state, cipher>>
       ELSE Release("cancelled", state)
  /\ UNCHANGED <<mode, canRead, subscribed, queue, lastRead, version, requestSeq, seen, count,
                 hubVars>>

-----------------------------------------------------------------------------
(* External: the appliance.                                                *)

Bounded(q, f) == Append(IF Len(q) = MaxQueue THEN Tail(q) ELSE q, f)

Send(kind, seq, seal, v) ==
  /\ open /\ pc \notin {"connect", "open"} /\ sent < MaxSent
  /\ sent' = sent + 1
  /\ LET f == [n |-> sent + 1, kind |-> kind, seq |-> seq, seal |-> seal, version |-> v]
     IN /\ value' = f
        /\ offered' = IF offered = {} THEN {} ELSE offered \cup {f}
        /\ queue' = IF subscribed THEN Bounded(queue, f) ELSE queue
  /\ agreedTo' = IF kind = "confirmed" THEN agreedTo \cup {seq} ELSE agreedTo
  /\ sealedSeqs' = IF seal = "ours" THEN sealedSeqs \cup {seq} ELSE sealedSeqs
  /\ repeats' = (repeats \/ (seal = "ours" /\ seq \in sealedSeqs))
  /\ UNCHANGED <<mode, pc, outcome, open, canRead, subscribed, lastRead, exchangeVars, written>>

\* It has the key once it confirmed a request, or from an earlier pairing.
HasKey == mode = "resume" \/ agreedTo # {}

Answer ==
  \E w \in written :
    \/ /\ w[1] = "ask"
       /\ \/ \E v \in HubVersions : Send("confirmed", w[2], "plain", v)
          \/ \E kind \in RequestKinds \ {"confirmed"} : Send(kind, w[2], "plain", MaxVersion)
    \/ /\ w[1] = "greet" /\ HasKey
       /\ \E v \in HubVersions : Send("success", w[2], "ours", v)
    \/ /\ w[1] = "fetch" /\ HasKey
       /\ \E v \in HubVersions : Send("capabilities", w[2], "ours", v)

\* Frames of its own, and what the radio damages.  A sequence matters only
\* in a frame the exchange can open.
Unasked ==
  \/ HasKey /\ \E seq \in 0 .. MaxSeq : Send("other", seq, "ours", MaxVersion)
  \/ \E seal \in {"plain", "foreign"} : Send("other", 0, seal, MaxVersion)
  \/ Send("malformed", 0, "plain", MaxVersion)

TaskStep ==
  \/ Connected \/ Opened \/ StageFails
  \/ WriteRequest \/ WriteGreeting \/ WriteFetch
  \/ Take \/ StartRead \/ ReadEnds \/ Released

Next == TaskStep \/ Cancel \/ Answer \/ Unasked

Spec == Init /\ [][Next]_vars

\* Each stage runs under a deadline, whatever arrives, and a disconnect is
\* given up after five seconds.
Fairness == WF_vars(StageFails) /\ WF_vars(Released)
FairSpec == Spec /\ Fairness

-----------------------------------------------------------------------------
(* Properties.                                                             *)

TypeOK ==
  /\ mode \in {"pair", "resume"}
  /\ pc \in Waits \cup Writes \cup {"connect", "open", "release", "done"}
  /\ outcome \in {"none", "paired", "failed", "replayed", "cancelled"}
  /\ open \in BOOLEAN /\ canRead \in BOOLEAN /\ subscribed \in BOOLEAN
  /\ queue \in Seq(Frames) /\ Len(queue) <= MaxQueue
  /\ lastRead \in Frames \cup {NoFrame} /\ offered \subseteq Frames \cup {NoFrame}
  /\ state \in {"new", "awaiting", "handshaking", "active", "rejected", "timedOut", "cancelled"}
  /\ version \in MinVersion .. MaxVersion /\ requestSeq \in 0 .. 2 /\ cipher \in BOOLEAN
  /\ seen \subseteq 0 .. MaxSeq /\ count \in 0 .. MaxResponses
  /\ written \subseteq Writes \X (0 .. MaxSeq) /\ value \in Frames \cup {NoFrame}
  /\ sent \in 0 .. MaxSent /\ agreedTo \subseteq 0 .. MaxSeq
  /\ sealedSeqs \subseteq 0 .. MaxSeq /\ repeats \in BOOLEAN

\* A key agreed in a pairing comes with the appliance's confirmation of the
\* request last sent: an answer to the request before the version was lowered
\* does not count, however late it arrives.
AgreedToLast ==
  mode = "pair" /\ state \in {"handshaking", "active"} => requestSeq \in agreedTo

\* Frames come by notification or by reading.  Where only one of the two
\* works, an exchange fails for a replay only if the appliance did repeat.
OneRouteOneDelivery ==
  outcome = "replayed" /\ ~(canRead /\ subscribed) => repeats

\* What the error of silabs_secure.py:235 says, whichever way frames come.
ReplayMeansRepeat == outcome = "replayed" => repeats

Phase ==
  IF outcome = "none"
    THEN [new |-> "idle", awaiting |-> "asking", handshaking |-> "agreed", active |-> "proved"][state]
    ELSE IF outcome = "paired" THEN "delivered" ELSE "over"

Contract == INSTANCE ExchangeContract WITH
  phase <- Phase, asked <- requestSeq, holds <- cipher

\* The exchange keeps the contract of ExchangeContract.
ContractKept == Contract!ContractSpec

\* It ends, without a link and without a session key.
ExchangeEnds == <>(pc = "done" /\ ~open /\ ~cipher)

=============================================================================
