-------------------------- MODULE SaberPairingProofs --------------------------
(***************************************************************************)
(* Proofs about SaberPairing for any number of service attempts and        *)
(* greetings and any versions a hub may name.  The user's decision stays   *)
(* queued because the hub answers a command once, and a queue has room for *)
(* the answers to all of them.                                             *)
(***************************************************************************)
EXTENDS SaberPairing, FiniteSetTheorems, TLAPS

Before == Setup \cup {"connect", "clear", "drop", "backoff"}

\* Which link there is, and what has been sent over it, at each await.
StageInv ==
  /\ pc \in {"connect", "backoff"} => client = 0 /\ link < ServiceAttempts
  /\ pc \in Setup \cup Exchange \cup {"clear", "drop", "release"} => client = link /\ link > 0
  /\ open = IF pc \in Setup \cup Exchange \cup {"clear"} THEN {client} ELSE {}
  /\ pc \in Before => sequence = 1 /\ owed = {}
  /\ pc = "greet" => sequence <= Greetings
  /\ pc \in {"greet", "greeting", "request"} => \A s \in owed : s < sequence
  /\ pc = "confirm" => \A s \in owed : s <= sequence
  /\ offered # {} => pc \in Polling
  /\ pc \notin {"confirm", "post", "farewell", "release", "done"} => decision = "none"

-----------------------------------------------------------------------------
LEMMA InitStage == Init => TypeOK /\ StageInv
<1> SUFFICES ASSUME Init PROVE TypeOK /\ StageInv
  OBVIOUS
<1>1. replies \in Queues /\ pairingReplies \in Queues
  BY PairingAssumption DEF Init, Queues
<1>2. value \in Frames \cup {NoFrame}
  <2>1. Old \subseteq Frames
    <3> SUFFICES ASSUME NEW a \in Answers PROVE Frame(a[1], 0, 0, a[2]) \in Frames
      BY DEF Old
    <3>1. a[1] \in FrameKinds /\ a[2] \in Versions \cup {InitialVersion}
      BY DEF Answers, GreetingAnswers, RequestAnswers, FrameKinds, PairingKinds, Decisions
    <3> QED
      BY <3>1, PairingAssumption DEF Frame, Frames
  <2> QED
    BY <2>1 DEF Init
<1>3. link \in 0 .. ServiceAttempts /\ sequence \in 1 .. Greetings + 1 /\ 0 < ServiceAttempts
  BY PairingAssumption DEF Init
<1>4. TypeOK
  BY <1>1, <1>2, <1>3 DEF Init, TypeOK, Decisions
<1>5. StageInv
  BY <1>3 DEF Init, StageInv, Setup, Exchange, Polling
<1> QED
  BY <1>4, <1>5

-----------------------------------------------------------------------------
(* The steps, told apart by what they can disturb.                         *)

\* The end of the task, wherever it is suspended.
LEMMA FinishStep ==
  ASSUME TypeOK, StageInv, NEW how \in {"paired", "failed", "cancelled"}, Finish(how)
  PROVE  TypeOK' /\ StageInv'
<1>1. /\ outcome' = how /\ pc' \in {"done", "release"} /\ open' = {} /\ offered' = {}
      /\ pc' = "release" => client # 0
      /\ UNCHANGED <<link, client, up, subs, canRead, replies, pairingReplies, lastPolled, version,
                     sequence, value, owed, decision>>
  BY DEF Finish, End, queueVars, hubVars, StageInv
<1>2. pc' = "release" => client' = link' /\ link' > 0
  BY <1>1 DEF TypeOK
<1>3. TypeOK'
  BY <1>1 DEF TypeOK
<1>4. StageInv'
  BY <1>1, <1>2 DEF StageInv, Setup, Exchange, Polling, Before
<1> QED
  BY <1>3, <1>4

LEMMA EmptyQueue == <<>> \in Queues
  BY PairingAssumption DEF Queues

\* Steps before the exchange.
LEMMA ConnectStep ==
  ASSUME TypeOK, StageInv,
         Connected \/ Subscribe \/ SubscribeStatus \/ OpenSession \/ ServicesMissing
           \/ CacheCleared \/ Dropped \/ Reconnect
  PROVE  TypeOK' /\ StageInv'
<1> USE PairingAssumption DEF Setup, Exchange, Polling
<1>0. link \in Nat /\ link <= ServiceAttempts
  BY DEF TypeOK
<1>1. CASE Connected
  <2>1. /\ link < ServiceAttempts /\ open = {} /\ offered = {} /\ sequence = 1 /\ owed = {}
        /\ decision = "none"
    BY <1>1 DEF Connected, StageInv, Before
  <2>2. /\ link' = link + 1 /\ client' = link' /\ link' \in 1 .. ServiceAttempts
        /\ open' = {client'}
    BY <1>0, <1>1, <2>1 DEF Connected
  <2>3. replies' \in Queues /\ pairingReplies' \in Queues
    BY <1>1, EmptyQueue DEF Connected, TypeOK, queueVars
  <2>4. /\ pc' \in {"subscribe", "clear"} /\ up' = TRUE /\ subs' = {} /\ canRead' \in BOOLEAN
        /\ UNCHANGED <<outcome, lastPolled, offered, version, sequence, value, owed, decision>>
    BY <1>1 DEF Connected, TypeOK, readVars, hubVars
  <2>5. TypeOK'
    BY <2>2, <2>3, <2>4 DEF TypeOK
  <2>6. StageInv'
    BY <2>1, <2>2, <2>4 DEF StageInv, Before
  <2> QED
    BY <2>5, <2>6
<1>2. CASE Dropped
  <2>1. /\ open = {} /\ offered = {} /\ sequence = 1 /\ owed = {} /\ decision = "none"
    BY <1>2 DEF Dropped, StageInv, Before
  <2>2. /\ client' = 0 /\ up' = FALSE /\ subs' = {}
        /\ UNCHANGED <<link, open, canRead, replies, pairingReplies, lastPolled, offered, version,
                       sequence, value, owed, decision>>
    BY <1>2 DEF Dropped, queueVars, readVars, hubVars
  <2>3. \/ pc' = "done" /\ outcome' = "failed"
        \/ pc' = "backoff" /\ outcome' = outcome /\ link # ServiceAttempts
    BY <1>2 DEF Dropped
  <2>4. TypeOK'
    BY <2>2, <2>3 DEF TypeOK
  <2>5. pc' = "backoff" => link' < ServiceAttempts
    BY <1>0, <2>2, <2>3
  <2>6. StageInv'
    BY <2>1, <2>2, <2>3, <2>5 DEF StageInv, Before
  <2> QED
    BY <2>4, <2>6
<1>3. CASE Subscribe \/ SubscribeStatus \/ OpenSession \/ ServicesMissing
  <2>1. /\ pc \in Setup /\ pc' \in {"status", "session", "greet", "clear"}
        /\ UNCHANGED <<outcome, link, client, open, up, canRead, replies, pairingReplies, lastPolled,
                       offered, version, sequence, value, owed, decision>>
    BY <1>3 DEF Subscribe, SubscribeStatus, OpenSession, ServicesMissing, SetupStep, queueVars,
                readVars, hubVars
  <2>2. subs' \subseteq {"response", "status"}
    BY <1>3 DEF Subscribe, SubscribeStatus, OpenSession, ServicesMissing, TypeOK
  <2>3. TypeOK'
    BY <2>1, <2>2 DEF TypeOK
  <2>4. 1 <= Greetings
    OBVIOUS
  <2>5. StageInv'
    BY <2>1, <2>4 DEF StageInv, Before
  <2> QED
    BY <2>3, <2>5
<1>4. CASE CacheCleared
  <2>1. /\ pc = "clear" /\ pc' = "drop" /\ open' = open \ {client}
        /\ UNCHANGED <<outcome, link, client, up, subs, canRead, replies, pairingReplies, lastPolled,
                       offered, version, sequence, value, owed, decision>>
    BY <1>4 DEF CacheCleared, queueVars, readVars, hubVars
  <2>2. TypeOK'
    BY <2>1 DEF TypeOK
  <2>3. StageInv'
    BY <2>1 DEF StageInv, Before
  <2> QED
    BY <2>2, <2>3
<1>5. CASE Reconnect
  <2>1. /\ pc = "backoff" /\ pc' = "connect"
        /\ UNCHANGED <<outcome, link, client, open, up, subs, canRead, replies, pairingReplies,
                       lastPolled, offered, version, sequence, value, owed, decision>>
    BY <1>5 DEF Reconnect, linkVars, queueVars, readVars, hubVars
  <2>2. TypeOK'
    BY <2>1 DEF TypeOK
  <2>3. StageInv'
    BY <2>1 DEF StageInv, Before
  <2> QED
    BY <2>2, <2>3
<1> QED
  BY <1>1, <1>2, <1>3, <1>4, <1>5

\* What a reply leads to, in either loop.
LEMMA DeliverFacts ==
  ASSUME TypeOK, StageInv, pc \in Polling, NEW f \in Frames, Deliver(f)
  PROVE  /\ offered' = {} /\ version' \in Versions \cup {InitialVersion}
         /\ outcome' \in {outcome, "failed"}
         /\ \/ pc' = "release" /\ open' = {}
            \/ /\ open' = open /\ pc = "greeting" /\ pc' \in {"greet", "request"}
               /\ pc' = "greet" => sequence <= Greetings
            \/ open' = open /\ pc = "confirm" /\ pc' \in {"confirm", "post"}
<1> USE DEF Polling
<1>1. client # 0 /\ open = {client}
  BY DEF TypeOK, StageInv, Exchange
<1>2. version \in Versions \cup {InitialVersion} /\ f.version \in Versions \cup {InitialVersion}
  BY DEF TypeOK, Frames
<1>3. ASSUME End("failed"), UNCHANGED version
      PROVE  /\ offered' = {} /\ outcome' = "failed" /\ pc' = "release" /\ open' = {}
  BY <1>1, <1>3 DEF End
<1>4. pc' = NextGreeting => /\ pc' \in {"greet", "request"}
                            /\ pc' = "greet" => sequence <= Greetings
  BY DEF NextGreeting
<1>5. CASE End("failed") /\ UNCHANGED version
  BY <1>2, <1>3, <1>5
<1>6. CASE /\ pc = "greeting" /\ f.kind # "malformed"
           /\ pc' = IF f.kind = "greeted" THEN "request" ELSE NextGreeting
           /\ version' = IF f.kind = "version" THEN f.version ELSE version
           /\ offered' = {} /\ UNCHANGED <<outcome, open>>
  <2>1. pc' \in {"greet", "request"} /\ (pc' = "greet" => sequence <= Greetings)
    BY <1>4, <1>6
  <2> QED
    BY <1>2, <1>6, <2>1
<1>7. CASE /\ pc = "confirm" /\ f.kind \notin {"malformed", "refused"}
           /\ pc' = IF f.kind = "confirmed" THEN "post" ELSE "confirm"
           /\ offered' = {} /\ UNCHANGED <<outcome, open, version>>
  BY <1>2, <1>7
<1> QED
  BY <1>5, <1>6, <1>7 DEF Deliver

LEMMA QueueFacts ==
  ASSUME NEW q \in Queues, q # <<>>
  PROVE  Head(q) \in Frames /\ Tail(q) \in Queues
BY PairingAssumption DEF Queues

LEMMA ReplyStep ==
  ASSUME TypeOK, StageInv, Take \/ ReadEnds
  PROVE  TypeOK' /\ StageInv'
<1>1. /\ pc \in Polling
      /\ UNCHANGED <<link, client, up, subs, canRead, sequence, value, owed, decision>>
  BY DEF Take, ReadEnds, StageInv, hubVars
<1>2. /\ replies \in Queues /\ pairingReplies \in Queues
      /\ lastPolled \in Frames \cup {NoFrame} /\ version \in Versions \cup {InitialVersion}
      /\ offered \subseteq Frames \cup {NoFrame}
  BY DEF TypeOK
<1>3. /\ replies' \in Queues /\ pairingReplies' \in Queues
      /\ lastPolled' \in Frames \cup {NoFrame}
  BY <1>2, QueueFacts DEF Take, ReadEnds, queueVars
<1>4. \/ \E f \in Frames : Deliver(f)
      \/ offered' = {} /\ UNCHANGED <<pc, outcome, open, version>>
  BY <1>2, QueueFacts DEF Take, ReadEnds
<1>5. CASE \E f \in Frames : Deliver(f)
  <2>1. /\ offered' = {} /\ version' \in Versions \cup {InitialVersion}
        /\ outcome' \in {outcome, "failed"}
        /\ \/ pc' = "release" /\ open' = {}
           \/ /\ open' = open /\ pc = "greeting" /\ pc' \in {"greet", "request"}
              /\ pc' = "greet" => sequence <= Greetings
           \/ open' = open /\ pc = "confirm" /\ pc' \in {"confirm", "post"}
    BY <1>1, <1>5, DeliverFacts
  <2>2. pc' \in Exchange \cup {"release"}
    BY <2>1 DEF Exchange, Polling
  <2>3. TypeOK'
    BY <1>1, <1>3, <2>1, <2>2 DEF TypeOK
  <2>4. StageInv'
    BY <1>1, <2>1 DEF StageInv, Exchange, Setup, Polling, Before
  <2> QED
    BY <2>3, <2>4
<1>6. CASE offered' = {} /\ UNCHANGED <<pc, outcome, open, version>>
  <2>1. TypeOK'
    BY <1>1, <1>3, <1>6 DEF TypeOK
  <2>2. StageInv'
    BY <1>1, <1>6 DEF StageInv
  <2> QED
    BY <2>1, <2>2
<1> QED
  BY <1>4, <1>5, <1>6

\* The other steps of the exchange.
LEMMA ExchangeStep ==
  ASSUME TypeOK, StageInv,
         Greet \/ Request \/ PostPair \/ StartRead \/ ReadFails \/ GreetingTimeout \/ Released
  PROVE  TypeOK' /\ StageInv'
<1> USE PairingAssumption DEF Setup, Exchange, Polling
<1>0. /\ sequence \in Nat /\ sequence >= 1 /\ sequence <= Greetings + 1 /\ Greetings \in Nat
      /\ owed \subseteq 1 .. Greetings + 1 /\ \A s \in owed : s \in Nat
  BY DEF TypeOK
<1>1. CASE Greet
  <2>1. /\ pc = "greet" /\ pc' = "greeting" /\ owed' = owed \cup {sequence}
        /\ sequence' = sequence + 1 /\ sequence <= Greetings
        /\ UNCHANGED <<outcome, link, client, open, up, subs, canRead, replies, pairingReplies,
                       lastPolled, offered, version, value, decision>>
    BY <1>1 DEF Greet, Write, linkVars, queueVars, readVars, StageInv
  <2>2. sequence' \in 1 .. Greetings + 1 /\ owed' \subseteq 1 .. Greetings + 1
    BY <1>0, <2>1
  <2>3. \A s \in owed' : s < sequence'
    BY <1>0, <2>1 DEF StageInv
  <2>4. TypeOK'
    BY <2>1, <2>2 DEF TypeOK
  <2>5. StageInv'
    BY <2>1, <2>3 DEF StageInv, Before
  <2> QED
    BY <2>4, <2>5
<1>2. CASE Request
  <2>1. /\ pc = "request" /\ pc' = "confirm" /\ owed' = owed \cup {sequence}
        /\ UNCHANGED <<outcome, link, client, open, up, subs, canRead, replies, pairingReplies,
                       lastPolled, offered, version, sequence, value, decision>>
    BY <1>2 DEF Request, Write, linkVars, queueVars, readVars
  <2>2. owed' \subseteq 1 .. Greetings + 1
    BY <1>0, <2>1
  <2>3. \A s \in owed' : s <= sequence'
    BY <1>0, <2>1 DEF StageInv
  <2>4. TypeOK'
    BY <2>1, <2>2 DEF TypeOK
  <2>5. StageInv'
    BY <2>1, <2>3 DEF StageInv, Before
  <2> QED
    BY <2>4, <2>5
<1>3. CASE PostPair
  <2>1. /\ pc = "post" /\ pc' = "farewell"
        /\ UNCHANGED <<outcome, link, client, open, up, subs, canRead, replies, pairingReplies,
                       lastPolled, offered, version, sequence, value, owed, decision>>
    BY <1>3 DEF PostPair, linkVars, queueVars, readVars, hubVars
  <2>2. TypeOK'
    BY <2>1 DEF TypeOK
  <2>3. StageInv'
    BY <2>1 DEF StageInv, Before
  <2> QED
    BY <2>2, <2>3
<1>4. CASE StartRead \/ ReadFails
  <2>1. /\ pc \in Polling /\ offered' \in {{}, {value}}
        /\ UNCHANGED <<pc, outcome, link, client, open, up, subs, canRead, replies, pairingReplies,
                       lastPolled, version, sequence, value, owed, decision>>
    BY <1>4 DEF StartRead, ReadFails, linkVars, queueVars, hubVars, StageInv
  <2>2. value \in Frames \cup {NoFrame}
    BY DEF TypeOK
  <2>3. offered' \subseteq Frames \cup {NoFrame}
    BY <2>1, <2>2
  <2>4. TypeOK'
    BY <2>1, <2>3 DEF TypeOK
  <2>5. StageInv'
    BY <2>1 DEF StageInv
  <2> QED
    BY <2>4, <2>5
<1>5. CASE GreetingTimeout
  <2>1. /\ pc = "greeting" /\ pc' \in {"greet", "request"} /\ offered' = {}
        /\ pc' = "greet" => sequence <= Greetings
        /\ UNCHANGED <<outcome, link, client, open, up, subs, canRead, replies, pairingReplies,
                       lastPolled, version, sequence, value, owed, decision>>
    BY <1>5 DEF GreetingTimeout, NextGreeting, linkVars, queueVars, hubVars
  <2>2. TypeOK'
    BY <2>1 DEF TypeOK
  <2>3. StageInv'
    BY <2>1 DEF StageInv, Before
  <2> QED
    BY <2>2, <2>3
<1>6. CASE Released
  <2>1. /\ pc = "release" /\ pc' = "done" /\ client' = 0 /\ up' = FALSE /\ subs' = {}
        /\ UNCHANGED <<outcome, link, open, canRead, replies, pairingReplies,
                       lastPolled, offered, version, sequence, value, owed, decision>>
    BY <1>6 DEF Released, queueVars, readVars, hubVars
  <2>2. TypeOK'
    BY <2>1 DEF TypeOK
  <2>3. StageInv'
    BY <2>1 DEF StageInv, Before
  <2> QED
    BY <2>2, <2>3
<1> QED
  BY <1>1, <1>2, <1>3, <1>4, <1>5, <1>6

-----------------------------------------------------------------------------
(* The hub.                                                                *)

\* notify() keeps the bound of both queues, and drops the oldest only.
LEMMA BoundedFacts ==
  ASSUME NEW q \in Queues, NEW f \in Frames
  PROVE  /\ Bounded(q, f) \in Queues
         /\ Len(Bounded(q, f)) > 0 /\ Bounded(q, f)[Len(Bounded(q, f))] = f
         /\ Len(q) < MaxQueue =>
              /\ Len(Bounded(q, f)) = Len(q) + 1
              /\ \A i \in DOMAIN q : Bounded(q, f)[i] = q[i]
         /\ Len(q) = MaxQueue =>
              /\ Len(Bounded(q, f)) = Len(q)
              /\ \A i \in DOMAIN q : i > 1 => Bounded(q, f)[i - 1] = q[i]
<1> USE PairingAssumption
<1>1. q \in Seq(Frames) /\ Len(q) <= MaxQueue /\ Len(q) \in Nat
  BY DEF Queues
<1>2. CASE Len(q) = MaxQueue
  <2>1. q # <<>>
    BY <1>1, <1>2
  <2>2. /\ Tail(q) \in Seq(Frames) /\ Len(Tail(q)) = Len(q) - 1
        /\ \A i \in 1 .. Len(q) - 1 : Tail(q)[i] = q[i + 1]
    BY <1>1, <2>1
  <2>3. Bounded(q, f) = Append(Tail(q), f)
    BY <1>2 DEF Bounded
  <2>4. /\ Append(Tail(q), f) \in Seq(Frames) /\ Len(Append(Tail(q), f)) = Len(q)
        /\ \A i \in 1 .. Len(q) - 1 : Append(Tail(q), f)[i] = q[i + 1]
        /\ Append(Tail(q), f)[Len(q)] = f
    BY <1>1, <2>2
  <2>5. \A i \in DOMAIN q : i > 1 => i - 1 \in 1 .. Len(q) - 1 /\ (i - 1) + 1 = i
    BY <1>1
  <2>6. \A i \in DOMAIN q : i > 1 => Bounded(q, f)[i - 1] = q[i]
    BY <2>3, <2>4, <2>5
  <2> QED
    BY <1>1, <1>2, <2>1, <2>3, <2>4, <2>6 DEF Queues
<1>3. CASE Len(q) < MaxQueue
  <2>1. Bounded(q, f) = Append(q, f)
    BY <1>1, <1>3 DEF Bounded
  <2> QED
    BY <1>1, <1>3, <2>1 DEF Queues
<1> QED
  BY <1>1, <1>2, <1>3

LEMMA NotifyFacts ==
  ASSUME TypeOK, NEW f \in Frames, Notify(f)
  PROVE  replies' \in Queues /\ pairingReplies' \in Queues
BY BoundedFacts DEF Notify, TypeOK

LEMMA RespondFrame ==
  ASSUME TypeOK, StageInv, NEW s \in 1 .. Greetings + 1, NEW kind, NEW v, up,
         \/ kind = "malformed" /\ v = InitialVersion
         \/ <<kind, v>> \in Answers
  PROVE  Frame(kind, link, s, v) \in Frames
<1>1. kind \in FrameKinds /\ v \in Versions \cup {InitialVersion}
  BY DEF Answers, GreetingAnswers, RequestAnswers, FrameKinds, PairingKinds, Decisions
<1>2. link \in 0 .. ServiceAttempts /\ s \in 0 .. Greetings + 1
  BY PairingAssumption DEF TypeOK
<1> QED
  BY <1>1, <1>2 DEF Frame, Frames

\* What the hub can do, and only the pairing request has the user's answer.
LEMMA RespondFacts ==
  ASSUME TypeOK, StageInv, NEW s \in 1 .. Greetings + 1,
         NEW a \in Answers \cup {<<"malformed", InitialVersion>>}, Respond(s, a[1], a[2])
  PROVE  /\ Frame(a[1], link, s, a[2]) \in Frames
         /\ value' = Frame(a[1], link, s, a[2])
         /\ offered' = IF offered = {} THEN {} ELSE offered \cup {value'}
         /\ \/ "response" \in subs /\ Notify(Frame(a[1], link, s, a[2]))
            \/ "response" \notin subs /\ UNCHANGED <<replies, pairingReplies>>
         /\ s \in owed /\ owed' = owed \ {s} /\ up /\ pc \notin {"post", "farewell", "release"}
         /\ \/ decision' = decision /\ a[1] \notin Decisions
            \/ decision' = a[1] /\ a[1] \in Decisions /\ pc = "confirm" /\ s = sequence
         /\ UNCHANGED <<pc, outcome, link, client, open, up, subs, canRead, lastPolled, version,
                        sequence>>
<1>1. a = <<a[1], a[2]>>
  BY DEF Answers, GreetingAnswers, RequestAnswers
<1>2. \/ a[1] = "malformed" /\ a[2] = InitialVersion
      \/ <<a[1], a[2]>> \in Answers
  BY <1>1
<1>3. up /\ s \in owed /\ pc \notin {"post", "farewell", "release"}
  BY DEF Respond, Heard
<1>4. Frame(a[1], link, s, a[2]) \in Frames
  BY <1>2, <1>3, RespondFrame
<1>5. a[1] \in Decisions => pc = "confirm" /\ s = sequence
  BY <1>1 DEF Respond, Decisions, GreetingAnswers
<1>6. UNCHANGED <<pc, outcome, link, client, open, up, subs, canRead, lastPolled, version, sequence>>
  BY DEF Respond, linkVars
<1>7. /\ value' = Frame(a[1], link, s, a[2])
      /\ offered' = IF offered = {} THEN {} ELSE offered \cup {value'}
      /\ \/ "response" \in subs /\ Notify(Frame(a[1], link, s, a[2]))
         \/ "response" \notin subs /\ UNCHANGED <<replies, pairingReplies>>
      /\ owed' = owed \ {s}
      /\ decision' = IF a[1] \in Decisions THEN a[1] ELSE decision
  BY DEF Respond, queueVars
<1> QED
  BY <1>3, <1>4, <1>5, <1>6, <1>7

LEMMA TelemetryFacts ==
  ASSUME TypeOK, NEW kind \in {"telemetry", "malformed"}, Telemetry(kind)
  PROVE  /\ Frame(kind, link, 0, InitialVersion) \in Frames
         /\ replies' = Bounded(replies, Frame(kind, link, 0, InitialVersion))
         /\ UNCHANGED <<pc, outcome, link, client, open, up, subs, canRead, pairingReplies, lastPolled,
                        offered, version, sequence, value, owed, decision>>
<1>1. Frame(kind, link, 0, InitialVersion) \in Frames
  <2>1. kind \in FrameKinds /\ link \in 0 .. ServiceAttempts /\ 0 \in 0 .. Greetings + 1
    BY PairingAssumption DEF TypeOK, FrameKinds
  <2> QED
    BY <2>1 DEF Frame, Frames
<1>2. kind \notin PairingKinds
  BY DEF PairingKinds, Decisions
<1>3. Frame(kind, link, 0, InitialVersion).kind = kind
  BY DEF Frame
<1> QED
  BY <1>1, <1>2, <1>3 DEF Telemetry, Notify, linkVars, readVars, hubVars

LEMMA HubKeeps == TypeOK /\ StageInv /\ HubStep => TypeOK' /\ StageInv'
<1> SUFFICES ASSUME TypeOK, StageInv, HubStep PROVE TypeOK' /\ StageInv'
  OBVIOUS
<1>1. ASSUME NEW s \in 1 .. Greetings + 1,
             NEW a \in Answers \cup {<<"malformed", InitialVersion>>}, Respond(s, a[1], a[2])
      PROVE  TypeOK' /\ StageInv'
  <2> DEFINE f == Frame(a[1], link, s, a[2])
  <2>1. /\ f \in Frames /\ value' = f
        /\ offered' = IF offered = {} THEN {} ELSE offered \cup {value'}
        /\ Notify(f) \/ UNCHANGED <<replies, pairingReplies>>
        /\ s \in owed /\ owed' = owed \ {s} /\ decision' \in Decisions \cup {decision}
        /\ decision' # decision => pc = "confirm"
        /\ UNCHANGED <<pc, outcome, link, client, open, up, subs, canRead, lastPolled, version,
                       sequence>>
    BY <1>1, RespondFacts
  <2>2. replies' \in Queues /\ pairingReplies' \in Queues
    BY <2>1, NotifyFacts DEF TypeOK
  <2>3. offered' \subseteq Frames \cup {NoFrame} /\ (offered' # {} => offered # {})
    BY <2>1 DEF TypeOK
  <2>4. owed' \subseteq 1 .. Greetings + 1 /\ owed' \subseteq owed
    BY <2>1 DEF TypeOK
  <2>5. pc \in Before => owed = {}
    BY DEF StageInv
  <2> HIDE DEF f
  <2>6. TypeOK'
    BY <2>1, <2>2, <2>3, <2>4 DEF TypeOK
  <2>7. StageInv'
    BY <2>1, <2>3, <2>4 DEF StageInv
  <2> QED
    BY <2>6, <2>7
<1>2. ASSUME NEW kind \in {"telemetry", "malformed"}, Telemetry(kind)
      PROVE  TypeOK' /\ StageInv'
  <2>1. /\ Frame(kind, link, 0, InitialVersion) \in Frames
        /\ replies' = Bounded(replies, Frame(kind, link, 0, InitialVersion))
        /\ UNCHANGED <<pc, outcome, link, client, open, up, subs, canRead, pairingReplies, lastPolled,
                       offered, version, sequence, value, owed, decision>>
    BY <1>2, TelemetryFacts
  <2>2. replies \in Queues
    BY DEF TypeOK
  <2>3. replies' \in Queues
    BY <2>1, <2>2, BoundedFacts
  <2>4. TypeOK'
    BY <2>1, <2>3 DEF TypeOK
  <2>5. StageInv'
    BY <2>1 DEF StageInv
  <2> QED
    BY <2>4, <2>5
<1>3. CASE LinkLost
  <2>1. /\ up' = FALSE
        /\ UNCHANGED <<pc, outcome, link, client, open, subs, canRead, replies, pairingReplies,
                       lastPolled, offered, version, sequence, value, owed, decision>>
    BY <1>3 DEF LinkLost, queueVars, readVars, hubVars
  <2>2. TypeOK'
    BY <2>1 DEF TypeOK
  <2>3. StageInv'
    BY <2>1 DEF StageInv
  <2> QED
    BY <2>2, <2>3
<1> QED
  BY <1>1, <1>2, <1>3 DEF HubStep

LEMMA CancelKeeps == TypeOK /\ StageInv /\ Cancel => TypeOK' /\ StageInv'
<1> SUFFICES ASSUME TypeOK, StageInv, Cancel PROVE TypeOK' /\ StageInv'
  OBVIOUS
<1>1. CASE pc = "release"
  <2>1. /\ pc' = "done" /\ outcome' = "cancelled"
        /\ UNCHANGED <<link, client, open, up, subs, canRead, replies, pairingReplies, lastPolled,
                       offered, version, sequence, value, owed, decision>>
    BY <1>1 DEF Cancel, linkVars, queueVars, readVars, hubVars
  <2>2. TypeOK'
    BY <2>1 DEF TypeOK
  <2>3. StageInv'
    BY <1>1, <2>1 DEF StageInv, Setup, Exchange, Polling, Before
  <2> QED
    BY <2>2, <2>3
<1>2. CASE Finish("cancelled")
  BY <1>2, FinishStep
<1> QED
  BY <1>1, <1>2 DEF Cancel

LEMMA StepKeeps == TypeOK /\ StageInv /\ [Next]_vars => TypeOK' /\ StageInv'
<1> SUFFICES ASSUME TypeOK, StageInv, [Next]_vars PROVE TypeOK' /\ StageInv'
  OBVIOUS
<1>1. CASE TaskStep
  <2>1. CASE ConnectFails \/ SessionFails \/ WriteFails \/ ConfirmTimeout \/ Farewell
    BY <2>1, FinishStep DEF ConnectFails, SessionFails, WriteFails, ConfirmTimeout, Farewell
  <2> QED
    BY <1>1, <2>1, ConnectStep, ReplyStep, ExchangeStep DEF TaskStep
<1>2. CASE UNCHANGED vars
  BY <1>2 DEF vars, TypeOK, StageInv
<1> QED
  BY <1>1, <1>2, HubKeeps, CancelKeeps DEF Next

\* SaberPairing's variables stay in their types.
THEOREM TypeCorrect == Spec => []TypeOK
<1>1. Init => TypeOK /\ StageInv
  BY InitStage
<1>2. TypeOK /\ StageInv /\ [Next]_vars => TypeOK' /\ StageInv'
  BY StepKeeps
<1> QED
  BY <1>1, <1>2, PTL DEF Spec

\* Of the links made, only the one in use is not told to disconnect: none is
\* left when async_pair ends.
THEOREM OneLinkTrue == Spec => []OneLink
<1>1. Init => TypeOK /\ StageInv
  BY InitStage
<1>2. TypeOK /\ StageInv /\ [Next]_vars => TypeOK' /\ StageInv'
  BY StepKeeps
<1>3. TypeOK /\ StageInv => OneLink
  BY DEF StageInv, OneLink, Setup, Exchange, Polling
<1> QED
  BY <1>1, <1>2, <1>3, PTL DEF Spec

\* A link is made only before anything is sent: the user is asked once.
THEOREM NoReconnectTrue == Spec => NoReconnectOnceAsked
<1>1. Init => TypeOK /\ StageInv
  BY InitStage
<1>2. TypeOK /\ StageInv /\ [Next]_vars => TypeOK' /\ StageInv'
  BY StepKeeps
<1>3. TypeOK /\ StageInv /\ [Next]_vars => [link' # link => sequence = 1 /\ owed = {}]_vars
  <2> SUFFICES ASSUME StageInv, [Next]_vars, link' # link PROVE sequence = 1 /\ owed = {}
    OBVIOUS
  <2>1. Connected
    BY DEF vars, Next, TaskStep, HubStep, LinkLost, Respond, Telemetry, Cancel, Finish, linkVars,
           ConnectFails, Subscribe, SubscribeStatus, OpenSession, SessionFails, ServicesMissing,
           SetupStep, CacheCleared, Dropped, Reconnect, Greet, Request, Write, PostPair, WriteFails,
           Take, StartRead, ReadEnds, ReadFails, GreetingTimeout, ConfirmTimeout, Farewell, Released
  <2> QED
    BY <2>1 DEF Connected, StageInv, Before
<1> QED
  BY <1>1, <1>2, <1>3, PTL DEF Spec, NoReconnectOnceAsked

-----------------------------------------------------------------------------
(* What the queues hold.                                                   *)

\* The elements of a queue came over link k.
Over(q, k) == \A i \in DOMAIN q : q[i].link = k

LEMMA OverTail ==
  ASSUME NEW q \in Queues, q # <<>>, NEW k, Over(q, k)
  PROVE  Over(Tail(q), k)
BY DEF Over, Queues

LEMMA OverBounded ==
  ASSUME NEW q \in Queues, NEW f \in Frames, NEW k, Over(q, k), f.link = k
  PROVE  Over(Bounded(q, f), k)
<1>1. q \in Seq(Frames) /\ Len(q) \in Nat /\ Len(q) <= MaxQueue /\ MaxQueue \in Nat \ {0}
  BY PairingAssumption DEF Queues
<1>2. CASE Len(q) = MaxQueue
  <2>1. q # <<>>
    BY <1>1, <1>2
  <2>2. Over(Tail(q), k) /\ Tail(q) \in Seq(Frames)
    BY <1>1, <2>1, OverTail
  <2>3. Over(Append(Tail(q), f), k)
    BY <2>2 DEF Over
  <2> QED
    BY <1>2, <2>3 DEF Bounded
<1>3. CASE Len(q) # MaxQueue
  <2>1. Over(Append(q, f), k)
    BY <1>1 DEF Over
  <2> QED
    BY <1>3, <2>1 DEF Bounded
<1> QED
  BY <1>2, <1>3

Isolated == pc \in Setup \cup Exchange => Over(replies, link) /\ Over(pairingReplies, link)

LEMMA IsolatedStep == TypeOK /\ StageInv /\ Isolated /\ [Next]_vars => Isolated'
<1> SUFFICES ASSUME TypeOK, StageInv, Isolated, [Next]_vars PROVE Isolated'
  OBVIOUS
<1> USE DEF Setup, Exchange, Polling
<1>0. replies \in Queues /\ pairingReplies \in Queues
  BY DEF TypeOK
<1>1. CASE /\ UNCHANGED <<link, replies, pairingReplies>>
           /\ pc' \in Setup \cup Exchange => pc \in Setup \cup Exchange
  BY <1>1 DEF Isolated
<1>2. CASE Connected
  <2>1. pc' = "clear" \/ (replies' = <<>> /\ pairingReplies' = <<>>)
    BY <1>2 DEF Connected
  <2>2. pc' = "clear" => Isolated'
    BY DEF Isolated
  <2> QED
    BY <2>1, <2>2 DEF Isolated, Over
<1>3. CASE Take
  <2>1. /\ Over(replies, link) /\ Over(pairingReplies, link) /\ link' = link
        /\ replies' = replies \/ (replies # <<>> /\ replies' = Tail(replies))
        /\ \/ pairingReplies' = pairingReplies
           \/ pairingReplies # <<>> /\ pairingReplies' = Tail(pairingReplies)
    BY <1>3 DEF Take, Isolated
  <2>2. Over(replies', link) /\ Over(pairingReplies', link)
    BY <1>0, <2>1, OverTail
  <2> QED
    BY <2>1, <2>2 DEF Isolated
<1>4. ASSUME NEW f \in Frames, Notify(f), f.link = link, UNCHANGED <<pc, link>>
      PROVE  Isolated'
  <2>1. CASE pc \in Setup \cup Exchange
    <3>1. Over(replies, link) /\ Over(pairingReplies, link)
      BY <2>1 DEF Isolated
    <3>2. Over(replies', link) /\ Over(pairingReplies', link)
      BY <1>0, <1>4, <3>1, OverBounded DEF Notify
    <3> QED
      BY <1>4, <3>2 DEF Isolated
  <2>2. CASE pc \notin Setup \cup Exchange
    BY <1>4, <2>2 DEF Isolated
  <2> QED
    BY <2>1, <2>2
<1>5. CASE HubStep
  <2>1. ASSUME NEW s \in 1 .. Greetings + 1,
               NEW a \in Answers \cup {<<"malformed", InitialVersion>>}, Respond(s, a[1], a[2])
        PROVE  Isolated'
    <3> DEFINE f == Frame(a[1], link, s, a[2])
    <3>1. /\ f \in Frames /\ UNCHANGED <<pc, link>>
          /\ Notify(f) \/ UNCHANGED <<replies, pairingReplies>>
      BY <2>1, RespondFacts
    <3>2. f.link = link
      BY DEF Frame
    <3> HIDE DEF f
    <3> QED
      BY <1>1, <1>4, <3>1, <3>2
  <2>2. ASSUME NEW kind \in {"telemetry", "malformed"}, Telemetry(kind)
        PROVE  Isolated'
    <3> DEFINE f == Frame(kind, link, 0, InitialVersion)
    <3>1. f \in Frames /\ UNCHANGED <<pc, link>>
      BY <2>2, TelemetryFacts
    <3>2. f.link = link /\ Notify(f)
      BY <2>2 DEF Frame, Telemetry
    <3> HIDE DEF f
    <3> QED
      BY <1>4, <3>1, <3>2
  <2>3. CASE LinkLost
    BY <1>1, <2>3 DEF LinkLost, queueVars
  <2> QED
    BY <1>5, <2>1, <2>2, <2>3 DEF HubStep
<1>6. ASSUME NEW how, Finish(how)
      PROVE  Isolated'
  BY <1>6 DEF Finish, End, queueVars, Isolated
<1>7. CASE Cancel
  <2>1. CASE pc = "release"
    BY <1>7, <2>1 DEF Cancel, Isolated
  <2> QED
    BY <1>6, <1>7, <2>1 DEF Cancel
<1>8. CASE ConnectFails \/ SessionFails \/ WriteFails \/ ConfirmTimeout \/ Farewell
  BY <1>6, <1>8 DEF ConnectFails, SessionFails, WriteFails, ConfirmTimeout, Farewell
<1>9. CASE ReadEnds
  <2>1. pc \in Polling /\ UNCHANGED <<link, replies, pairingReplies>>
    BY <1>9 DEF ReadEnds, StageInv, queueVars
  <2> QED
    BY <1>1, <2>1
<1>10. CASE \/ Subscribe \/ SubscribeStatus \/ OpenSession \/ ServicesMissing
            \/ CacheCleared \/ Dropped \/ Reconnect
            \/ Greet \/ Request \/ PostPair \/ StartRead \/ ReadFails
            \/ GreetingTimeout \/ Released
  BY <1>1, <1>10 DEF Subscribe, SubscribeStatus, OpenSession, ServicesMissing, SetupStep,
       CacheCleared, Dropped, Reconnect, Greet, Request, Write, PostPair, StartRead, ReadFails,
       GreetingTimeout, Released, linkVars, queueVars
<1>11. CASE UNCHANGED vars
  BY <1>1, <1>11 DEF vars
<1> QED
  BY <1>2, <1>3, <1>5, <1>7, <1>8, <1>9, <1>10, <1>11 DEF Next, TaskStep

\* In the exchange, every queued frame came over the link in use.
THEOREM LinkIsolationTrue == Spec => []LinkIsolation
<1>1. Init => TypeOK /\ StageInv /\ Isolated
  BY InitStage DEF Init, Isolated, Over
<1>2. TypeOK /\ StageInv /\ [Next]_vars => TypeOK' /\ StageInv'
  BY StepKeeps
<1>3. TypeOK /\ StageInv /\ Isolated /\ [Next]_vars => Isolated'
  BY IsolatedStep
<1>4. Isolated => LinkIsolation
  BY DEF Isolated, Over, LinkIsolation
<1> QED
  BY <1>1, <1>2, <1>3, <1>4, PTL DEF Spec

-----------------------------------------------------------------------------
(* The decision is in the queue, behind it no more frames than there were  *)
(* commands to answer.                                                     *)

Holds(q, d, s, n) ==
  \E i \in DOMAIN q : q[i].kind = d /\ q[i].seq = s /\ Len(q) - i + n <= Greetings

Waiting == pc = "confirm" /\ decision # "none" /\ "response" \in subs

Kept == Waiting => sequence \notin owed /\ Holds(pairingReplies, decision, sequence, Cardinality(owed))

LEMMA OwedFacts ==
  ASSUME TypeOK
  PROVE  /\ IsFiniteSet(owed) /\ Cardinality(owed) \in Nat
         /\ \A s \in owed : /\ Cardinality(owed \ {s}) = Cardinality(owed) - 1
                          /\ Cardinality(owed) >= 1
<1>1. IsFiniteSet(1 .. Greetings + 1)
  BY PairingAssumption, FS_Interval
<1>2. IsFiniteSet(owed)
  BY <1>1, FS_Subset DEF TypeOK
<1>3. Cardinality(owed) \in Nat
  BY <1>2, FS_CardinalityType
<1>4. ASSUME NEW s \in owed
      PROVE  Cardinality(owed \ {s}) = Cardinality(owed) - 1 /\ Cardinality(owed) >= 1
  <2>1. Cardinality(owed \ {s}) = Cardinality(owed) - 1
    BY <1>2, FS_RemoveElement
  <2>2. Cardinality(owed \ {s}) \in Nat
    BY <1>2, FS_RemoveElement, FS_CardinalityType
  <2> QED
    BY <1>3, <2>1, <2>2
<1> QED
  BY <1>2, <1>3, <1>4

\* Whatever is notified next: a decided request owes nothing, so the frame
\* answers a greeting, and the queue does not get that long.
LEMMA HoldsBounded ==
  ASSUME NEW q \in Queues, NEW f \in Frames, NEW d, NEW s, NEW n \in Nat, n >= 1,
         Holds(q, d, s, n)
  PROVE  Holds(Bounded(q, f), d, s, n - 1)
<1> USE PairingAssumption, QueueAssumption
<1>1. PICK i \in DOMAIN q : q[i].kind = d /\ q[i].seq = s /\ Len(q) - i + n <= Greetings
  BY DEF Holds
<1>2. Len(q) \in Nat /\ Len(q) <= MaxQueue /\ i \in 1 .. Len(q) /\ q \in Seq(Frames)
  BY <1>1 DEF Queues
<1>3. Bounded(q, f) \in Seq(Frames)
  BY BoundedFacts DEF Queues
<1>4. CASE Len(q) = MaxQueue
  <2>1. i > 1 /\ i - 1 \in 1 .. Len(q)
    BY <1>1, <1>2, <1>4
  <2>2. Bounded(q, f)[i - 1] = q[i] /\ Len(Bounded(q, f)) = Len(q)
    BY <1>1, <1>4, <2>1, BoundedFacts
  <2>3. Len(q) - (i - 1) + (n - 1) <= Greetings
    BY <1>1, <1>2
  <2>4. i - 1 \in DOMAIN Bounded(q, f)
    BY <1>3, <2>1, <2>2
  <2> QED
    BY <1>1, <2>2, <2>3, <2>4 DEF Holds
<1>5. CASE Len(q) < MaxQueue
  <2>1. Bounded(q, f)[i] = q[i] /\ Len(Bounded(q, f)) = Len(q) + 1
    BY <1>1, <1>5, BoundedFacts
  <2>2. (Len(q) + 1) - i + (n - 1) <= Greetings
    BY <1>1, <1>2
  <2>3. i \in DOMAIN Bounded(q, f)
    BY <1>2, <1>3, <2>1
  <2> QED
    BY <1>1, <2>1, <2>2, <2>3 DEF Holds
<1> QED
  BY <1>2, <1>4, <1>5

LEMMA HoldsTail ==
  ASSUME NEW q \in Queues, q # <<>>, NEW d, NEW s, NEW n \in Nat, Head(q).kind # d, Holds(q, d, s, n)
  PROVE  Holds(Tail(q), d, s, n)
<1>1. PICK i \in DOMAIN q : q[i].kind = d /\ q[i].seq = s /\ Len(q) - i + n <= Greetings
  BY DEF Holds
<1>2. Len(q) \in Nat /\ i \in 1 .. Len(q) /\ q \in Seq(Frames) /\ i # 1
  BY <1>1 DEF Queues
<1>3. /\ i - 1 \in DOMAIN Tail(q) /\ Tail(q)[i - 1] = q[i] /\ Len(Tail(q)) = Len(q) - 1
  BY <1>2
<1>4. (Len(q) - 1) - (i - 1) + n <= Greetings
  BY <1>1, <1>2, PairingAssumption
<1> QED
  BY <1>1, <1>3, <1>4 DEF Holds

\* The hub's answer to the pairing request is the last frame of the queue.
LEMMA DecisionQueued ==
  ASSUME TypeOK, StageInv, pc = "confirm", sequence \in owed, NEW q \in Queues, NEW f \in Frames,
         f.seq = sequence
  PROVE  Holds(Bounded(q, f), f.kind, sequence, Cardinality(owed \ {sequence}))
<1> USE PairingAssumption
<1>1. Bounded(q, f) \in Seq(Frames)
  BY BoundedFacts DEF Queues
<1>2. /\ Len(Bounded(q, f)) \in DOMAIN Bounded(q, f) /\ Len(Bounded(q, f)) \in Nat
      /\ Bounded(q, f)[Len(Bounded(q, f))] = f
  <2> DEFINE b == Bounded(q, f)
  <2>1. b \in Seq(Frames) /\ Len(b) > 0 /\ b[Len(b)] = f
    BY <1>1, BoundedFacts
  <2> HIDE DEF b
  <2>2. Len(b) \in Nat /\ DOMAIN b = 1 .. Len(b)
    BY <2>1
  <2>3. Len(b) \in DOMAIN b
    BY <2>1, <2>2
  <2> QED
    BY <2>1, <2>2, <2>3 DEF b
<1>3. owed \ {sequence} \subseteq 1 .. Greetings
  <2>1. sequence <= Greetings + 1 /\ sequence \in Nat
    BY DEF TypeOK
  <2>2. \A s \in owed : s \in Nat /\ s >= 1 /\ s <= sequence
    BY DEF TypeOK, StageInv
  <2> QED
    BY <2>1, <2>2
<1>4. IsFiniteSet(1 .. Greetings) /\ Cardinality(1 .. Greetings) = Greetings
  BY FS_Interval
<1>5. Cardinality(owed \ {sequence}) <= Greetings /\ Cardinality(owed \ {sequence}) \in Nat
  BY <1>3, <1>4, FS_Subset, FS_CardinalityType
<1>6. Len(Bounded(q, f)) - Len(Bounded(q, f)) + Cardinality(owed \ {sequence}) <= Greetings
  BY <1>2, <1>5
<1> QED
  BY <1>2, <1>6 DEF Holds

\* A step that does not begin the wait and leaves alone what it is about.
LEMMA KeptQuiet ==
  ASSUME Kept, Waiting' => Waiting, UNCHANGED <<pairingReplies, decision, sequence, owed>>
  PROVE  Kept'
<1> SUFFICES ASSUME Waiting'
             PROVE  /\ sequence' \notin owed'
                    /\ Holds(pairingReplies', decision', sequence', Cardinality(owed'))
  BY DEF Kept
<1> QED
  BY DEF Kept

LEMMA KeptRespond ==
  ASSUME TypeOK, StageInv, Kept, NEW s \in 1 .. Greetings + 1,
         NEW a \in Answers \cup {<<"malformed", InitialVersion>>}, Respond(s, a[1], a[2])
  PROVE  Kept'
<1> DEFINE f == Frame(a[1], link, s, a[2])
<1>1. /\ f \in Frames /\ UNCHANGED <<pc, subs, sequence>>
      /\ s \in owed /\ owed' = owed \ {s}
  BY RespondFacts
<1>2. /\ \/ "response" \in subs /\ Notify(f)
         \/ "response" \notin subs /\ UNCHANGED <<replies, pairingReplies>>
      /\ \/ decision' = decision /\ a[1] \notin Decisions
         \/ decision' = a[1] /\ a[1] \in Decisions /\ pc = "confirm" /\ s = sequence
  BY RespondFacts
<1>3. f.kind = a[1] /\ f.seq = s
  BY DEF Frame
<1>4. pairingReplies \in Queues
  BY DEF TypeOK
<1> HIDE DEF f
<1> SUFFICES ASSUME Waiting'
             PROVE  /\ sequence' \notin owed'
                    /\ Holds(pairingReplies', decision', sequence', Cardinality(owed'))
  BY DEF Kept
<1>5. pc = "confirm" /\ "response" \in subs /\ Notify(f)
  BY <1>1, <1>2 DEF Waiting
<1>6. CASE decision' = a[1] /\ a[1] \in Decisions /\ s = sequence
  <2>1. pairingReplies' = Bounded(pairingReplies, f)
    BY <1>3, <1>5, <1>6 DEF Notify, PairingKinds
  <2>2. Holds(Bounded(pairingReplies, f), f.kind, sequence, Cardinality(owed \ {sequence}))
    BY <1>1, <1>3, <1>4, <1>5, <1>6, DecisionQueued
  <2> QED
    BY <1>1, <1>3, <1>6, <2>1, <2>2
<1>7. CASE decision' = decision /\ a[1] \notin Decisions
  <2>1. /\ sequence \notin owed
        /\ Holds(pairingReplies, decision, sequence, Cardinality(owed))
    BY <1>1, <1>7 DEF Kept, Waiting
  <2>2. /\ Cardinality(owed) \in Nat /\ Cardinality(owed) >= 1
        /\ Cardinality(owed') = Cardinality(owed) - 1
    BY <1>1, OwedFacts
  <2>3. CASE pairingReplies' = Bounded(pairingReplies, f)
    <3>1. Holds(Bounded(pairingReplies, f), decision, sequence, Cardinality(owed) - 1)
      BY <1>1, <1>4, <2>1, <2>2, HoldsBounded
    <3> QED
      BY <1>1, <1>7, <2>1, <2>2, <2>3, <3>1
  <2>4. CASE pairingReplies' = pairingReplies
    <3>1. Holds(pairingReplies, decision, sequence, Cardinality(owed) - 1)
      <4>1. PICK i \in DOMAIN pairingReplies :
              /\ pairingReplies[i].kind = decision /\ pairingReplies[i].seq = sequence
              /\ Len(pairingReplies) - i + Cardinality(owed) <= Greetings
        BY <2>1 DEF Holds
      <4>2. Len(pairingReplies) \in Nat /\ i \in Nat /\ Greetings \in Nat
        BY <1>4, PairingAssumption DEF Queues
      <4>3. Len(pairingReplies) - i + (Cardinality(owed) - 1) <= Greetings
        BY <2>2, <4>1, <4>2
      <4> QED
        BY <4>1, <4>3 DEF Holds
    <3> QED
      BY <1>1, <1>7, <2>1, <2>2, <2>4, <3>1
  <2> QED
    BY <1>5, <2>3, <2>4 DEF Notify
<1> QED
  BY <1>2, <1>5, <1>6, <1>7

\* The loop takes frames from the queue until it takes the decision.
LEMMA KeptTake ==
  ASSUME TypeOK, StageInv, Kept, Take
  PROVE  Kept'
<1> SUFFICES ASSUME Waiting'
             PROVE  /\ sequence' \notin owed'
                    /\ Holds(pairingReplies', decision', sequence', Cardinality(owed'))
  BY DEF Kept
<1>1. pairingReplies \in Queues /\ replies \in Queues /\ Cardinality(owed) \in Nat
  BY OwedFacts DEF TypeOK
<1>2. UNCHANGED <<subs, sequence, owed, decision>> /\ pc \in Polling /\ pc' = "confirm"
  BY DEF Take, hubVars, Waiting
<1>3. ASSUME NEW f \in Frames, Deliver(f)
      PROVE  pc = "confirm" /\ f.kind \notin Decisions
  <2>1. pc = "confirm"
    BY <1>2, <1>3, DeliverFacts
  <2>2. ~End("failed")
    BY <1>2 DEF End
  <2> QED
    BY <1>2, <1>3, <2>1, <2>2 DEF Deliver, Decisions
<1>4. pc = "confirm"
  BY <1>1, <1>3, QueueFacts DEF Take
<1>5. /\ sequence \notin owed
      /\ Holds(pairingReplies, decision, sequence, Cardinality(owed))
  BY <1>2, <1>4 DEF Kept, Waiting
<1>6. pairingReplies # <<>>
  BY <1>5 DEF Holds
<1>7. Deliver(Head(pairingReplies)) /\ pairingReplies' = Tail(pairingReplies)
  BY <1>6 DEF Take
<1>8. Head(pairingReplies).kind # decision
  <2>1. decision \in Decisions
    BY <1>2 DEF TypeOK, Waiting
  <2> QED
    BY <1>1, <1>3, <1>6, <1>7, <2>1, QueueFacts
<1>9. Holds(Tail(pairingReplies), decision, sequence, Cardinality(owed))
  BY <1>1, <1>5, <1>6, <1>8, HoldsTail
<1> QED
  BY <1>2, <1>5, <1>7, <1>9

LEMMA KeptStep == TypeOK /\ StageInv /\ Kept /\ [Next]_vars => Kept'
<1> SUFFICES ASSUME TypeOK, StageInv, Kept, [Next]_vars PROVE Kept'
  OBVIOUS
<1>1. ASSUME NEW how, Finish(how)
      PROVE  Kept'
  BY <1>1 DEF Finish, End, Kept, Waiting
<1>2. ASSUME pc' # "confirm"
      PROVE  Kept'
  BY <1>2 DEF Kept, Waiting
<1>3. CASE Request
  <2>1. pc = "request" /\ decision' = decision
    BY <1>3 DEF Request, Write
  <2>2. decision' = "none"
    BY <2>1 DEF StageInv
  <2> QED
    BY <2>2 DEF Kept, Waiting
<1>4. CASE ReadEnds \/ StartRead \/ ReadFails
  <2>1. UNCHANGED <<pairingReplies, decision, sequence, owed, subs>>
    BY <1>4 DEF ReadEnds, StartRead, ReadFails, queueVars, hubVars, linkVars
  <2>2. pc' = "confirm" => pc = "confirm"
    <3>1. ASSUME ReadEnds, pc' = "confirm" PROVE pc = "confirm"
      <4>1. pc \in Polling
        BY <3>1 DEF ReadEnds, StageInv
      <4>2. \A v \in offered : v # NoFrame => v \in Frames
        BY DEF TypeOK
      <4>3. ASSUME NEW f \in Frames, Deliver(f) PROVE pc = "confirm"
        BY <3>1, <4>1, <4>3, DeliverFacts
      <4> QED
        BY <3>1, <4>2, <4>3 DEF ReadEnds
    <3> QED
      BY <1>4, <3>1 DEF StartRead, ReadFails
  <2> QED
    BY <2>1, <2>2, KeptQuiet DEF Waiting
<1>5. CASE HubStep
  <2>1. ASSUME NEW kind \in {"telemetry", "malformed"}, Telemetry(kind)
        PROVE  Kept'
    BY <2>1, TelemetryFacts, KeptQuiet DEF Waiting
  <2>2. CASE LinkLost
    BY <2>2, KeptQuiet DEF LinkLost, Waiting, queueVars, hubVars
  <2> QED
    BY <1>5, <2>1, <2>2, KeptRespond DEF HubStep
<1>6. CASE Cancel
  <2>1. CASE pc = "release"
    BY <1>6, <2>1, <1>2 DEF Cancel
  <2> QED
    BY <1>1, <1>6, <2>1 DEF Cancel
<1>7. CASE ConnectFails \/ SessionFails \/ WriteFails \/ ConfirmTimeout \/ Farewell
  BY <1>1, <1>7 DEF ConnectFails, SessionFails, WriteFails, ConfirmTimeout, Farewell
<1>8. CASE \/ Connected \/ Subscribe \/ SubscribeStatus \/ OpenSession \/ ServicesMissing
           \/ CacheCleared \/ Dropped \/ Reconnect \/ Greet \/ PostPair
           \/ GreetingTimeout \/ Released
  BY <1>2, <1>8 DEF Connected, Subscribe, SubscribeStatus, OpenSession, ServicesMissing, SetupStep,
       CacheCleared, Dropped, Reconnect, Greet, Write, PostPair, GreetingTimeout, NextGreeting,
       Released
<1>9. CASE UNCHANGED vars
  BY <1>9, KeptQuiet DEF vars, Waiting
<1> QED
  BY <1>3, <1>4, <1>5, <1>6, <1>7, <1>8, <1>9, KeptTake DEF Next, TaskStep

\* The user's decision, once notified, stays queued until it is taken.
THEOREM DecisionKeptTrue == Spec => []DecisionKept
<1>1. Init => TypeOK /\ StageInv /\ Kept
  BY InitStage DEF Init, Kept, Waiting
<1>2. TypeOK /\ StageInv /\ [Next]_vars => TypeOK' /\ StageInv'
  BY StepKeeps
<1>3. TypeOK /\ StageInv /\ Kept /\ [Next]_vars => Kept'
  BY KeptStep
<1>4. Kept => DecisionKept
  BY DEF Kept, Waiting, Holds, DecisionKept
<1> QED
  BY <1>1, <1>2, <1>3, <1>4, PTL DEF Spec

=============================================================================
