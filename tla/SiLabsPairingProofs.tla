------------------------- MODULE SiLabsPairingProofs -------------------------
(***************************************************************************)
(* Proofs about SiLabsPairing for any queue, any number of responses and   *)
(* any versions.  Which frames count depends on what was sent before, so   *)
(* the strengthening says of every frame under way what the appliance did  *)
(* to send it.                                                             *)
(***************************************************************************)
EXTENDS SiLabsPairing, TLAPS

\* What a stage has reached by the time it waits.
StageInv ==
  /\ pc \in {"connect", "open"} => state = "new" /\ requestSeq = 0
  /\ pc \in {"ask", "confirmation"} => state = "awaiting" /\ requestSeq > 0 /\ mode = "pair"
  /\ pc \in {"greet", "handshake"} => state = "handshaking"
  /\ pc \in {"fetch", "capabilities"} => state = "active"
  /\ cipher <=> pc \in {"greet", "handshake", "fetch", "capabilities"}
  /\ outcome = "none" <=> pc \notin {"release", "done"}
  /\ open <=> pc \notin {"connect", "release", "done"}
  /\ pc \in Waits => count < MaxResponses
  /\ offered # {} => pc \in Waits

-----------------------------------------------------------------------------
LEMMA InitStage == Init => TypeOK /\ StageInv
<1> SUFFICES ASSUME Init PROVE TypeOK /\ StageInv
  OBVIOUS
<1>1. queue \in Seq(Frames) /\ Len(queue) <= MaxQueue
  BY ExchangeAssumption DEF Init
<1>2. /\ version \in MinVersion .. MaxVersion /\ requestSeq \in 0 .. 2
      /\ count \in 0 .. MaxResponses /\ sent \in 0 .. MaxSent
  BY ExchangeAssumption DEF Init
<1>3. TypeOK
  BY <1>1, <1>2 DEF Init, TypeOK, Waits
<1>4. StageInv
  BY DEF Init, StageInv, Waits
<1> QED
  BY <1>3, <1>4

\* The end of an exchange, however it comes about.
LEMMA ReleaseFacts ==
  ASSUME TypeOK, StageInv, NEW how \in {"paired", "failed", "replayed", "cancelled"},
         NEW reached \in {"new", "awaiting", "handshaking", "active", "rejected", "timedOut",
                          "cancelled"},
         Release(how, reached)
  PROVE  /\ pc' \in {"release", "done"} /\ outcome' = how /\ ~cipher' /\ offered' = {}
         /\ ~open' /\ cipher' \in BOOLEAN
         /\ state' \in {"active", "rejected", "timedOut", "cancelled"}
         /\ state' = "active" => reached = "active"
BY DEF Release, TypeOK

\* What an accepted frame can lead to.
Effect ==
  \/ /\ outcome' \in {"failed", "replayed"} \/ (outcome' = "paired" /\ pc = "capabilities")
     /\ pc' \in {"release", "done"}
     /\ state' \in {"active", "rejected", "timedOut", "cancelled"}
     /\ cipher' = FALSE /\ open' = FALSE
     /\ UNCHANGED <<version, requestSeq>>
  \/ UNCHANGED <<pc, outcome, open, state, version, requestSeq, cipher>>
  \/ /\ pc = "confirmation" /\ pc' = "ask" /\ requestSeq = 1 /\ requestSeq' = 2
     /\ version' = version - 1 /\ version' >= MinVersion
     /\ UNCHANGED <<outcome, open, state, cipher>>
  \/ /\ pc = "confirmation" /\ pc' = "greet" /\ state' = "handshaking" /\ cipher' = TRUE
     /\ Supported(version') /\ version' \in Nat
     /\ UNCHANGED <<outcome, open, requestSeq>>
  \/ /\ pc = "handshake" /\ pc' = "fetch" /\ state' = "active" /\ cipher' = cipher
     /\ Supported(version') /\ version' \in Nat
     /\ UNCHANGED <<outcome, open, requestSeq>>

LEMMA AcceptFacts ==
  ASSUME TypeOK, StageInv, pc \in Waits, NEW f \in Frames, Accept(f)
  PROVE  /\ Effect /\ offered' = {}
         /\ seen' \in {seen, seen \cup {f.seq}}
         /\ count' \in {count, count + 1} /\ (pc' \in Waits => count' < MaxResponses)
         /\ count' <= MaxResponses
<1>0. /\ version \in Nat /\ requestSeq \in 0 .. 2 /\ count \in Nat /\ count < MaxResponses
      /\ MinVersion \in Nat /\ MaxResponses \in Nat
      /\ pc = "confirmation" => requestSeq > 0
  BY ExchangeAssumption DEF TypeOK, StageInv
<1>9. f.version \in Nat
  BY ExchangeAssumption DEF Frames
<1> USE <1>0, <1>9 DEF Waits
<1>1. ASSUME NEW reached, Fail(reached)
      PROVE  /\ Effect /\ offered' = {} /\ UNCHANGED <<seen, count>> /\ pc' \notin Waits
  BY <1>1 DEF Fail, Release, Effect
<1>2. ASSUME NEW s, Unrelated(s)
      PROVE  /\ Effect /\ offered' = {} /\ seen' = s
             /\ count' = count + 1 /\ (pc' \in Waits => count' < MaxResponses)
             /\ count' <= MaxResponses
  BY <1>2 DEF Unrelated, Release, Effect
<1>3. CASE f.kind = "malformed" /\ Fail(state)
  BY <1>1, <1>3
<1>4. CASE pc = "confirmation" /\ OnConfirmation(f)
  <2>1. CASE Lower
    <3>1. CASE Fail(state)
      BY <1>1, <3>1
    <3>2. CASE ~(requestSeq > 1 \/ version <= MinVersion)
      <4>1. /\ pc' = "ask" /\ offered' = {} /\ UNCHANGED <<outcome, open, count>>
            /\ version' = version - 1 /\ requestSeq' = requestSeq + 1
            /\ UNCHANGED <<state, cipher, seen>>
        BY <2>1, <3>2 DEF Lower, Proceed
      <4>2. Effect
        BY <4>1, <1>4, <3>2 DEF Effect
      <4> QED
        BY <4>1, <4>2
    <3> QED
      BY <2>1, <3>1, <3>2 DEF Lower
  <2>2. CASE Decide(f)
    <3>1. CASE ~(f.kind = "confirmed" /\ Supported(f.version))
      BY <1>1, <2>2, <3>1 DEF Decide
    <3>2. CASE f.kind = "confirmed" /\ Supported(f.version)
      <4>1. /\ pc' = "greet" /\ offered' = {} /\ UNCHANGED <<outcome, open, count>>
            /\ state' = "handshaking" /\ cipher' = TRUE /\ version' = f.version
            /\ UNCHANGED <<requestSeq, seen>>
        BY <2>2, <3>2 DEF Decide, Proceed
      <4>2. Effect
        BY <4>1, <1>4, <3>2 DEF Effect
      <4> QED
        BY <4>1, <4>2
    <3> QED
      BY <3>1, <3>2
  <2>3. CASE Unrelated(seen)
    BY <1>2, <2>3
  <2> QED
    BY <1>4, <2>1, <2>2, <2>3 DEF OnConfirmation
<1>5. ASSUME Refuse(f)
      PROVE  /\ Effect /\ offered' = {} /\ UNCHANGED <<seen, count>> /\ pc' \notin Waits
  BY <1>5 DEF Refuse, Release, Effect
<1>6. CASE Unrelated(seen) \/ Unrelated(seen \cup {f.seq}) \/ Refuse(f) \/ Fail(state)
  BY <1>1, <1>2, <1>5, <1>6
<1>7. CASE pc = "handshake" /\ OnHandshake(f)
  <2>1. CASE /\ Proceed("fetch") /\ Supported(f.version)
             /\ state' = "active" /\ version' = f.version /\ seen' = seen \cup {f.seq}
             /\ UNCHANGED <<requestSeq, cipher>>
    <3>1. Effect
      BY <1>7, <2>1 DEF Proceed, Effect
    <3> QED
      BY <2>1, <3>1 DEF Proceed
  <2> QED
    BY <1>6, <1>7, <2>1 DEF OnHandshake
<1>8. CASE pc = "capabilities" /\ OnCapabilities(f)
  <2>1. CASE /\ Release("paired", state)
             /\ seen' = seen \cup {f.seq} /\ UNCHANGED <<version, requestSeq, count>>
    <3>1. Effect
      BY <1>8, <2>1 DEF Release, Effect
    <3> QED
      BY <2>1, <3>1 DEF Release
  <2> QED
    BY <1>6, <1>8, <2>1 DEF OnCapabilities
<1> QED
  BY <1>3, <1>4, <1>7, <1>8 DEF Accept

-----------------------------------------------------------------------------
(* The steps, told apart by what they can disturb.                         *)

Seals == {"plain", "ours", "foreign"}

\* The appliance sends some frame.
HubSends ==
  \E kind \in FrameKinds, seq \in 0 .. MaxSeq, seal \in Seals,
     v \in HubVersions \cup {MaxVersion} :
       Send(kind, seq, seal, v)

LEMMA HubStep == TypeOK /\ (Answer \/ Unasked) => HubSends
<1> USE DEF HubSends, FrameKinds, RequestKinds, Seals
<1>1. ASSUME TypeOK, Answer PROVE HubSends
  <2>1. PICK w \in written :
          \/ /\ w[1] = "ask"
             /\ \/ \E v \in HubVersions : Send("confirmed", w[2], "plain", v)
                \/ \E kind \in RequestKinds \ {"confirmed"} :
                     Send(kind, w[2], "plain", MaxVersion)
          \/ /\ w[1] = "greet" /\ HasKey
             /\ \E v \in HubVersions : Send("success", w[2], "ours", v)
          \/ /\ w[1] = "fetch" /\ HasKey
             /\ \E v \in HubVersions : Send("capabilities", w[2], "ours", v)
    BY <1>1 DEF Answer
  <2>2. w[2] \in 0 .. MaxSeq
    BY <1>1 DEF TypeOK
  <2> QED
    BY <2>1, <2>2
<1>2. ASSUME TypeOK, Unasked PROVE HubSends
  <2>1. 0 \in 0 .. MaxSeq
    BY DEF MaxSeq
  <2> QED
    BY <1>2, <2>1 DEF Unasked
<1> QED
  BY <1>1, <1>2

\* The task gets what was notified or read.
Hears(f) ==
  /\ pc \in Waits /\ f \in Frames \cup {NoFrame} /\ Received(f)
  /\ \/ offered = {} /\ queue # <<>> /\ f = Head(queue) /\ queue' = Tail(queue)
     \/ f \in offered /\ queue' = queue
  /\ UNCHANGED <<mode, canRead, subscribed, hubVars>>

LEMMA HearingSteps ==
  ASSUME TypeOK, StageInv, Take \/ ReadEnds
  PROVE  \E f : Hears(f)
<1>1. CASE Take
  <2>1. Head(queue) \in Frames
    BY <1>1 DEF Take, TypeOK
  <2> QED
    BY <1>1, <2>1 DEF Take, Hears
<1>2. CASE ReadEnds
  BY <1>2 DEF ReadEnds, Hears, TypeOK, StageInv
<1> QED
  BY <1>1, <1>2

\* The other steps of the task, and its cancellation.
Moves ==
  \/ Connected \/ Opened \/ StageFails \/ WriteRequest \/ WriteGreeting \/ WriteFetch
  \/ StartRead \/ Released \/ Cancel

LEMMA Steps ==
  ASSUME TypeOK, StageInv, [Next]_vars
  PROVE  HubSends \/ (\E f : Hears(f)) \/ Moves \/ UNCHANGED vars
BY HubStep, HearingSteps DEF Next, TaskStep, Moves

LEMMA SendStep == TypeOK /\ StageInv /\ HubSends => TypeOK' /\ StageInv'
<1> SUFFICES ASSUME TypeOK, StageInv,
                    NEW kind \in FrameKinds, NEW seq \in 0 .. MaxSeq, NEW seal \in Seals,
                    NEW v \in HubVersions \cup {MaxVersion}, Send(kind, seq, seal, v)
             PROVE  TypeOK' /\ StageInv'
  BY DEF HubSends
<1> DEFINE f == [n |-> sent + 1, kind |-> kind, seq |-> seq, seal |-> seal, version |-> v]
<1>1. f \in Frames /\ sent' \in 0 .. MaxSent
  BY ExchangeAssumption DEF Send, TypeOK, Frames, Seals
<1>2. queue' \in Seq(Frames) /\ Len(queue') <= MaxQueue
  <2>1. Bounded(queue, f) \in Seq(Frames) /\ Len(Bounded(queue, f)) <= MaxQueue
    <3> HIDE DEF f
    <3> QED
      BY <1>1, ExchangeAssumption DEF Bounded, TypeOK
  <2> QED
    BY <2>1 DEF Send, TypeOK
<1>3. value' \in Frames /\ offered' \subseteq Frames \cup {NoFrame}
      /\ (offered' # {} => offered # {})
  BY <1>1 DEF Send, TypeOK
<1>4. /\ agreedTo' \subseteq 0 .. MaxSeq /\ sealedSeqs' \subseteq 0 .. MaxSeq
      /\ repeats' \in BOOLEAN
  BY DEF Send, TypeOK
<1>5. UNCHANGED <<mode, pc, outcome, open, canRead, subscribed, lastRead, exchangeVars, written>>
  BY DEF Send
<1>6. TypeOK'
  BY <1>1, <1>2, <1>3, <1>4, <1>5 DEF TypeOK, exchangeVars
<1>7. StageInv'
  BY <1>3, <1>5 DEF StageInv, exchangeVars
<1> QED
  BY <1>6, <1>7

\* The stage ends, in failure or because the flow is closed.
LEMMA ReleaseStep ==
  ASSUME TypeOK, StageInv, pc # "done",
         NEW how \in {"failed", "cancelled"}, Release(how, state),
         UNCHANGED <<mode, canRead, subscribed, queue, lastRead, version, requestSeq, seen, count,
                     hubVars>>
  PROVE  TypeOK' /\ StageInv'
<1>1. /\ outcome' \in {"failed", "cancelled"} /\ offered' = {} /\ cipher' = FALSE /\ open' = FALSE
      /\ state' \in {"active", "rejected", "timedOut", "cancelled"} /\ pc' \in {"release", "done"}
  BY DEF Release
<1>2. TypeOK'
  BY <1>1 DEF TypeOK, hubVars
<1>3. StageInv'
  BY <1>1 DEF StageInv, Waits
<1> QED
  BY <1>2, <1>3

LEMMA MoveStep == TypeOK /\ StageInv /\ Moves => TypeOK' /\ StageInv'
<1> SUFFICES ASSUME TypeOK, StageInv, Moves PROVE TypeOK' /\ StageInv'
  OBVIOUS
<1> USE ExchangeAssumption
    DEF TypeOK, StageInv, Waits, Writes, channelVars, exchangeVars, hubVars
<1>1. CASE Connected
  BY <1>1 DEF Connected, ChannelStep
<1>2. CASE Opened
  <2>1. /\ pc = "open" /\ pc' \in {"ask", "greet"} /\ canRead' \in BOOLEAN /\ subscribed' \in BOOLEAN
        /\ UNCHANGED <<mode, outcome, open, queue, lastRead, offered, seen, count,
                       written, value, sent, agreedTo, sealedSeqs, repeats>>
    BY <1>2 DEF Opened, ChannelStep
  <2>2. \/ /\ mode = "pair" /\ pc' = "ask" /\ state' = "awaiting" /\ requestSeq' = 1
           /\ UNCHANGED <<version, cipher>>
        \/ /\ pc' = "greet" /\ state' = "handshaking" /\ cipher' = TRUE
           /\ version' \in MinVersion .. MaxVersion /\ UNCHANGED requestSeq
    BY <1>2 DEF Opened, ChannelStep
  <2>3. /\ version' \in MinVersion .. MaxVersion /\ requestSeq' \in 0 .. 2
        /\ cipher' \in BOOLEAN /\ state' \in {"awaiting", "handshaking"}
    <3>1. version' \in MinVersion .. MaxVersion /\ cipher' \in BOOLEAN
      BY <2>2
    <3>2. requestSeq' \in 0 .. 2 /\ state' \in {"awaiting", "handshaking"}
      BY <2>2
    <3> QED
      BY <3>1, <3>2
  <2>4. TypeOK'
    BY <2>1, <2>3
  <2>5. StageInv'
    BY <2>1, <2>2
  <2> QED
    BY <2>4, <2>5
<1>3. CASE StageFails
  BY <1>3, ReleaseStep DEF StageFails, Fail
<1>4. CASE WriteRequest
  BY <1>4 DEF WriteRequest, Write, MaxSeq
<1>5. CASE WriteGreeting
  BY <1>5 DEF WriteGreeting, Write, GreetSeq, MaxSeq
<1>6. CASE WriteFetch
  BY <1>6 DEF WriteFetch, Write, FetchSeq, MaxSeq
<1>7. CASE StartRead
  BY <1>7 DEF StartRead
<1>8. CASE Released
  BY <1>8 DEF Released
<1>9. CASE Cancel
  <2>1. CASE pc = "release"
    <3>1. /\ pc' = "done" /\ outcome' = "cancelled"
          /\ UNCHANGED <<mode, open, canRead, subscribed, queue, lastRead, offered, state, version,
                         requestSeq, cipher, seen, count, written, value, sent, agreedTo,
                         sealedSeqs, repeats>>
      BY <1>9, <2>1 DEF Cancel
    <3>2. TypeOK'
      BY <3>1
    <3>3. StageInv'
      BY <2>1, <3>1
    <3> QED
      BY <3>2, <3>3
  <2>2. CASE pc # "release"
    BY <1>9, <2>2, ReleaseStep DEF Cancel
  <2> QED
    BY <2>1, <2>2
<1> QED
  BY <1>1, <1>2, <1>3, <1>4, <1>5, <1>6, <1>7, <1>8, <1>9 DEF Moves

LEMMA HearStep == ASSUME TypeOK, StageInv, NEW f, Hears(f) PROVE TypeOK' /\ StageInv'
<1>1. /\ queue' \in Seq(Frames) /\ Len(queue') <= MaxQueue
      /\ UNCHANGED <<mode, canRead, subscribed, written, value, sent, agreedTo, sealedSeqs, repeats>>
  <2>1. queue \in Seq(Frames) /\ Len(queue) <= MaxQueue
    BY DEF TypeOK
  <2>2. \/ queue # <<>> /\ queue' = Tail(queue)
        \/ queue' = queue
    BY DEF Hears
  <2>3. queue # <<>> => Tail(queue) \in Seq(Frames) /\ Len(Tail(queue)) = Len(queue) - 1
    BY <2>1
  <2>4. queue' \in Seq(Frames) /\ Len(queue') <= MaxQueue
    BY ExchangeAssumption, <2>1, <2>2, <2>3
  <2>5. UNCHANGED <<mode, canRead, subscribed, written, value, sent, agreedTo, sealedSeqs, repeats>>
    BY DEF Hears, hubVars
  <2> QED
    BY <2>4, <2>5
<1>4. /\ pc \in {"confirmation", "handshake", "capabilities"}
      /\ outcome \in {"none", "paired", "failed", "replayed", "cancelled"}
      /\ open \in BOOLEAN /\ requestSeq \in 0 .. 2 /\ cipher \in BOOLEAN
      /\ state \in {"new", "awaiting", "handshaking", "active", "rejected", "timedOut",
                   "cancelled"}
      /\ version \in MinVersion .. MaxVersion
  BY DEF Hears, TypeOK, Waits
<1> USE DEF Waits, Writes
<1>2. CASE f \in {NoFrame, lastRead}
  <2>1. offered' = {} /\ UNCHANGED <<pc, outcome, open, exchangeVars, lastRead>>
    BY <1>2 DEF Hears, Received
  <2> QED
    BY <1>1, <2>1 DEF TypeOK, StageInv, exchangeVars
<1>3. CASE f \notin {NoFrame, lastRead}
  <2>1. f \in Frames /\ lastRead' = f /\ Accept(f) /\ pc \in Waits
    BY <1>3 DEF Hears, Received
  <2>2. /\ Effect /\ offered' = {}
        /\ seen' \in {seen, seen \cup {f.seq}}
        /\ count' \in {count, count + 1} /\ (pc' \in Waits => count' < MaxResponses)
        /\ count' <= MaxResponses
    BY <2>1, AcceptFacts
  <2>3. seen' \subseteq 0 .. MaxSeq /\ count' \in 0 .. MaxResponses
    BY <2>1, <2>2, ExchangeAssumption DEF TypeOK, Frames
  <2>4. /\ pc' \in Waits \cup Writes \cup {"connect", "open", "release", "done"}
        /\ outcome' \in {"none", "paired", "failed", "replayed", "cancelled"}
        /\ open' \in BOOLEAN
        /\ state' \in {"new", "awaiting", "handshaking", "active", "rejected", "timedOut",
                       "cancelled"}
        /\ requestSeq' \in 0 .. 2 /\ cipher' \in BOOLEAN
    <3>1. CASE UNCHANGED <<pc, outcome, open, state, version, requestSeq, cipher>>
      BY <1>4, <3>1
    <3>2. CASE pc' \in {"ask", "greet", "fetch"}
      <4>1. UNCHANGED <<outcome, open>> /\ requestSeq' \in {requestSeq, 2}
        BY <1>4, <2>2, <3>2 DEF Effect
      <4>2. cipher' \in BOOLEAN /\ state' \in {state, "handshaking", "active"}
        BY <1>4, <2>2, <3>2 DEF Effect
      <4> QED
        BY <1>4, <3>2, <4>1, <4>2
    <3>3. CASE /\ pc' \in {"release", "done"}
               /\ ~ UNCHANGED <<pc, outcome, open, state, version, requestSeq, cipher>>
      BY <1>4, <2>2, <3>3 DEF Effect
    <3> QED
      BY <2>2, <3>1, <3>2, <3>3 DEF Effect
  <2>5. version' \in MinVersion .. MaxVersion
    <3>1. version' = version \/ Supported(version') \/ (version' = version - 1 /\ version' >= MinVersion)
      BY <2>2 DEF Effect
    <3>2. version' \in Nat
      BY <1>4, <2>2, ExchangeAssumption DEF Effect
    <3> QED
      BY <1>4, <3>1, <3>2, ExchangeAssumption DEF Supported
  <2>6. TypeOK'
    BY <1>1, <2>1, <2>2, <2>3, <2>4, <2>5 DEF TypeOK
  <2>7. StageInv'
    BY <1>1, <2>1, <2>2 DEF Effect, TypeOK, StageInv, Waits
  <2> QED
    BY <2>6, <2>7
<1> QED
  BY <1>2, <1>3

LEMMA StageStep == TypeOK /\ StageInv /\ [Next]_vars => TypeOK' /\ StageInv'
<1> SUFFICES ASSUME TypeOK, StageInv, [Next]_vars PROVE TypeOK' /\ StageInv'
  OBVIOUS
<1>1. CASE UNCHANGED vars
  BY <1>1 DEF vars, TypeOK, StageInv
<1> QED
  BY <1>1, Steps, SendStep, MoveStep, HearStep

\* Every variable keeps its type: the lowered version stays supported, no
\* queue overflows and a wait hears a bounded number of frames.
THEOREM TypeCorrect == Spec => []TypeOK
<1>1. TypeOK /\ StageInv /\ [Next]_vars => (TypeOK /\ StageInv)'
  BY StageStep
<1>2. Spec => [](TypeOK /\ StageInv)
  BY InitStage, <1>1, PTL DEF Spec
<1> QED
  BY <1>2, PTL

-----------------------------------------------------------------------------
(* A confirmation under way is one the appliance gave.                     *)

Heard(f) == f.kind = "confirmed" => f.seq \in agreedTo

\* Every frame the exchange may still hear of.
UnderWay(f) == (\E i \in 1 .. Len(queue) : f = queue[i]) \/ f \in offered \/ f = value

AgreedInv == (\A f : UnderWay(f) => Heard(f)) /\ AgreedToLast

\* What settles a key.
LEMMA AcceptAgrees ==
  ASSUME StageInv, NEW f, pc \in Waits, Accept(f), state' \in {"handshaking", "active"}
  PROVE  /\ requestSeq' = requestSeq
         /\ \/ state \in {"handshaking", "active"}
            \/ f.kind = "confirmed" /\ f.seq = requestSeq
<1> USE DEF StageInv, Waits
<1>1. ASSUME NEW reached, Fail(reached), reached \in {state, "rejected", "timedOut"}
      PROVE  requestSeq' = requestSeq /\ state \in {"handshaking", "active"}
  BY <1>1 DEF Fail, Release
<1>2. ASSUME NEW s, Unrelated(s)
      PROVE  requestSeq' = requestSeq /\ state \in {"handshaking", "active"}
  BY <1>2 DEF Unrelated, Release
<1>3. CASE pc = "confirmation" /\ OnConfirmation(f)
  <2>1. CASE Lower
    BY <1>1, <1>3, <2>1 DEF Lower, Proceed
  <2>2. CASE Decide(f) /\ f.seq = requestSeq
    BY <1>1, <2>2 DEF Decide, Proceed
  <2> QED
    BY <1>2, <1>3, <2>1, <2>2 DEF OnConfirmation
<1>4. CASE pc = "handshake" /\ OnHandshake(f)
  BY <1>1, <1>2, <1>4 DEF OnHandshake, Refuse, Release, Proceed
<1>5. CASE pc = "capabilities" /\ OnCapabilities(f)
  BY <1>1, <1>2, <1>5 DEF OnCapabilities, Refuse, Release
<1> QED
  BY <1>1, <1>3, <1>4, <1>5 DEF Accept

\* Hearing adds nothing to what is under way, and empties what was offered.
LEMMA HearKeeps ==
  ASSUME TypeOK, StageInv, NEW f, Hears(f)
  PROVE  /\ UnderWay(f) /\ offered' = {} /\ value' = value
         /\ \A i \in 1 .. Len(queue') :
              \E j \in 1 .. Len(queue) : queue'[i] = queue[j]
                                         /\ (queue' = queue \/ (j = i + 1 /\ f = queue[1]))
         /\ \A g : UnderWay(g)' => UnderWay(g)
<1>1. UnderWay(f)
  BY DEF Hears, UnderWay, TypeOK
<1>2. offered' = {}
  <2>1. CASE f \in {NoFrame, lastRead}
    BY <2>1 DEF Hears, Received
  <2>2. CASE f \notin {NoFrame, lastRead}
    BY <2>2, AcceptFacts DEF Hears, Received
  <2> QED
    BY <2>1, <2>2
<1>3. ASSUME NEW i \in 1 .. Len(queue')
      PROVE  \E j \in 1 .. Len(queue) : queue'[i] = queue[j]
                                        /\ (queue' = queue \/ (j = i + 1 /\ f = queue[1]))
  <2>1. CASE queue' = queue
    BY <2>1
  <2>2. CASE queue # <<>> /\ queue' = Tail(queue) /\ f = Head(queue)
    <3>1. queue \in Seq(Frames)
      BY DEF TypeOK
    <3>2. i + 1 \in 1 .. Len(queue) /\ queue'[i] = queue[i + 1] /\ f = queue[1]
      BY <2>2, <3>1
    <3> QED
      BY <3>2
  <2> QED
    BY <2>1, <2>2 DEF Hears
<1>4. value' = value
  BY DEF Hears, hubVars
<1> QED
  BY <1>1, <1>2, <1>3, <1>4 DEF UnderWay

LEMMA HearAgrees == ASSUME TypeOK, StageInv, AgreedInv, NEW f, Hears(f) PROVE AgreedInv'
<1>1. Heard(f) /\ (\A g : UnderWay(g)' => UnderWay(g))
  BY HearKeeps DEF AgreedInv
<1>2. UNCHANGED <<mode, agreedTo>>
  BY DEF Hears, hubVars
<1>3. AgreedToLast'
  <2>1. CASE f \in {NoFrame, lastRead}
    BY <1>2, <2>1 DEF Hears, Received, exchangeVars, AgreedInv, AgreedToLast
  <2>2. CASE f \notin {NoFrame, lastRead}
    BY <1>1, <1>2, <2>2, AcceptAgrees DEF Hears, Received, Heard, AgreedInv, AgreedToLast
  <2> QED
    BY <2>1, <2>2
<1> QED
  BY <1>1, <1>2, <1>3 DEF AgreedInv, Heard

LEMMA AgreedStep == TypeOK /\ StageInv /\ AgreedInv /\ [Next]_vars => AgreedInv'
<1> SUFFICES ASSUME TypeOK, StageInv, AgreedInv, [Next]_vars PROVE AgreedInv'
  OBVIOUS
<1>1. CASE HubSends
  <2> PICK kind \in FrameKinds, seq \in 0 .. MaxSeq, seal \in Seals,
           v \in HubVersions \cup {MaxVersion} : Send(kind, seq, seal, v)
    BY <1>1 DEF HubSends
  <2> DEFINE f == [n |-> sent + 1, kind |-> kind, seq |-> seq, seal |-> seal, version |-> v]
  <2>1. ASSUME NEW g, UnderWay(g)' PROVE g = f \/ UnderWay(g)
    <3> HIDE DEF f
    <3>1. f \in Frames
      BY ExchangeAssumption DEF f, Send, TypeOK, Frames, Seals
    <3>2. value' = f /\ (queue' = queue \/ queue' = Bounded(queue, f))
          /\ offered' \subseteq offered \cup {f}
      BY DEF f, Send
    <3>3. queue \in Seq(Frames)
      BY DEF TypeOK
    <3>4. ASSUME NEW i \in 1 .. Len(Bounded(queue, f)), g = Bounded(queue, f)[i]
          PROVE  g = f \/ \E j \in 1 .. Len(queue) : g = queue[j]
      BY <3>1, <3>3, <3>4, ExchangeAssumption DEF Bounded
    <3> QED
      BY <2>1, <3>2, <3>4 DEF UnderWay
  <2>2. /\ f.kind = "confirmed" => f.seq \in agreedTo'
        /\ agreedTo \subseteq agreedTo' /\ UNCHANGED <<mode, exchangeVars>>
    BY DEF Send
  <2> QED
    BY <2>1, <2>2 DEF AgreedInv, Heard, AgreedToLast, exchangeVars
<1>2. ASSUME NEW f, Hears(f) PROVE AgreedInv'
  BY <1>2, HearAgrees
<1>3. CASE Moves
  <2>1. UNCHANGED <<mode, queue, value, agreedTo>> /\ offered' \subseteq offered \cup {value}
    BY <1>3 DEF Moves, Connected, Opened, ChannelStep, StageFails, Fail, Release, WriteRequest,
       WriteGreeting, WriteFetch, Write, StartRead, Released, Cancel, channelVars, hubVars
  <2>2. AgreedToLast'
    BY <1>3, <2>1 DEF Moves, Connected, Opened, ChannelStep, StageFails, Fail, Release,
       WriteRequest, WriteGreeting, WriteFetch, Write, StartRead, Released, Cancel, exchangeVars,
       AgreedInv, AgreedToLast, StageInv
  <2> QED
    BY <2>1, <2>2 DEF AgreedInv, Heard, UnderWay
<1>4. CASE UNCHANGED vars
  BY <1>4 DEF vars, AgreedInv, Heard, UnderWay, AgreedToLast
<1> QED
  BY <1>1, <1>2, <1>3, <1>4, Steps

\* A key agreed in a pairing comes with the confirmation of the request last
\* sent, for any number of versions and of frames.
THEOREM AgreedToLastTrue == Spec => []AgreedToLast
<1>1. Init => AgreedInv
  BY DEF Init, AgreedInv, AgreedToLast, Heard, UnderWay, NoFrame
<1>2. TypeOK /\ StageInv /\ AgreedInv /\ [Next]_vars => (TypeOK /\ StageInv /\ AgreedInv)'
  BY StageStep, AgreedStep
<1>3. AgreedInv => AgreedToLast
  BY DEF AgreedInv
<1> QED
  BY InitStage, <1>1, <1>2, <1>3, PTL DEF Spec

-----------------------------------------------------------------------------
(* One route delivers a frame once.                                        *)

Sealed(f) == f # NoFrame /\ f.seal = "ours"
Offer == offered \cup {value}

\* Frames are numbered as they are sent, a sequence that was heard was sent,
\* and a route that does not exist carries nothing.
SentInv ==
  /\ lastRead.n \in 0 .. sent /\ \A f : UnderWay(f) => f.n \in 0 .. sent
  /\ \A f : UnderWay(f) /\ Sealed(f) => f.seq \in sealedSeqs
  /\ seen \subseteq sealedSeqs
  /\ ~subscribed => queue = <<>>
  /\ ~canRead => offered = {}
  /\ pc \in {"connect", "open"} => queue = <<>> /\ value = NoFrame /\ seen = {}

\* Notified: what is still queued was not heard, nor is it there twice.
NotifiedInv ==
  /\ \A i \in 1 .. Len(queue) : Sealed(queue[i]) => queue[i].seq \notin seen
  /\ \A i, j \in 1 .. Len(queue) :
       i # j /\ Sealed(queue[i]) /\ Sealed(queue[j]) => queue[i].seq # queue[j].seq

\* Read: what can still be read was not heard, but for the last value.
ReadInv ==
  /\ \A f \in Offer : Sealed(f) => f = lastRead \/ f.seq \notin seen
  /\ \A f, g \in Offer : Sealed(f) /\ Sealed(g) /\ f # g => f.seq # g.seq
  /\ lastRead = value => offered \subseteq {value}

RouteInv ==
  /\ SentInv
  /\ ~repeats /\ ~canRead => NotifiedInv
  /\ ~repeats /\ ~subscribed => ReadInv
  /\ OneRouteOneDelivery

\* What makes a replay, and what is remembered.
LEMMA AcceptSeen ==
  ASSUME TypeOK, StageInv, NEW f \in Frames, pc \in Waits, Accept(f)
  PROVE  /\ outcome' = "replayed" => f.seal = "ours" /\ f.seq \in seen
         /\ seen' = seen \/ (f.seal = "ours" /\ seen' = seen \cup {f.seq})
<1> USE DEF StageInv, Waits
<1>1. ASSUME NEW reached, Fail(reached) PROVE outcome' # "replayed" /\ seen' = seen
  BY <1>1 DEF Fail, Release
<1>2. ASSUME NEW s, Unrelated(s) PROVE outcome' # "replayed" /\ seen' = s
  BY <1>2 DEF Unrelated, Release
<1>3. CASE pc = "confirmation" /\ OnConfirmation(f)
  <2>1. CASE Lower
    BY <1>1, <1>3, <2>1 DEF Lower, Proceed
  <2>2. CASE Decide(f)
    BY <1>1, <1>3, <2>2 DEF Decide, Proceed
  <2> QED
    BY <1>2, <1>3, <2>1, <2>2 DEF OnConfirmation
<1>4. ASSUME Refuse(f), f.seal # "plain", ~Authentic(f), cipher
      PROVE  (outcome' = "replayed" => f.seal = "ours" /\ f.seq \in seen) /\ seen' = seen
  BY <1>4 DEF Refuse, Release, Authentic
<1>5. CASE pc = "handshake" /\ OnHandshake(f)
  BY <1>1, <1>2, <1>4, <1>5 DEF OnHandshake, Proceed, Authentic
<1>6. CASE pc = "capabilities" /\ OnCapabilities(f)
  BY <1>1, <1>2, <1>4, <1>6 DEF OnCapabilities, Release, Authentic
<1> QED
  BY <1>1, <1>3, <1>5, <1>6 DEF Accept

LEMMA HearRoute == ASSUME TypeOK, StageInv, RouteInv, NEW f, Hears(f) PROVE RouteInv'
<1>1. /\ UNCHANGED <<mode, canRead, subscribed, sent, sealedSeqs, repeats, value>>
      /\ offered' = {} /\ pc \in Waits /\ f \in Frames \cup {NoFrame}
      /\ queue = <<>> => queue' = <<>>
      /\ UnderWay(f) /\ \A g : UnderWay(g)' => UnderWay(g)
  BY HearKeeps DEF Hears, hubVars
<1>2. outcome = "none" /\ queue \in Seq(Frames) /\ pc \notin {"connect", "open"}
  BY <1>1 DEF StageInv, TypeOK, Waits
<1>3. CASE f \in {NoFrame, lastRead}
  <2>1. UNCHANGED <<pc, outcome, seen, lastRead>>
    BY <1>3 DEF Hears, Received, exchangeVars
  <2>2. SentInv'
    BY <1>1, <1>2, <2>1 DEF RouteInv, SentInv, Offer, Sealed
  <2>3. NotifiedInv => NotifiedInv'
    <3>1. CASE queue' = queue
      BY <2>1, <3>1 DEF NotifiedInv, Sealed
    <3>2. CASE queue # <<>> /\ queue' = Tail(queue)
      <4>1. \A i \in 1 .. Len(queue') : i + 1 \in 1 .. Len(queue) /\ queue'[i] = queue[i + 1]
        BY <1>2, <3>2
      <4>2. ASSUME NotifiedInv PROVE NotifiedInv'
        BY <1>2, <2>1, <3>2, <4>1, <4>2 DEF NotifiedInv, Sealed
      <4> QED
        BY <4>2
    <3> QED
      BY <3>1, <3>2 DEF Hears
  <2>4. ReadInv => ReadInv'
    BY <1>1, <2>1 DEF ReadInv, Offer, Sealed
  <2> QED
    BY <1>1, <1>2, <2>1, <2>2, <2>3, <2>4 DEF RouteInv, OneRouteOneDelivery
<1>4. CASE f \notin {NoFrame, lastRead}
  <2>1. f \in Frames /\ lastRead' = f /\ Accept(f)
    BY <1>1, <1>4 DEF Hears, Received
  <2>2. /\ outcome' = "replayed" => Sealed(f) /\ f.seq \in seen
        /\ seen' = seen \/ (Sealed(f) /\ seen' = seen \cup {f.seq})
    BY <1>1, <1>4, <2>1, AcceptSeen DEF Sealed
  <2>3. pc' \notin {"connect", "open"}
    BY <1>1, <2>1, AcceptFacts DEF Effect, Waits
  <2>4. f.n \in 0 .. sent
    BY <1>1 DEF RouteInv, SentInv
  <2>5. SentInv'
    BY <1>1, <2>1, <2>2, <2>3, <2>4 DEF RouteInv, SentInv, Offer, Sealed
  <2>6. ASSUME ~repeats, ~canRead
        PROVE  NotifiedInv' /\ outcome' # "replayed"
    <3>1. NotifiedInv /\ queue # <<>> /\ f = queue[1] /\ queue' = Tail(queue)
      BY <1>2, <2>6 DEF RouteInv, SentInv, Hears
    <3>2. f.seq \notin seen \/ ~Sealed(f)
      BY <1>2, <3>1 DEF NotifiedInv
    <3>3. \A i \in 1 .. Len(queue') : i + 1 \in 1 .. Len(queue) /\ queue'[i] = queue[i + 1]
      BY <1>2, <3>1
    <3>4. NotifiedInv'
      BY <1>2, <2>2, <3>1, <3>3 DEF NotifiedInv, Sealed
    <3> QED
      BY <2>2, <3>2, <3>4
  <2>7. ASSUME ~repeats, ~subscribed
        PROVE  ReadInv' /\ outcome' # "replayed"
    <3>1. ReadInv /\ f \in offered
      BY <2>7 DEF RouteInv, SentInv, Hears
    <3>2. f.seq \notin seen \/ ~Sealed(f)
      BY <1>4, <3>1 DEF ReadInv, Offer
    <3>3. Sealed(value) => value = f \/ (value.seq \notin seen /\ (Sealed(f) => value.seq # f.seq))
      BY <1>4, <3>1 DEF ReadInv, Offer
    <3>4. ReadInv'
      BY <1>1, <2>1, <2>2, <3>3 DEF ReadInv, Offer, Sealed
    <3> QED
      BY <2>2, <3>2, <3>4
  <2> QED
    BY <1>1, <1>2, <2>5, <2>6, <2>7 DEF RouteInv, OneRouteOneDelivery
<1> QED
  BY <1>3, <1>4 DEF Hears

LEMMA SendRoute == TypeOK /\ StageInv /\ RouteInv /\ HubSends => RouteInv'
<1> SUFFICES ASSUME TypeOK, StageInv, RouteInv,
                    NEW kind \in FrameKinds, NEW seq \in 0 .. MaxSeq, NEW seal \in Seals,
                    NEW v \in HubVersions \cup {MaxVersion}, Send(kind, seq, seal, v)
             PROVE  RouteInv'
  BY DEF HubSends
<1> DEFINE f == [n |-> sent + 1, kind |-> kind, seq |-> seq, seal |-> seal, version |-> v]
<1>1. /\ f \in Frames /\ f # NoFrame /\ f.n = sent' /\ sent' = sent + 1 /\ sent \in Nat
      /\ f.seq = seq /\ f.seal = seal
  BY ExchangeAssumption DEF Send, TypeOK, Frames, Seals, NoFrame
<1>2. /\ value' = f /\ offered' \subseteq offered \cup {f}
      /\ offered = {} => offered' = {}
      /\ queue' = IF subscribed THEN Bounded(queue, f) ELSE queue
  BY DEF Send
<1>3. /\ UNCHANGED <<pc, outcome, canRead, subscribed, lastRead, seen>>
      /\ pc \notin {"connect", "open"}
      /\ sealedSeqs' = IF seal = "ours" THEN sealedSeqs \cup {seq} ELSE sealedSeqs
      /\ repeats' = (repeats \/ (seal = "ours" /\ seq \in sealedSeqs))
  BY DEF Send, exchangeVars
<1> HIDE DEF f
<1>4. queue \in Seq(Frames) /\ lastRead \in Frames \cup {NoFrame}
  BY DEF TypeOK
<1>5. ASSUME subscribed
      PROVE  \E d \in {0, 1} :
               /\ Len(queue') = Len(queue) - d + 1
               /\ \A i \in 1 .. Len(queue') :
                    queue'[i] = IF i = Len(queue') THEN f ELSE queue[i + d]
  <2>1. CASE Len(queue) = MaxQueue
    <3>1. /\ Len(queue') = Len(queue) - 1 + 1
          /\ \A i \in 1 .. Len(queue') : queue'[i] = IF i = Len(queue') THEN f ELSE queue[i + 1]
      BY <1>1, <1>2, <1>4, <1>5, <2>1, ExchangeAssumption DEF Bounded
    <3> QED
      BY <3>1
  <2>2. CASE Len(queue) # MaxQueue
    <3>1. /\ Len(queue') = Len(queue) - 0 + 1
          /\ \A i \in 1 .. Len(queue') : queue'[i] = IF i = Len(queue') THEN f ELSE queue[i + 0]
      BY <1>1, <1>2, <1>4, <1>5, <2>2 DEF Bounded
    <3> QED
      BY <3>1
  <2> QED
    BY <2>1, <2>2
<1>6. ASSUME NEW g, UnderWay(g)' PROVE g = f \/ UnderWay(g)
  <2>1. CASE subscribed
    BY <1>2, <1>4, <1>5, <1>6, <2>1 DEF UnderWay
  <2>2. CASE ~subscribed
    BY <1>2, <1>6, <2>2 DEF UnderWay
  <2> QED
    BY <2>1, <2>2
<1>7. SentInv'
  <2>1. lastRead'.n \in 0 .. sent' /\ \A g : UnderWay(g)' => g.n \in 0 .. sent'
    BY <1>1, <1>3, <1>6 DEF RouteInv, SentInv
  <2>2. \A g : UnderWay(g)' /\ Sealed(g)' => g.seq \in sealedSeqs'
    BY <1>1, <1>3, <1>6 DEF RouteInv, SentInv, Sealed
  <2> QED
    BY <1>2, <1>3, <2>1, <2>2 DEF RouteInv, SentInv
<1>8. \A g : UnderWay(g) /\ Sealed(g) => g.seq \in sealedSeqs
  BY DEF RouteInv, SentInv
<1>9. ~repeats' => ~repeats /\ (Sealed(f) => seq \notin sealedSeqs /\ seq \notin seen)
  BY <1>1, <1>3 DEF RouteInv, SentInv, Sealed
<1>10. ASSUME ~repeats', ~canRead PROVE NotifiedInv'
  <2>1. NotifiedInv
    BY <1>9, <1>10 DEF RouteInv
  <2>2. CASE subscribed
    <3>1. PICK d \in {0, 1} :
            /\ Len(queue') = Len(queue) - d + 1
            /\ \A i \in 1 .. Len(queue') :
                 queue'[i] = IF i = Len(queue') THEN f ELSE queue[i + d]
      BY <1>5, <2>2
    <3>2. ASSUME NEW i \in 1 .. Len(queue'), i # Len(queue')
          PROVE  /\ i + d \in 1 .. Len(queue) /\ queue'[i] = queue[i + d]
                 /\ Sealed(queue'[i]) => queue'[i].seq \in sealedSeqs /\ queue'[i].seq \notin seen
      <4>1. i + d \in 1 .. Len(queue) /\ queue'[i] = queue[i + d]
        BY <1>4, <3>1, <3>2
      <4> QED
        BY <1>8, <2>1, <4>1 DEF NotifiedInv, UnderWay
    <3>3. \A i \in 1 .. Len(queue') : Sealed(queue'[i]) => queue'[i].seq \notin seen
      BY <1>1, <1>9, <1>10, <3>1, <3>2
    <3>4. ASSUME NEW i \in 1 .. Len(queue'), NEW j \in 1 .. Len(queue'), i # j,
                 Sealed(queue'[i]), Sealed(queue'[j])
          PROVE  queue'[i].seq # queue'[j].seq
      <4>1. CASE i # Len(queue') /\ j # Len(queue')
        BY <2>1, <3>2, <3>4, <4>1 DEF NotifiedInv
      <4>2. CASE i = Len(queue') \/ j = Len(queue')
        BY <1>1, <1>9, <1>10, <3>1, <3>2, <3>4, <4>2
      <4> QED
        BY <4>1, <4>2
    <3> QED
      BY <1>3, <3>3, <3>4 DEF NotifiedInv, Sealed
  <2>3. CASE ~subscribed
    BY <1>2, <1>3, <2>1, <2>3 DEF NotifiedInv, Sealed
  <2> QED
    BY <2>2, <2>3
<1>11. ASSUME ~repeats', ~subscribed PROVE ReadInv'
  <2>1. ReadInv /\ Offer' \subseteq Offer \cup {f}
    BY <1>2, <1>9, <1>11 DEF RouteInv, Offer
  <2>2. \A g \in Offer : Sealed(g) => g.seq \in sealedSeqs
    BY <1>8 DEF Offer, UnderWay
  <2>3. lastRead # f
    BY <1>1 DEF RouteInv, SentInv
  <2> QED
    BY <1>1, <1>2, <1>3, <1>9, <1>11, <2>1, <2>2, <2>3 DEF ReadInv, Sealed
<1> QED
  BY <1>3, <1>7, <1>10, <1>11 DEF RouteInv, OneRouteOneDelivery

LEMMA RouteStep == TypeOK /\ StageInv /\ RouteInv /\ [Next]_vars => RouteInv'
<1> SUFFICES ASSUME TypeOK, StageInv, RouteInv, [Next]_vars PROVE RouteInv'
  OBVIOUS
<1>1. CASE HubSends
  BY <1>1, SendRoute
<1>2. ASSUME NEW f, Hears(f) PROVE RouteInv'
  BY <1>2, HearRoute
<1>3. CASE Opened
  <2>1. /\ UNCHANGED <<queue, lastRead, offered, value, sent, seen, sealedSeqs, repeats, outcome>>
        /\ pc = "open" /\ pc' \in {"ask", "greet"}
    BY <1>3 DEF Opened, ChannelStep, hubVars
  <2>2. queue = <<>> /\ value = NoFrame /\ seen = {} /\ offered = {} /\ outcome = "none"
    BY <2>1 DEF RouteInv, SentInv, StageInv, Waits
  <2>3. SentInv'
    BY <2>1, <2>2 DEF RouteInv, SentInv, Offer, UnderWay, Sealed
  <2>4. NotifiedInv' /\ ReadInv'
    BY <2>1, <2>2 DEF NotifiedInv, ReadInv, Offer, Sealed
  <2> QED
    BY <2>1, <2>2, <2>3, <2>4 DEF RouteInv, OneRouteOneDelivery
<1>4. CASE Moves /\ ~Opened
  <2>1. /\ UNCHANGED <<canRead, subscribed, queue, lastRead, value, sent, seen, sealedSeqs, repeats>>
        /\ offered' = offered \/ offered' = {} \/ (canRead /\ offered' = {value})
    <3> USE DEF channelVars, hubVars, exchangeVars, Fail, Release, Write
    <3>1. CASE Connected \/ Released
      BY <3>1 DEF Connected, ChannelStep, Released
    <3>2. CASE StageFails \/ Cancel
      BY <3>2 DEF StageFails, Cancel
    <3>3. CASE WriteRequest \/ WriteGreeting \/ WriteFetch
      BY <3>3 DEF WriteRequest, WriteGreeting, WriteFetch
    <3>4. CASE StartRead
      BY <3>4 DEF StartRead, exchangeVars
    <3> QED
      BY <1>4, <3>1, <3>2, <3>3, <3>4 DEF Moves
  <2>2. /\ outcome' # "replayed" \/ outcome' = outcome
        /\ pc' \in {"connect", "open"} => pc \in {"connect", "open"}
    BY <1>4 DEF Moves, Connected, ChannelStep, StageFails, Fail, Release, WriteRequest,
       WriteGreeting, WriteFetch, Write, StartRead, Released, Cancel
  <2>3. SentInv'
    BY <2>1, <2>2 DEF RouteInv, SentInv, Offer, UnderWay, Sealed
  <2>4. (NotifiedInv => NotifiedInv') /\ (ReadInv => ReadInv')
    BY <2>1 DEF NotifiedInv, ReadInv, Offer, Sealed
  <2> QED
    BY <2>1, <2>2, <2>3, <2>4 DEF RouteInv, OneRouteOneDelivery
<1>5. CASE UNCHANGED vars
  BY <1>5 DEF vars, RouteInv, SentInv, NotifiedInv, ReadInv, Offer, Sealed, UnderWay,
     OneRouteOneDelivery
<1> QED
  BY <1>1, <1>2, <1>3, <1>4, <1>5, Steps DEF Moves

\* Where only one of the two routes works, an exchange fails for a replay
\* only if the appliance did repeat: the code never takes a frame twice.
THEOREM OneRouteTrue == Spec => []OneRouteOneDelivery
<1>1. Init => RouteInv
  BY DEF Init, RouteInv, SentInv, NotifiedInv, ReadInv, Offer, Sealed, UnderWay, NoFrame,
     OneRouteOneDelivery
<1>2. TypeOK /\ StageInv /\ RouteInv /\ [Next]_vars => (TypeOK /\ StageInv /\ RouteInv)'
  BY StageStep, RouteStep
<1>3. RouteInv => OneRouteOneDelivery
  BY DEF RouteInv
<1> QED
  BY InitStage, <1>1, <1>2, <1>3, PTL DEF Spec

-----------------------------------------------------------------------------
\* Every step of the exchange is one of ExchangeContract, or none: at most
\* two requests, a session only after the agreement and the proof, a result
\* only then, and no key afterwards, however the exchange ends.
THEOREM ImplementsContract == Spec => ContractKept
<1>1. Init => Contract!ContractInit
  BY DEF Init, Contract!ContractInit, Phase
<1>2. TypeOK /\ StageInv /\ [Next]_vars => [Contract!ContractNext]_(Contract!contractVars)
  <2> SUFFICES ASSUME TypeOK, StageInv, [Next]_vars
               PROVE  Contract!ContractNext \/ UNCHANGED Contract!contractVars
    OBVIOUS
  <2> USE DEF Phase, Contract!contractVars, StageInv, exchangeVars, hubVars, channelVars
  <2>1. CASE HubSends
    BY <2>1 DEF HubSends, Send
  <2>2. ASSUME NEW f, Hears(f)
        PROVE  Contract!ContractNext \/ UNCHANGED Contract!contractVars
    <3>1. CASE f \in {NoFrame, lastRead}
      BY <2>2, <3>1 DEF Hears, Received
    <3>2. CASE f \notin {NoFrame, lastRead}
      <4>1. Effect /\ pc \in Waits
        BY <2>2, <3>2, AcceptFacts DEF Hears, Received
      <4>2. CASE outcome' = "paired" /\ pc = "capabilities" /\ cipher' = FALSE
                 /\ requestSeq' = requestSeq
        <5>1. Phase = "proved" /\ Phase' = "delivered"
          BY <4>2
        <5> QED
          BY <4>2, <5>1 DEF Contract!ContractNext, Contract!Return
      <4>3. CASE outcome' \in {"failed", "replayed"} /\ cipher' = FALSE /\ requestSeq' = requestSeq
        BY <4>1, <4>3 DEF Waits, Contract!ContractNext, Contract!GiveUp
      <4>4. CASE UNCHANGED <<pc, outcome, open, state, version, requestSeq, cipher>>
        BY <4>4
      <4>5. CASE /\ pc = "confirmation" /\ pc' = "ask" /\ requestSeq = 1 /\ requestSeq' = 2
                 /\ UNCHANGED <<outcome, open, state, cipher>>
        BY <4>5 DEF Contract!ContractNext, Contract!Ask
      <4>6. CASE /\ pc = "confirmation" /\ pc' = "greet" /\ state' = "handshaking" /\ cipher' = TRUE
                 /\ UNCHANGED <<outcome, open, requestSeq>>
        <5>1. Phase = "asking" /\ Phase' = "agreed" /\ requestSeq > 0
          BY <4>6
        <5> QED
          BY <4>6, <5>1 DEF Contract!ContractNext, Contract!Agree
      <4>7. CASE /\ pc = "handshake" /\ pc' = "fetch" /\ state' = "active" /\ cipher' = cipher
                 /\ UNCHANGED <<outcome, open, requestSeq>>
        BY <4>7 DEF Contract!ContractNext, Contract!Prove
      <4> QED
        BY <4>1, <4>2, <4>3, <4>4, <4>5, <4>6, <4>7 DEF Effect
    <3> QED
      BY <3>1, <3>2
  <2>3. CASE Opened
    BY <2>3 DEF Opened, ChannelStep, Contract!ContractNext, Contract!Ask, Contract!Restore
  <2>4. CASE StageFails
    BY <2>4 DEF StageFails, Fail, Release, Waits, Writes, Contract!ContractNext, Contract!GiveUp
  <2>5. CASE Cancel
    <3>1. CASE pc = "release" /\ UNCHANGED <<state, cipher, requestSeq>> /\ outcome' = "cancelled"
      BY <2>5, <3>1 DEF TypeOK, Contract!ContractNext, Contract!GiveUp
    <3>2. CASE outcome = "none" /\ outcome' = "cancelled" /\ cipher' = FALSE
               /\ requestSeq' = requestSeq
      BY <3>2, <2>5 DEF TypeOK, Cancel, Waits, Writes, Contract!ContractNext, Contract!GiveUp
    <3> QED
      BY <2>5, <3>1, <3>2 DEF Cancel, Release
  <2>6. CASE Connected \/ WriteRequest \/ WriteGreeting \/ WriteFetch \/ StartRead \/ Released
    BY <2>6 DEF Connected, ChannelStep, WriteRequest, WriteGreeting, WriteFetch, Write, StartRead,
       Released
  <2>7. CASE UNCHANGED vars
    BY <2>7 DEF vars
  <2> QED
    BY <2>1, <2>2, <2>3, <2>4, <2>5, <2>6, <2>7, Steps DEF Moves
<1> QED
  BY InitStage, StageStep, <1>1, <1>2, PTL DEF Spec, ContractKept, Contract!ContractSpec

=============================================================================
