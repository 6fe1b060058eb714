-------------------------- MODULE CloudSessionProofs --------------------------
(***************************************************************************)
(* Proofs about CloudSession, for every set of sockets, every MaxSequence  *)
(* and every number of back-off delays.  SessionInv is the inductive       *)
(* strengthening: what each await of the run task may assume.              *)
(***************************************************************************)
EXTENDS CloudSession, SequenceTheorems, TLAPS

\* The socket and the requests still to send, await by await.
ProtocolInv ==
  /\ subscribed => conn # NoSocket /\ asked = 6
  /\ pc \in {"token", "wakeup", "connect"} =>
       conn = NoSocket /\ todo = SubscribeRequests
  /\ pc = "send" => /\ conn # NoSocket
                    /\ Len(todo) > 0
                    /\ ~subscribed => asked + Len(todo) = 6
  /\ pc \in {"start", "check", "sleep", "recv"} /\ conn # NoSocket => subscribed
  /\ pc \in {"check", "recv"} => conn # NoSocket
  /\ pc \in ClosePoints \cup {"done"} => conn = NoSocket

\* How many sockets and read windows a poll has behind it at each await.
EffortInv ==
  /\ connects \in 0..1 /\ windows \in 0..2
  /\ windows = 2 => prev # NoSocket /\ connects = 1
  /\ retried => prev # NoSocket
  /\ connects = 1 => conn = NoSocket \/ conn # prev
  /\ pc \in {"check", "rotate"} => connects = 0 /\ windows = 0
  /\ pc \in {"check", "rotate"} => prev # NoSocket
  /\ pc = "check" => conn = prev
  /\ pc \in {"recover", "token", "wakeup", "connect"} =>
       connects = 0 /\ windows <= 1 /\ (windows = 1 => retried)
  /\ pc = "recover" => retried
  /\ pc = "send" => /\ windows <= 1
                    /\ windows = 1 => retried
                    /\ connects = 0 => conn = prev /\ windows = 0
  /\ pc = "recv" => /\ windows >= 1
                    /\ connects = 0 => conn = prev /\ windows = 1
                    /\ windows = 2 => retried

\* The loop's own state, which survives from poll to poll.
LoopInv ==
  /\ OneWakeJob
  /\ closed <=> pc \in {"close", "done"}
  /\ pc \in {"start", "sleep"} /\ report = "error" => conn = NoSocket
  /\ recovering <=> delayIndex > 0

SessionInv ==
  /\ TypeOK
  /\ OneSocket
  /\ ProtocolInv
  /\ EffortInv
  /\ LoopInv

-----------------------------------------------------------------------------
LEMMA SubscribeFacts ==
  /\ SubscribeRequests \in Seq(Requests) /\ Len(SubscribeRequests) = 6
  /\ PollRequests \in Seq(Requests) /\ Len(PollRequests) = 2
BY DEF SubscribeRequests, PollRequests, Requests

LEMMA OlderType ==
  ASSUME NEW q \in Seq(0..Oldest)
  PROVE  Older(q) \in Seq(0..Oldest)
<1>1. \A i \in 1..Len(q) : q[i] \in 0..Oldest
  BY ElementOfSeq
<1>2. \A i \in 1..Len(q) :
        (IF q[i] < Oldest THEN q[i] + 1 ELSE Oldest) \in 0..Oldest
  BY <1>1 DEF Oldest
<1>3. Len(q) \in Nat
  BY LenProperties
<1> QED
  BY <1>2, <1>3, IsASeq DEF Older

LEMMA InitInv == Init => SessionInv
<1> SUFFICES ASSUME Init PROVE SessionInv
  OBVIOUS
<1> USE SocketsAssumption, SequenceAssumption, BackoffsAssumption DEF Init
<1>1. TypeOK
  <2>1. <<>> \in Seq(Requests) /\ <<>> \in Seq(0..Oldest)
    BY EmptySeq
  <2>2. TaskType
    BY <2>1 DEF TaskType, Points
  <2>3. SocketType
    BY DEF SocketType, SocketOrNone
  <2>4. LoopType
    BY DEF LoopType
  <2>6. FlagType
    BY DEF FlagType
  <2>5. HubType
    BY <2>1 DEF HubType, Oldest
  <2> QED
    BY <2>2, <2>3, <2>4, <2>5, <2>6 DEF TypeOK
<1>2. OneSocket /\ ProtocolInv /\ EffortInv /\ LoopInv
  BY DEF OneSocket, ProtocolInv, EffortInv, LoopInv, OneWakeJob, ClosePoints
<1> QED
  BY <1>1, <1>2 DEF SessionInv

LEMMA StepInv == SessionInv /\ [Next]_vars => SessionInv'
<1> SUFFICES ASSUME SessionInv, [Next]_vars PROVE SessionInv'
  OBVIOUS
<1> USE SocketsAssumption, SequenceAssumption, BackoffsAssumption, SubscribeFacts
<1> USE DEF SessionInv, TypeOK, ProtocolInv, EffortInv, LoopInv, ClosePoints,
       loopVars, jobVars, repVars, sockVars, reqVars, hubVars
<1>1. CASE BeginPoll
  <2> USE <1>1 DEF BeginPoll, StartSending
  <2>1. TaskType' /\ SocketType' /\ LoopType' /\ HubType'
    BY OlderType DEF TaskType, SocketType, LoopType, HubType, Points,
       Requesting, SocketOrNone, OneWakeJob
  <2>2. FlagType'
    BY DEF FlagType
  <2>3. OneSocket' /\ ProtocolInv' /\ EffortInv' /\ LoopInv'
    BY OlderType DEF TaskType, SocketType, LoopType, Requesting,
       SocketOrNone, OneSocket, OneWakeJob
  <2> QED
    BY <2>1, <2>2, <2>3
<1>2. CASE RotateSocket
  <2> USE <1>2 DEF RotateSocket, DropConnection
  <2>1. <<>> \in Seq(0..Oldest)
    BY EmptySeq
  <2>2. TaskType' /\ SocketType' /\ LoopType' /\ HubType'
    BY <2>1 DEF TaskType, SocketType, LoopType, HubType, Points,
       Requesting, SocketOrNone, OneWakeJob
  <2>3. FlagType'
    BY DEF FlagType
  <2>4. OneSocket' /\ ProtocolInv' /\ EffortInv' /\ LoopInv'
    BY <2>1 DEF TaskType, SocketType, LoopType, Requesting,
       SocketOrNone, OneSocket, OneWakeJob
  <2> QED
    BY <2>2, <2>3, <2>4
<1>3. CASE KeepSocket
  <2> USE <1>3 DEF KeepSocket, StartSending
  <2>1. TaskType' /\ SocketType' /\ LoopType' /\ HubType'
    BY DEF TaskType, SocketType, LoopType, HubType, Points,
       Requesting, SocketOrNone, OneWakeJob
  <2>2. FlagType'
    BY DEF FlagType
  <2>3. OneSocket'
    BY DEF OneSocket, SocketType, SocketOrNone
  <2>4. ProtocolInv' /\ EffortInv'
    <3>1. subscribed' /\ conn' # NoSocket /\ asked' = 6
      OBVIOUS
    <3>2. pc' = "send" /\ todo' = PollRequests
      BY <3>1
    <3>3. Len(todo') > 0
      BY ONLY <3>2, SubscribeFacts
    <3>4. ProtocolInv'
      BY ONLY <3>1, <3>2, <3>3 DEF ProtocolInv, ClosePoints
    <3>5. EffortInv'
      BY <3>2 DEF TaskType
    <3> QED
      BY <3>4, <3>5
  <2>5. LoopInv'
    BY DEF OneWakeJob
  <2> QED
    BY <2>1, <2>2, <2>3, <2>4, <2>5
<1>4. CASE ResumeRequest
  BY <1>4 DEF ResumeRequest, StartSending, TaskType, SocketType, LoopType, HubType, FlagType, Points,
     Requesting, SocketOrNone, OneSocket, OneWakeJob
<1>5. CASE TokenObtained
  <2> USE <1>5 DEF TokenObtained
  <2>1. TaskType' /\ SocketType' /\ LoopType' /\ HubType'
    BY DEF TaskType, SocketType, LoopType, HubType, Points,
       Requesting, SocketOrNone, OneWakeJob
  <2>2. FlagType'
    BY DEF FlagType
  <2>3. OneSocket' /\ ProtocolInv' /\ EffortInv' /\ LoopInv'
    BY DEF TaskType, SocketType, LoopType, Requesting,
       SocketOrNone, OneSocket, OneWakeJob
  <2> QED
    BY <2>1, <2>2, <2>3
<1>6. CASE TokenFails
  <2> USE <1>6 DEF TokenFails, Raise, Recoverable, DropConnection
  <2>1. <<>> \in Seq(0..Oldest)
    BY EmptySeq
  <2>2. TaskType' /\ SocketType' /\ LoopType' /\ HubType'
    BY <2>1 DEF TaskType, SocketType, LoopType, HubType, Points,
       Requesting, SocketOrNone, OneWakeJob
  <2>3. FlagType'
    BY DEF FlagType
  <2>4. OneSocket' /\ ProtocolInv' /\ EffortInv' /\ LoopInv'
    BY <2>1 DEF TaskType, SocketType, LoopType, Requesting,
       SocketOrNone, OneSocket, OneWakeJob
  <2> QED
    BY <2>2, <2>3, <2>4
<1>7. CASE WakeRejected
  <2> USE <1>7 DEF WakeRejected, DropConnection
  <2>1. <<>> \in Seq(0..Oldest)
    BY EmptySeq
  <2>2. TaskType' /\ SocketType' /\ LoopType' /\ HubType'
    BY <2>1 DEF TaskType, SocketType, LoopType, HubType, Points,
       Requesting, SocketOrNone, OneWakeJob
  <2>3. FlagType'
    BY DEF FlagType
  <2>4. OneSocket' /\ ProtocolInv' /\ EffortInv' /\ LoopInv'
    BY <2>1 DEF TaskType, SocketType, LoopType, Requesting,
       SocketOrNone, OneSocket, OneWakeJob
  <2> QED
    BY <2>2, <2>3, <2>4
<1>8. CASE SocketOpens
  <2> USE <1>8 DEF SocketOpens, FreshSockets
  <2>1. TaskType' /\ SocketType' /\ LoopType' /\ HubType'
    BY DEF TaskType, SocketType, LoopType, HubType, Points,
       Requesting, SocketOrNone, OneWakeJob
  <2>2. FlagType'
    BY DEF FlagType
  <2>3. OneSocket'
    BY DEF OneSocket, SocketType, SocketOrNone
  <2>4. ProtocolInv'
    <3>1. Len(todo) = 6 /\ conn' # NoSocket
      BY DEF SocketType
    <3> QED
      BY <3>1
  <2>5. EffortInv'
    BY DEF TaskType, SocketType
  <2>6. LoopInv'
    BY DEF OneWakeJob
  <2> QED
    BY <2>1, <2>2, <2>3, <2>4, <2>5, <2>6
<1>9. CASE SocketRefused
  <2> USE <1>9 DEF SocketRefused, Raise, Recoverable, DropConnection
  <2>1. <<>> \in Seq(0..Oldest)
    BY EmptySeq
  <2>2. TaskType' /\ SocketType' /\ LoopType' /\ HubType'
    BY <2>1 DEF TaskType, SocketType, LoopType, HubType, Points,
       Requesting, SocketOrNone, OneWakeJob
  <2>3. FlagType'
    BY DEF FlagType
  <2>4. OneSocket' /\ ProtocolInv' /\ EffortInv' /\ LoopInv'
    BY <2>1 DEF TaskType, SocketType, LoopType, Requesting,
       SocketOrNone, OneSocket, OneWakeJob
  <2> QED
    BY <2>2, <2>3, <2>4
<1>10. CASE WakeJobEnds
  <2> USE <1>10 DEF WakeJobEnds
  <2>1. TaskType' /\ SocketType' /\ LoopType' /\ HubType'
    BY DEF TaskType, SocketType, LoopType, HubType, Points,
       Requesting, SocketOrNone, OneWakeJob
  <2>2. FlagType'
    BY DEF FlagType
  <2>3. OneSocket' /\ ProtocolInv' /\ EffortInv' /\ LoopInv'
    BY DEF TaskType, SocketType, LoopType, Requesting,
       SocketOrNone, OneSocket, OneWakeJob
  <2> QED
    BY <2>1, <2>2, <2>3
<1>11. CASE SendRequest
  <2> USE <1>11 DEF SendRequest, NextSequence
  <2>1. /\ Tail(todo) \in Seq(Requests)
        /\ Len(Tail(todo)) = Len(todo) - 1 /\ Len(todo) \in Nat
    BY EmptySeq, HeadTailProperties, LenProperties DEF TaskType
  <2>2. Append(atHub, 0) \in Seq(0..Oldest)
    BY AppendProperties DEF HubType, Oldest
  <2>3. TaskType' /\ SocketType' /\ LoopType'
    <3>1. TaskType'
      BY <2>1 DEF TaskType, Points, Requesting
    <3>2. SocketType' /\ LoopType'
      BY DEF SocketType, LoopType
    <3> QED
      BY <3>1, <3>2
  <2>9. HubType'
    BY <2>1, <2>2 DEF HubType
  <2>4. FlagType'
    BY DEF FlagType
  <2>5. OneSocket'
    BY DEF OneSocket, SocketType, SocketOrNone
  <2>6. ProtocolInv' /\ EffortInv'
    <3>1. CASE Len(todo) = 1
      BY <2>1, <3>1 DEF TaskType, SocketType
    <3>2. CASE Len(todo) # 1
      BY <2>1, <3>2 DEF TaskType, SocketType
    <3> QED
      BY <3>1, <3>2
  <2>7. LoopInv'
    BY DEF OneWakeJob
  <2> QED
    BY <2>3, <2>4, <2>5, <2>6, <2>7, <2>9
<1>12. CASE SendFails
  <2> USE <1>12 DEF SendFails, Raise, Recoverable, DropConnection
  <2>1. <<>> \in Seq(0..Oldest)
    BY EmptySeq
  <2>2. TaskType' /\ SocketType' /\ LoopType' /\ HubType'
    BY <2>1 DEF TaskType, SocketType, LoopType, HubType, Points,
       Requesting, SocketOrNone, OneWakeJob
  <2>3. FlagType'
    BY DEF FlagType
  <2>4. OneSocket' /\ ProtocolInv' /\ EffortInv' /\ LoopInv'
    BY <2>1 DEF TaskType, SocketType, LoopType, Requesting,
       SocketOrNone, OneSocket, OneWakeJob
  <2> QED
    BY <2>2, <2>3, <2>4
<1>13. CASE StatusReceived
  <2> USE <1>13 DEF StatusReceived
  <2>1. Head(inbox) \in 0..Oldest /\ Tail(inbox) \in Seq(0..Oldest)
    BY HeadTailProperties DEF HubType
  <2>2. TaskType' /\ SocketType' /\ LoopType' /\ HubType'
    BY <2>1 DEF TaskType, SocketType, LoopType, HubType, Points,
       Requesting, SocketOrNone, OneWakeJob
  <2>3. FlagType'
    BY DEF FlagType
  <2>4. OneSocket' /\ ProtocolInv' /\ EffortInv' /\ LoopInv'
    BY <2>1 DEF TaskType, SocketType, LoopType, Requesting,
       SocketOrNone, OneSocket, OneWakeJob
  <2> QED
    BY <2>2, <2>3, <2>4
<1>14. CASE ReceiveFails
  <2> USE <1>14 DEF ReceiveFails, Raise, Recoverable, DropConnection
  <2>1. <<>> \in Seq(0..Oldest)
    BY EmptySeq
  <2>2. TaskType' /\ SocketType' /\ LoopType' /\ HubType'
    BY <2>1 DEF TaskType, SocketType, LoopType, HubType, Points,
       Requesting, SocketOrNone, OneWakeJob
  <2>3. FlagType'
    BY DEF FlagType
  <2>4. OneSocket' /\ ProtocolInv' /\ EffortInv' /\ LoopInv'
    BY <2>1 DEF TaskType, SocketType, LoopType, Requesting,
       SocketOrNone, OneSocket, OneWakeJob
  <2> QED
    BY <2>2, <2>3, <2>4
<1>15. CASE HubAnswers
  <2> USE <1>15 DEF HubAnswers
  <2>1. Head(atHub) \in 0..Oldest /\ Tail(atHub) \in Seq(0..Oldest)
    BY HeadTailProperties DEF HubType
  <2>2. Append(inbox, Head(atHub)) \in Seq(0..Oldest)
    BY <2>1, AppendProperties DEF HubType
  <2>3. TaskType' /\ SocketType' /\ LoopType'
    BY DEF TaskType, SocketType, LoopType, Points
  <2>9. HubType'
    BY <2>1, <2>2 DEF HubType
  <2>4. FlagType'
    BY DEF FlagType
  <2>5. OneSocket' /\ ProtocolInv' /\ EffortInv' /\ LoopInv'
    BY <2>1, <2>2 DEF TaskType, SocketType, LoopType, Requesting,
       SocketOrNone, OneSocket, OneWakeJob
  <2> QED
    BY <2>3, <2>4, <2>5, <2>9
<1>16. CASE RequestTimeout
  <2> USE <1>16 DEF RequestTimeout, DropConnection
  <2>1. <<>> \in Seq(0..Oldest)
    BY EmptySeq
  <2>2. TaskType' /\ SocketType' /\ LoopType' /\ HubType'
    BY <2>1 DEF TaskType, SocketType, LoopType, HubType, Points,
       Requesting, SocketOrNone, OneWakeJob
  <2>3. FlagType'
    BY DEF FlagType
  <2>4. OneSocket' /\ ProtocolInv' /\ EffortInv' /\ LoopInv'
    BY <2>1 DEF TaskType, SocketType, LoopType, Requesting,
       SocketOrNone, OneSocket, OneWakeJob
  <2> QED
    BY <2>2, <2>3, <2>4
<1>17. CASE ReportFailure
  BY <1>17 DEF ReportFailure, TaskType, SocketType, LoopType, HubType, FlagType, Points,
     Requesting, SocketOrNone, OneSocket, OneWakeJob
<1>18. CASE Woken
  BY <1>18 DEF Woken, TaskType, SocketType, LoopType, HubType, FlagType, Points,
     Requesting, SocketOrNone, OneSocket, OneWakeJob
<1>19. CASE DelayOver
  BY <1>19 DEF DelayOver, TaskType, SocketType, LoopType, HubType, FlagType, Points,
     Requesting, SocketOrNone, OneSocket, OneWakeJob
<1>20. CASE RequestWake
  BY <1>20 DEF RequestWake, TaskType, SocketType, LoopType, HubType, FlagType, Points,
     Requesting, SocketOrNone, OneSocket, OneWakeJob
<1>21. CASE CloseSettles
  BY <1>21 DEF CloseSettles, TaskType, SocketType, LoopType, HubType, FlagType, Points,
     Requesting, SocketOrNone, OneSocket, OneWakeJob
<1>22. CASE Cancel
  <2> USE <1>22 DEF Cancel, DropConnection
  <2>1. <<>> \in Seq(0..Oldest)
    BY EmptySeq
  <2>2. TaskType' /\ SocketType' /\ LoopType' /\ HubType'
    BY <2>1 DEF TaskType, SocketType, LoopType, HubType, Points,
       Requesting, SocketOrNone, OneWakeJob
  <2>3. FlagType'
    BY DEF FlagType
  <2>4. OneSocket' /\ ProtocolInv' /\ EffortInv' /\ LoopInv'
    BY <2>1 DEF TaskType, SocketType, LoopType, Requesting,
       SocketOrNone, OneSocket, OneWakeJob
  <2> QED
    BY <2>2, <2>3, <2>4
<1>23. CASE Finish
  BY <1>23 DEF Finish, TaskType, SocketType, LoopType, HubType, FlagType, Points,
     Requesting, SocketOrNone, OneSocket, OneWakeJob
<1>24. CASE UNCHANGED vars
  BY <1>24 DEF vars, TaskType, SocketType, LoopType, HubType, FlagType, OneSocket, OneWakeJob
<1> QED
  BY <1>1, <1>2, <1>3, <1>4, <1>5, <1>6, <1>7, <1>8, <1>9, <1>10, <1>11, <1>12, <1>13,
     <1>14, <1>15, <1>16, <1>17, <1>18, <1>19, <1>20, <1>21, <1>22, <1>23, <1>24
     DEF Next, Connecting, Exchange, Pause

-----------------------------------------------------------------------------
(* The theorems.                                                           *)

\* The strengthened invariant holds in every reachable state.
THEOREM SessionInvariant == Spec => []SessionInv
BY InitInv, StepInv, PTL DEF Spec

\* Every variable keeps its type; no sequence number is 0 or above
\* MaxSequence (_next_sequence).
THEOREM TypeCorrect == Spec => []TypeOK
BY SessionInvariant, PTL DEF SessionInv

\* No cancellation, timeout, rotation or recovery leaks a socket: the open
\* sockets are exactly the one in self._connection.
THEOREM SocketOwned == Spec => []OneSocket
BY SessionInvariant, PTL DEF SessionInv

\* A socket that survives a poll is fully subscribed (_async_subscribe).
THEOREM SubscribedWhole == Spec => []FullySubscribed
<1>1. SessionInv => FullySubscribed
  BY SubscribeFacts DEF SessionInv, ProtocolInv, FullySubscribed
<1> QED
  BY <1>1, SessionInvariant, PTL

\* Rotation and fast recovery never stack in one poll (async_request_status).
THEOREM PollBounded == Spec => []BoundedPoll
<1>1. SessionInv => BoundedPoll
  BY DEF SessionInv, EffortInv, BoundedPoll
<1> QED
  BY <1>1, SessionInvariant, PTL

\* The poll after a failed one starts without a socket (async_run's handler).
THEOREM FailureDrops == Spec => []FailureDropsSocket
<1>1. SessionInv => FailureDropsSocket
  BY DEF SessionInv, TypeOK, SocketType, SocketOrNone, LoopInv, OneSocket,
         FailureDropsSocket
<1> QED
  BY <1>1, SessionInvariant, PTL

\* At most one wake request runs in the executor (_async_wake_messaging).
THEOREM WakeShared == Spec => []OneWakeJob
BY SessionInvariant, PTL DEF SessionInv, LoopInv

\* The recovery clock runs exactly while polls are backing off.
THEOREM RecoveryTimed == Spec => []RecoveryClock
<1>1. SessionInv => RecoveryClock
  BY DEF SessionInv, LoopInv, RecoveryClock
<1> QED
  BY <1>1, SessionInvariant, PTL

\* An unloaded session holds no socket (async_close).
THEOREM UnloadedForGood == Spec => []ClosedForGood
<1>1. SessionInv => ClosedForGood
  BY DEF SessionInv, LoopInv, ProtocolInv, OneSocket, ClosedForGood, ClosePoints
<1> QED
  BY <1>1, SessionInvariant, PTL

\* Nothing is reported and no socket is opened once the session is closed.
THEOREM SilentOnceClosed == Spec => SilentAfterClose
<1> DEFINE Quiet == closed => /\ UNCHANGED <<closed, report, age, errorKind>>
                              /\ live' \subseteq live
<1>1. SessionInv /\ [Next]_vars => [Quiet]_vars
  <2> SUFFICES ASSUME SessionInv, Next, closed PROVE Quiet
    BY DEF SessionInv
  <2>1. pc \in {"close", "done"} /\ conn = NoSocket
    BY DEF SessionInv, LoopInv, ProtocolInv, ClosePoints
  <2>2. Finish \/ CloseSettles \/ HubAnswers \/ WakeJobEnds
    BY <2>1 DEF Next, BeginPoll, RotateSocket, KeepSocket, ResumeRequest,
         Connecting, TokenObtained, TokenFails, WakeRejected, SocketOpens,
         SocketRefused, Exchange, SendRequest, SendFails, StatusReceived,
         ReceiveFails, RequestTimeout, Requesting, ReportFailure, Pause, Woken,
         DelayOver, RequestWake, Cancel
  <2> QED
    BY <2>2 DEF Finish, CloseSettles, HubAnswers, WakeJobEnds, sockVars,
         loopVars, repVars
<1> QED
  BY <1>1, SessionInvariant, PTL DEF Spec, SilentAfterClose

\* The event stays set from async_wake until a poll that starts after it:
\* neither the pause that the poll in progress ends in, nor a failed poll, nor
\* a cancellation clears it.
WakeKept == wakeOwed => wake

\* A wake call is honoured: the pause that follows it is not slept through.
THEOREM WakeIsHonoured == Spec => WakeHonoured
<1>1. Init => WakeKept
  BY DEF Init, WakeKept
<1>2. WakeKept /\ [Next]_vars => WakeKept'
  <2> SUFFICES ASSUME WakeKept, [Next]_vars PROVE WakeKept'
    OBVIOUS
  <2>1. CASE BeginPoll
    BY <2>1 DEF BeginPoll, WakeKept
  <2>2. CASE RequestWake
    BY <2>2 DEF RequestWake, WakeKept
  <2>3. CASE Cancel
    BY <2>3 DEF Cancel, WakeKept
  <2>4. CASE RotateSocket \/ KeepSocket \/ ResumeRequest \/ RequestTimeout
    BY <2>4 DEF RotateSocket, KeepSocket, ResumeRequest, RequestTimeout,
         loopVars, WakeKept
  <2>5. CASE Connecting
    BY <2>5 DEF Connecting, TokenObtained, TokenFails, WakeRejected,
         SocketOpens, SocketRefused, Raise, loopVars, WakeKept
  <2>6. CASE Exchange
    BY <2>6 DEF Exchange, SendRequest, SendFails, StatusReceived,
         ReceiveFails, Raise, loopVars, WakeKept
  <2>7. CASE WakeJobEnds \/ HubAnswers \/ ReportFailure \/ Pause \/ CloseSettles \/ Finish
    BY <2>7 DEF WakeJobEnds, HubAnswers, ReportFailure, Pause, Woken,
         DelayOver, CloseSettles, Finish, loopVars, WakeKept
  <2>8. CASE UNCHANGED vars
    BY <2>8 DEF vars, loopVars, WakeKept
  <2> QED
    BY <2>1, <2>2, <2>3, <2>4, <2>5, <2>6, <2>7, <2>8 DEF Next
<1>3. WakeKept => (DelayOver => ~wakeOwed)
  BY DEF WakeKept, DelayOver
<1> QED
  BY <1>1, <1>2, <1>3, PTL DEF Spec, WakeHonoured

\* The safety half of the contract with the coordinator: one callback per
\* completed poll, and none after the stop.
THEOREM ContractKept == Spec => Contract!SafeSpec
<1>1. Init => Contract!Init
  BY DEF Init, Contract!Init, Phase
<1>2. SessionInv /\ [Next]_vars => [Contract!Next]_(Contract!contractVars)
  <2> SUFFICES ASSUME SessionInv, [Next]_vars
               PROVE  Contract!Next \/ UNCHANGED Contract!contractVars
    OBVIOUS
  <2> USE DEF SessionInv, LoopInv, Phase, Contract!contractVars,
          loopVars, repVars, Requesting
  <2>1. CASE BeginPoll
    BY <2>1 DEF BeginPoll, StartSending, Contract!Next, Contract!Begin
  <2>2. CASE StatusReceived
    BY <2>2 DEF StatusReceived, Contract!Next, Contract!Answer
  <2>3. CASE ReportFailure
    BY <2>3 DEF ReportFailure, Contract!Next, Contract!Answer
  <2>4. CASE Cancel
    BY <2>4 DEF Cancel, Contract!Next, Contract!Stop
  <2>5. CASE TokenFails \/ SocketRefused \/ SendFails \/ ReceiveFails
    BY <2>5 DEF TokenFails, SocketRefused, SendFails, ReceiveFails, Raise
  <2>6. CASE RotateSocket \/ KeepSocket \/ ResumeRequest
    BY <2>6 DEF RotateSocket, KeepSocket, ResumeRequest, StartSending
  <2>7. CASE TokenObtained \/ WakeRejected \/ SocketOpens \/ WakeJobEnds
    BY <2>7 DEF TokenObtained, WakeRejected, SocketOpens, WakeJobEnds
  <2>8. CASE SendRequest \/ HubAnswers \/ RequestTimeout
    BY <2>8 DEF SendRequest, HubAnswers, RequestTimeout
  <2>9. CASE Pause \/ RequestWake \/ CloseSettles \/ Finish
    BY <2>9 DEF Pause, Woken, DelayOver, RequestWake, CloseSettles, Finish
  <2>10. CASE UNCHANGED vars
    BY <2>10 DEF vars
  <2> QED
    BY <2>1, <2>2, <2>3, <2>4, <2>5, <2>6, <2>7, <2>8, <2>9, <2>10
       DEF Next, Connecting, Exchange
<1> QED
  BY <1>1, <1>2, SessionInvariant, PTL DEF Spec, Contract!SafeSpec

-----------------------------------------------------------------------------
(* Answers never pile up.  A request asks for at most one answer and they   *)
(* come in order; a subscription asks for two, a poll for one, and each     *)
(* takes one: what the next poll finds waiting is a single fresh answer.    *)

\* What a send loop can still have to send, and the 0x05 requests in it.
Sends == {SubscribeRequests, <<"05", "07", "0E", "05", "07">>, <<"07", "0E", "05", "07">>,
          <<"0E", "05", "07">>, <<"05", "07">>, <<"07">>, PollRequests, <<"05">>}
Owed(t) == IF Len(t) > 4 THEN 2 ELSE IF t = <<"07">> THEN 0 ELSE 1

\* Only the first answer to come can be that of the poll before.
InOrder ==
  /\ \A i \in 1..Len(inbox) : inbox[i] <= 1 /\ (i > 1 => inbox[i] = 0)
  /\ \A i \in 1..Len(atHub) : atHub[i] <= 1 /\ (i > 1 \/ Len(inbox) > 0 => atHub[i] = 0)

StaleInv ==
  /\ conn = NoSocket => Len(atHub) = 0 /\ Len(inbox) = 0
  /\ age <= 1 /\ InOrder /\ Len(atHub) + Len(inbox) <= 2
  /\ pc \in {"start", "sleep"} =>
       /\ Len(atHub) + Len(inbox) <= 1
       /\ \A i \in 1..Len(inbox) : inbox[i] = 0
       /\ \A i \in 1..Len(atHub) : atHub[i] = 0
  /\ pc = "check" => Len(atHub) + Len(inbox) <= 1
  /\ pc = "send" => todo \in Sends /\ Len(atHub) + Len(inbox) + Owed(todo) <= 2

LEMMA SendFacts ==
  /\ SubscribeRequests \in Sends /\ Owed(SubscribeRequests) = 2
  /\ PollRequests \in Sends /\ Owed(PollRequests) = 1
  /\ \A t \in Sends :
       /\ Owed(t) \in 0..2
       /\ Head(t) = "05" => Owed(t) >= 1
       /\ Len(t) # 1 => /\ Tail(t) \in Sends
                        /\ Owed(Tail(t)) = IF Head(t) = "05" THEN Owed(t) - 1 ELSE Owed(t)
<1>1. ASSUME NEW t \in Sends
      PROVE  /\ Owed(t) \in 0..2
             /\ Head(t) = "05" => Owed(t) >= 1
             /\ Len(t) # 1 => /\ Tail(t) \in Sends
                              /\ Owed(Tail(t)) = IF Head(t) = "05" THEN Owed(t) - 1 ELSE Owed(t)
  <2>1. CASE t = SubscribeRequests
    BY <2>1 DEF Sends, Owed, SubscribeRequests
  <2>2. CASE t = PollRequests
    BY <2>2 DEF Sends, Owed, PollRequests
  <2>3. CASE t = <<"05", "07", "0E", "05", "07">>
    BY <2>3 DEF Sends, Owed
  <2>4. CASE t = <<"07", "0E", "05", "07">>
    BY <2>4 DEF Sends, Owed
  <2>5. CASE t = <<"0E", "05", "07">>
    BY <2>5 DEF Sends, Owed
  <2>6. CASE t = <<"05", "07">>
    BY <2>6 DEF Sends, Owed
  <2>7. CASE t \in {<<"07">>, <<"05">>}
    BY <2>7 DEF Sends, Owed
  <2> QED
    BY <2>1, <2>2, <2>3, <2>4, <2>5, <2>6, <2>7 DEF Sends
<1>2. /\ SubscribeRequests \in Sends /\ Owed(SubscribeRequests) = 2
      /\ PollRequests \in Sends /\ Owed(PollRequests) = 1
  BY DEF Sends, Owed, SubscribeRequests, PollRequests
<1> QED
  BY <1>1, <1>2

LEMMA StaleStep == ASSUME SessionInv, StaleInv, [Next]_vars PROVE StaleInv'
<1>0. atHub \in Seq(0..Oldest) /\ inbox \in Seq(0..Oldest) /\ age \in 0..Oldest
  BY DEF SessionInv, TypeOK, HubType
<1>1. /\ Len(atHub) \in Nat /\ Len(inbox) \in Nat
      /\ \A i \in 1..Len(atHub) : atHub[i] \in 0..Oldest
      /\ \A i \in 1..Len(inbox) : inbox[i] \in 0..Oldest
  BY <1>0, LenProperties, ElementOfSeq
<1>2. CASE DropConnection /\ pc' \notin {"start", "sleep", "check", "send"} /\ UNCHANGED age
  <2>1. atHub' = <<>> /\ inbox' = <<>>
    BY <1>2 DEF DropConnection
  <2>2. Len(atHub') = 0 /\ Len(inbox') = 0
    BY <2>1
  <2> QED
    BY <1>2, <2>2 DEF StaleInv, InOrder
<1>3. CASE BeginPoll
  <2>1. /\ Len(atHub') = Len(atHub) /\ Len(inbox') = Len(inbox)
        /\ \A i \in 1..Len(atHub) : atHub'[i] = 1
        /\ \A i \in 1..Len(inbox) : inbox'[i] = 1
    BY <1>1, <1>3 DEF BeginPoll, Older, StaleInv, Oldest
  <2>2. UNCHANGED <<conn, age>> /\ pc' \in {"check", "token", "send"}
    BY <1>3 DEF BeginPoll, sockVars, StartSending
  <2>3. pc' # "send"
    BY <1>3 DEF BeginPoll, StartSending
  <2>4. InOrder'
    BY <1>1, <1>3, <2>1 DEF BeginPoll, StaleInv, InOrder
  <2> QED
    BY <1>3, <2>1, <2>2, <2>3, <2>4 DEF BeginPoll, StaleInv
<1>4. CASE KeepSocket \/ ResumeRequest
  <2>1. UNCHANGED <<conn, age, atHub, inbox>> /\ pc' \in {"token", "send"}
    BY <1>4 DEF KeepSocket, ResumeRequest, StartSending, sockVars, repVars, hubVars
  <2>2. pc' = "send" => todo' = PollRequests /\ Len(atHub) + Len(inbox) <= 1
    BY <1>4 DEF KeepSocket, ResumeRequest, StartSending, StaleInv, SessionInv, ProtocolInv,
       ClosePoints
  <2> QED
    BY <1>1, <2>1, <2>2, SendFacts DEF StaleInv, InOrder
<1>5. CASE SocketOpens
  <2>1. UNCHANGED <<age, atHub, inbox, todo>> /\ pc' = "send" /\ conn' # NoSocket
    BY <1>5, SocketsAssumption DEF SocketOpens, FreshSockets, repVars, hubVars
  <2>2. conn = NoSocket /\ todo = SubscribeRequests
    BY <1>5 DEF SocketOpens, SessionInv, ProtocolInv
  <2> QED
    BY <1>1, <2>1, <2>2, SendFacts DEF StaleInv, InOrder
<1>6. CASE SendRequest
  <2>1. /\ UNCHANGED <<age, inbox, conn>> /\ todo' = Tail(todo)
        /\ atHub' = IF Head(todo) = "05" THEN Append(atHub, 0) ELSE atHub
        /\ pc' = IF Len(todo) = 1 THEN "recv" ELSE "send"
        /\ pc = "send" /\ conn # NoSocket
    BY <1>6 DEF SendRequest, repVars, SessionInv, ProtocolInv
  <2>2. todo \in Sends /\ Len(atHub) + Len(inbox) + Owed(todo) <= 2
    BY <2>1 DEF StaleInv
  <2>3. /\ Len(atHub') = IF Head(todo) = "05" THEN Len(atHub) + 1 ELSE Len(atHub)
        /\ \A i \in 1..Len(atHub') : atHub'[i] = IF i <= Len(atHub) THEN atHub[i] ELSE 0
    BY <1>0, <1>1, <2>1, AppendProperties DEF Oldest
  <2>4. InOrder'
    BY <1>1, <2>1, <2>3 DEF StaleInv, InOrder
  <2>5. Len(atHub') + Len(inbox') <= 2
    BY <1>1, <2>1, <2>2, <2>3, SendFacts
  <2>6. pc' = "send" => todo' \in Sends /\ Len(atHub') + Len(inbox') + Owed(todo') <= 2
    BY <1>1, <2>1, <2>2, <2>3, SendFacts
  <2> QED
    BY <2>1, <2>4, <2>5, <2>6 DEF StaleInv
<1>7. CASE HubAnswers
  <2>1. /\ UNCHANGED <<pc, conn, age, todo>> /\ atHub # <<>> /\ atHub' = Tail(atHub)
        /\ inbox' = inbox \/ inbox' = Append(inbox, Head(atHub))
    BY <1>7 DEF HubAnswers, reqVars, sockVars, repVars
  <2>2. /\ Len(atHub) > 0 /\ Len(atHub') = Len(atHub) - 1
        /\ \A i \in 1..Len(atHub') : atHub'[i] = atHub[i + 1]
        /\ Head(atHub) = atHub[1]
    BY <1>0, <1>1, <2>1, HeadTailProperties, EmptySeq
  <2>3. CASE inbox' = inbox
    BY <1>1, <2>1, <2>2, <2>3, SendFacts DEF StaleInv, InOrder
  <2>4. CASE inbox' = Append(inbox, Head(atHub))
    <3>1. /\ Len(inbox') = Len(inbox) + 1
          /\ \A i \in 1..Len(inbox') : inbox'[i] = IF i <= Len(inbox) THEN inbox[i] ELSE atHub[1]
      BY <1>0, <1>1, <2>2, <2>4, AppendProperties DEF Oldest
    <3>2. InOrder'
      BY <1>1, <2>2, <3>1 DEF StaleInv, InOrder
    <3>3. Len(atHub') + Len(inbox') = Len(atHub) + Len(inbox)
      BY <1>1, <2>2, <3>1
    <3>4. pc \in {"start", "sleep"} => /\ \A i \in 1..Len(inbox') : inbox'[i] = 0
                                       /\ \A i \in 1..Len(atHub') : atHub'[i] = 0
      BY <1>1, <2>2, <3>1 DEF StaleInv
    <3>5. conn # NoSocket
      BY <1>1, <2>2 DEF StaleInv
    <3> QED
      BY <2>1, <3>2, <3>3, <3>4, <3>5 DEF StaleInv
  <2> QED
    BY <2>1, <2>3, <2>4
<1>8. CASE StatusReceived
  <2>1. /\ UNCHANGED <<conn, atHub>> /\ inbox # <<>> /\ inbox' = Tail(inbox)
        /\ age' = Head(inbox) /\ pc' = "sleep" /\ pc = "recv"
    BY <1>8 DEF StatusReceived, sockVars
  <2>2. /\ Len(inbox) > 0 /\ Len(inbox') = Len(inbox) - 1
        /\ \A i \in 1..Len(inbox') : inbox'[i] = inbox[i + 1]
        /\ Head(inbox) = inbox[1]
    BY <1>0, <1>1, <2>1, HeadTailProperties, EmptySeq
  <2>3. /\ \A i \in 1..Len(inbox') : inbox'[i] = 0
        /\ \A i \in 1..Len(atHub') : atHub'[i] = 0
    BY <1>1, <2>1, <2>2 DEF StaleInv, InOrder
  <2>4. conn' # NoSocket
    BY <2>1 DEF SessionInv, ProtocolInv
  <2> QED
    BY <1>1, <2>1, <2>2, <2>3, <2>4 DEF StaleInv, InOrder
<1>9. CASE UNCHANGED <<conn, atHub, inbox, age, todo>>
           /\ (pc' = pc \/ pc' \notin {"start", "sleep", "check", "send"})
  BY <1>9 DEF StaleInv, InOrder
<1>10. CASE ReportFailure
  <2>1. UNCHANGED <<conn, atHub, inbox, age>> /\ pc' = "sleep" /\ conn = NoSocket
    BY <1>10 DEF ReportFailure, sockVars, hubVars, SessionInv, ProtocolInv, ClosePoints
  <2> QED
    BY <2>1 DEF StaleInv, InOrder
<1>11. CASE Pause
  <2>1. UNCHANGED <<conn, atHub, inbox, age>> /\ pc' = "start" /\ pc = "sleep"
    BY <1>11 DEF Pause, Woken, DelayOver, sockVars, hubVars, repVars
  <2> QED
    BY <2>1 DEF StaleInv, InOrder
<1> DEFINE Dropped == DropConnection /\ pc' \notin {"start", "sleep", "check", "send"}
                      /\ UNCHANGED age
           Kept == UNCHANGED <<conn, atHub, inbox, age, todo>>
                   /\ (pc' = pc \/ pc' \notin {"start", "sleep", "check", "send"})
<1>12. TokenFails \/ SocketRefused \/ SendFails \/ ReceiveFails => Dropped
  BY DEF TokenFails, SocketRefused, SendFails, ReceiveFails, Raise, repVars
<1>13. RotateSocket \/ WakeRejected \/ RequestTimeout \/ Cancel => Dropped
  BY DEF RotateSocket, WakeRejected, RequestTimeout, Cancel, repVars
<1>14. TokenObtained \/ WakeJobEnds \/ RequestWake \/ CloseSettles \/ Finish => Kept
  BY DEF TokenObtained, WakeJobEnds, RequestWake, CloseSettles, Finish, sockVars, reqVars,
     repVars, hubVars
<1>15. UNCHANGED vars => Kept
  BY DEF vars, sockVars, reqVars, repVars, hubVars
<1> QED
  BY <1>2, <1>3, <1>4, <1>5, <1>6, <1>7, <1>8, <1>9, <1>10, <1>11, <1>12, <1>13, <1>14, <1>15
     DEF Next, Connecting, Exchange

\* However long the session and whatever the hub answers or leaves out, a
\* published status answers this poll or the one before it.
THEOREM AnswersDoNotPileUp == Spec => []StaleByAtMostOne
<1>1. Init => StaleInv
  BY DEF Init, StaleInv, InOrder
<1>2. StaleInv => StaleByAtMostOne
  BY DEF StaleInv, StaleByAtMostOne
<1> QED
  BY <1>1, <1>2, StaleStep, SessionInvariant, PTL DEF Spec

=============================================================================
