----------------------------- MODULE CloudSession -----------------------------
(***************************************************************************)
(* The run loop of WeberCloudSession (weber_cloud_socket.py): one asyncio  *)
(* task that keeps at most one companion WebSocket to Weber's relay, polls *)
(* the hub through it and reports every poll to the coordinator.           *)
(*                                                                         *)
(* A value of pc names the await the task is suspended at.  Between two    *)
(* awaits the task is atomic; at an await it can meet the outcome of the   *)
(* call, the 30 s request timer, or the cancellation that unloads the      *)
(* entry.  Sockets are identities: a socket is taken again only when       *)
(* nothing refers to it any more, which stands for a fresh connection.     *)
(* The relay and the hub are external: they answer, stay silent or break   *)
(* the connection as they like.                                            *)
(***************************************************************************)
EXTENDS Integers, Sequences, FiniteSets

CONSTANTS Sockets,        \* identities of WebSocket connections
          NoSocket,       \* Python's None
          MaxSequence,    \* 0xFFFFFFFF in the code
          Backoffs        \* Len(RECONNECT_DELAYS)

ASSUME SocketsAssumption == NoSocket \notin Sockets /\ IsFiniteSet(Sockets)
ASSUME SequenceAssumption == MaxSequence \in Nat \ {0}
ASSUME BackoffsAssumption == Backoffs \in Nat \ {0}

VARIABLES
  pc,           \* the await the run task is suspended at
  conn,         \* self._connection
  live,         \* sockets opened and never closed by this session
  closing,      \* sockets whose close() has begun and not settled
  shut,         \* the socket whose close() the task is awaiting
  subscribed,   \* self._subscribed
  asked,        \* subscription requests sent on the current socket
  todo,         \* requests the current send loop still has to send
  sequence,     \* self._sequence
  prev,         \* previous_connection of async_request_status
  retried,      \* the request is past its one fast recovery
  fault,        \* the exception being handled
  connects,     \* sockets opened by the current poll
  windows,      \* read windows opened by the current poll
  closed,       \* self._closed
  wake,         \* self._wake.is_set()
  wakeOwed,     \* async_wake was called since the last poll began
  wakeFuture,   \* self._wake_future is not None
  wakeJobs,     \* wake requests running in the executor
  delayIndex,   \* delay_index, saturated at Backoffs
  errorKind,    \* self.error_kind
  recovering,   \* self._recovery_started_at is not None
  report,       \* the callback made by the current poll
  atHub,        \* ages of the 0x05 requests the hub has not answered
  inbox,        \* ages of the 0x80 answers waiting in the socket
  age           \* age of the answer published last

reqVars  == <<todo, prev, retried, fault, connects, windows>>
sockVars == <<conn, live, closing, shut, subscribed, asked, sequence>>
loopVars == <<closed, wake, wakeOwed>>
jobVars  == <<wakeFuture, wakeJobs>>
repVars  == <<delayIndex, errorKind, recovering, report, age>>
hubVars  == <<atHub, inbox>>
vars == <<pc, reqVars, sockVars, loopVars, jobVars, repVars, hubVars>>

SubscribeRequests == <<"0E", "05", "07", "0E", "05", "07">>
\* Mutant: every poll asks twice, as a subscription does.
PollRequestsTwice == <<"07", "05", "07", "05">>
PollRequests == <<"07", "05">>
Requests == {"05", "07", "0E"}      \* READ_ONLY_REQUEST_TYPES

\* The awaits inside async_request_status, under its request timer.
Requesting == {"check", "rotate", "token", "wakeup", "connect", "send",
               "recv", "recover"}
\* The awaits of connection.close(): real only while the close is pending.
ClosePoints == {"rotate", "recover", "fail", "close"}

Oldest == 2                         \* ages saturate here
Older(q) == [i \in 1..Len(q) |-> IF q[i] < Oldest THEN q[i] + 1 ELSE Oldest]

Init ==
  /\ pc = "start" /\ todo = <<>> /\ prev = NoSocket /\ retried = FALSE
  /\ fault = "none" /\ connects = 0 /\ windows = 0
  /\ conn = NoSocket /\ live = {} /\ closing = {} /\ shut = NoSocket
  /\ subscribed = FALSE /\ asked = 0 /\ sequence = 1
  /\ closed = FALSE /\ wake = FALSE /\ wakeOwed = FALSE
  /\ wakeFuture = FALSE /\ wakeJobs = 0
  /\ delayIndex = 0 /\ errorKind = "connection" /\ recovering = FALSE
  /\ report = "none" /\ age = 0
  /\ atHub = <<>> /\ inbox = <<>>

\* Mutant: the missing reset of _subscribed.
DropConnectionStillSubscribed ==
  /\ conn' = NoSocket /\ asked' = 0 /\ atHub' = <<>> /\ inbox' = <<>>
  /\ live' = live \ {conn} /\ shut' = conn
  /\ closing' = closing \cup ({conn} \ {NoSocket})
  /\ UNCHANGED <<subscribed, sequence>>

(***************************************************************************)
(* _async_close_connection up to its await: the session forgets the socket *)
(* before it closes it.  Frames buffered in the socket go with it.         *)
(***************************************************************************)
DropConnection ==
  /\ conn' = NoSocket
  /\ subscribed' = FALSE
  /\ asked' = 0
  /\ live' = live \ {conn}
  /\ closing' = closing \cup ({conn} \ {NoSocket})
  /\ shut' = conn
  /\ atHub' = <<>>
  /\ inbox' = <<>>
  /\ UNCHANGED sequence

\* Mutant: _async_connect without its early return.
StartSendingReconnects(c, sub) ==
  /\ todo' = IF sub THEN PollRequests ELSE SubscribeRequests
  /\ pc' = "token"

\* The requests _async_request_status_once is about to send, and the await
\* its first _async_send meets: _async_connect returns an existing socket.
StartSending(c, sub) ==
  /\ todo' = IF sub THEN PollRequests ELSE SubscribeRequests
  /\ pc' = IF c = NoSocket THEN "token" ELSE "send"

\* Mutant: any lost connection earns a recovery, one opened by this poll too.
RecoverableAlways(kind) == kind = "lost" /\ ~retried

\* except ConnectionClosed, OSError, TimeoutError: one retry, and only for a
\* socket that was there before the request and still is.
Recoverable(kind) ==
  kind = "lost" /\ ~retried /\ prev # NoSocket /\ conn = prev

\* An exception leaves the request: fast recovery or async_run's handler.
Raise(kind) ==
  /\ DropConnection
  /\ \/ Recoverable(kind) /\ pc' = "recover" /\ retried' = TRUE /\ UNCHANGED fault
     \/ ~Recoverable(kind) /\ pc' = "fail" /\ fault' = kind /\ UNCHANGED retried
  /\ UNCHANGED <<todo, prev, connects, windows, loopVars, jobVars, repVars>>

-----------------------------------------------------------------------------
(* async_run: the top of the loop, and async_request_status up to its      *)
(* first await.                                                            *)
BeginPoll ==
  /\ pc = "start" /\ ~closed
  /\ wake' = FALSE /\ wakeOwed' = FALSE
  /\ prev' = conn /\ retried' = FALSE /\ fault' = "none"
  /\ connects' = 0 /\ windows' = 0 /\ report' = "none"
  /\ IF conn # NoSocket
       THEN pc' = "check" /\ UNCHANGED todo
       ELSE StartSending(conn, subscribed)
  /\ atHub' = Older(atHub) /\ inbox' = Older(inbox)
  /\ UNCHANGED <<sockVars, closed, jobVars, delayIndex, errorKind, recovering, age>>

\* token_needs_refresh answered in the executor: rotate the socket or use it.
RotateSocket ==
  /\ pc = "check"
  /\ DropConnection
  /\ pc' = "rotate"
  /\ UNCHANGED <<reqVars, loopVars, jobVars, repVars>>

KeepSocket ==
  /\ pc = "check"
  /\ StartSending(conn, subscribed)
  /\ UNCHANGED <<prev, retried, fault, connects, windows,
                 sockVars, loopVars, jobVars, repVars, hubVars>>

\* The close awaited by a rotation or a fast recovery returned.
ResumeRequest ==
  /\ pc \in {"rotate", "recover"} /\ shut \notin closing
  /\ StartSending(conn, subscribed)
  /\ UNCHANGED <<prev, retried, fault, connects, windows,
                 sockVars, loopVars, jobVars, repVars, hubVars>>

-----------------------------------------------------------------------------
(* _async_connect.                                                         *)
TokenObtained ==
  /\ pc = "token"
  /\ pc' = "wakeup"
  /\ \/ wakeFuture /\ UNCHANGED jobVars              \* join the running job
     \/ ~wakeFuture /\ wakeFuture' = TRUE /\ wakeJobs' = wakeJobs + 1
  /\ UNCHANGED <<reqVars, sockVars, loopVars, repVars, hubVars>>

\* client.token() raised WeberCloudAuthError or another WeberCloudError.
TokenFails ==
  /\ pc = "token"
  /\ \E kind \in {"credentials", "protocol"} : Raise(kind)

\* The wake request ended in the executor, with or without a task waiting
\* for it.  Its future is cleared; a waiting task resumes: any error but a
\* rejected credential is ignored.
WakeJobEnds ==
  /\ wakeJobs > 0
  /\ wakeJobs' = wakeJobs - 1
  /\ wakeFuture' = FALSE
  /\ pc' = IF pc = "wakeup" THEN "connect" ELSE pc
  /\ UNCHANGED <<reqVars, sockVars, loopVars, repVars, hubVars>>

WakeRejected ==
  /\ pc = "wakeup" /\ wakeJobs > 0
  /\ wakeJobs' = wakeJobs - 1
  /\ wakeFuture' = FALSE
  /\ DropConnection
  /\ pc' = "fail" /\ fault' = "credentials"
  /\ UNCHANGED <<todo, prev, retried, connects, windows, loopVars, repVars>>

\* A fresh socket: an identity nothing in the session refers to.
FreshSockets == Sockets \ (live \cup closing \cup {prev, shut})

SocketOpens ==
  /\ pc = "connect"
  /\ \E s \in FreshSockets :
       /\ conn' = s
       /\ live' = live \cup {s}
  /\ subscribed' = FALSE
  /\ asked' = 0
  /\ connects' = connects + 1
  /\ pc' = "send"
  /\ UNCHANGED <<todo, prev, retried, fault, windows, closing, shut, sequence,
                 loopVars, jobVars, repVars, hubVars>>

\* connect() failed: 401/403, an OSError or a timeout, another handshake error.
SocketRefused ==
  /\ pc = "connect"
  /\ \E kind \in {"credentials", "lost", "protocol"} : Raise(kind)

-----------------------------------------------------------------------------
(* _async_send for the next request of the loop.  After the last one the   *)
(* session is subscribed and opens a read window.                          *)
NextSequence == IF sequence >= MaxSequence THEN 1 ELSE sequence + 1

SendRequest ==
  /\ pc = "send"
  /\ sequence' = NextSequence
  /\ todo' = Tail(todo)
  /\ asked' = IF subscribed THEN asked ELSE asked + 1
  /\ atHub' = IF Head(todo) = "05" THEN Append(atHub, 0) ELSE atHub
  /\ IF Len(todo) = 1
       THEN pc' = "recv" /\ subscribed' = TRUE /\ windows' = windows + 1
       ELSE UNCHANGED <<pc, subscribed, windows>>
  /\ UNCHANGED <<prev, retried, fault, connects, conn, live, closing, shut,
                 loopVars, jobVars, repVars, inbox>>

SendFails ==
  /\ pc = "send"
  /\ Raise("lost")

\* External: the hub answers the oldest 0x05 request, or never will.
HubAnswers ==
  /\ atHub # <<>>
  /\ atHub' = Tail(atHub)
  /\ \/ inbox' = Append(inbox, Head(atHub))
     \/ UNCHANGED inbox
  /\ UNCHANGED <<pc, reqVars, sockVars, loopVars, jobVars, repVars>>

\* Mutant: the wake event is cleared after the poll instead of before it.
StatusReceivedForgetsWake ==
  /\ pc = "recv" /\ inbox # <<>>
  /\ inbox' = Tail(inbox) /\ age' = Head(inbox)
  /\ recovering' = FALSE /\ errorKind' = "connection"
  /\ report' = "status" /\ delayIndex' = 0
  /\ pc' = "sleep" /\ wake' = FALSE
  /\ UNCHANGED <<reqVars, sockVars, closed, wakeOwed, jobVars, atHub>>

\* _async_receive_status returned on a 0x80 frame: async_run publishes.
StatusReceived ==
  /\ pc = "recv" /\ inbox # <<>>
  /\ inbox' = Tail(inbox)
  /\ age' = Head(inbox)
  /\ recovering' = FALSE
  /\ errorKind' = "connection"
  /\ report' = "status"
  /\ delayIndex' = 0
  /\ pc' = "sleep"
  /\ UNCHANGED <<reqVars, sockVars, loopVars, jobVars, atHub>>

\* A misrouted frame, a 0x87 rejection or a malformed 0x83 container; the
\* 12 s read timeout or a closed connection.
ReceiveFails ==
  /\ pc = "recv"
  /\ \E kind \in {"protocol", "lost"} : Raise(kind)

\* The 30 s timer of async_request_status cancels whatever it is awaiting;
\* the TimeoutError appears outside its try block.
RequestTimeout ==
  /\ pc \in Requesting
  /\ pc \in ClosePoints => shut \in closing
  /\ DropConnection
  /\ pc' = "fail" /\ fault' = "lost"
  /\ UNCHANGED <<todo, prev, retried, connects, windows, loopVars, jobVars, repVars>>

-----------------------------------------------------------------------------
(* async_run's exception handler, after its close, and the pause.          *)

\* Mutant: no error callback.
ReportFailureSilently ==
  /\ pc = "fail" /\ shut \notin closing
  /\ recovering' = TRUE /\ pc' = "sleep"
  /\ delayIndex' = IF delayIndex < Backoffs THEN delayIndex + 1 ELSE delayIndex
  /\ UNCHANGED <<reqVars, errorKind,
                 report, sockVars, loopVars, jobVars, age, hubVars>>

ReportFailure ==
  /\ pc = "fail" /\ shut \notin closing
  /\ recovering' = TRUE
  /\ errorKind' = IF fault = "credentials" THEN "credentials" ELSE "connection"
  /\ report' = "error"
  /\ delayIndex' = IF delayIndex < Backoffs THEN delayIndex + 1 ELSE delayIndex
  /\ pc' = "sleep"
  /\ UNCHANGED <<reqVars, sockVars, loopVars, jobVars, age, hubVars>>

\* wait_for(self._wake.wait(), delay): woken, or the delay is over.
Woken ==
  /\ pc = "sleep" /\ wake
  /\ pc' = "start"
  /\ UNCHANGED <<reqVars, sockVars, loopVars, jobVars, repVars, hubVars>>

DelayOver ==
  /\ pc = "sleep" /\ ~wake
  /\ pc' = "start"
  /\ UNCHANGED <<reqVars, sockVars, loopVars, jobVars, repVars, hubVars>>

\* async_wake, from the owner.
RequestWake ==
  /\ ~closed /\ pc # "start" /\ ~wakeOwed
  /\ wake' = TRUE /\ wakeOwed' = TRUE
  /\ UNCHANGED <<pc, reqVars, sockVars, closed, jobVars, repVars, hubVars>>

\* connection.close() settled: the peer answered or close_timeout passed.
CloseSettles ==
  /\ \E s \in closing : closing' = closing \ {s}
  /\ UNCHANGED <<pc, reqVars, conn, live, shut, subscribed, asked, sequence,
                 loopVars, jobVars, repVars, hubVars>>

\* Mutant: the loop's handler catches the cancellation too.
CancelSwallowed ==
  /\ pc \notin {"start", "close", "done"}
  /\ pc \in ClosePoints => shut \in closing
  /\ closed' = TRUE /\ wake' = TRUE
  /\ DropConnection
  /\ pc' = "fail"
  /\ UNCHANGED <<reqVars, wakeOwed,
                 jobVars, repVars>>

\* WeberCoordinator.async_close cancels the task at an await; the finally
\* clause runs async_close.
Cancel ==
  /\ pc \notin {"start", "close", "done"}
  /\ pc \in ClosePoints => shut \in closing
  /\ closed' = TRUE /\ wake' = TRUE
  /\ DropConnection
  /\ pc' = "close"
  /\ UNCHANGED <<reqVars, wakeOwed,
                 jobVars, repVars>>

\* The task ends; the coordinator's own async_close finds nothing to close.
Finish ==
  /\ pc = "close" /\ shut \notin closing
  /\ pc' = "done"
  /\ UNCHANGED <<reqVars, sockVars, loopVars, jobVars, repVars, hubVars>>

Connecting == TokenObtained \/ TokenFails \/ WakeRejected \/ SocketOpens \/ SocketRefused
Exchange == SendRequest \/ SendFails \/ StatusReceived \/ ReceiveFails
Pause == Woken \/ DelayOver

Next ==
  \/ BeginPoll \/ RotateSocket \/ KeepSocket \/ ResumeRequest
  \/ Connecting \/ WakeJobEnds \/ Exchange \/ HubAnswers \/ RequestTimeout
  \/ ReportFailure \/ Pause \/ RequestWake \/ CloseSettles \/ Cancel \/ Finish

Spec == Init /\ [][Next]_vars

\* What asyncio guarantees: a runnable task runs, a timer fires, a close is
\* bounded by close_timeout.  Nothing is assumed of the network or the hub,
\* and nobody has to unload the entry.
Fairness ==
  /\ WF_vars(BeginPoll) /\ WF_vars(RequestTimeout) /\ WF_vars(ResumeRequest)
  /\ WF_vars(CloseSettles) /\ WF_vars(ReportFailure) /\ WF_vars(Pause)
  /\ WF_vars(Finish)

FairSpec == Spec /\ Fairness

-----------------------------------------------------------------------------
(* Properties.                                                             *)

SocketOrNone == Sockets \cup {NoSocket}
Points == Requesting \cup ClosePoints \cup {"start", "sleep", "done"}

TaskType ==
  /\ pc \in Points
  /\ todo \in Seq(Requests)
  /\ fault \in {"none", "lost", "credentials", "protocol"}
  /\ connects \in Nat /\ windows \in Nat

SocketType ==
  /\ conn \in SocketOrNone /\ prev \in SocketOrNone /\ shut \in SocketOrNone
  /\ live \in SUBSET Sockets /\ closing \in SUBSET Sockets
  /\ asked \in Nat
  /\ sequence \in 1..MaxSequence

FlagType ==
  /\ subscribed \in BOOLEAN /\ retried \in BOOLEAN /\ recovering \in BOOLEAN
  /\ closed \in BOOLEAN /\ wake \in BOOLEAN /\ wakeOwed \in BOOLEAN
  /\ wakeFuture \in BOOLEAN

LoopType ==
  /\ wakeJobs \in Nat
  /\ delayIndex \in 0..Backoffs
  /\ errorKind \in {"connection", "credentials"}
  /\ report \in {"none", "status", "error"}

HubType ==
  /\ atHub \in Seq(0..Oldest) /\ inbox \in Seq(0..Oldest)
  /\ age \in 0..Oldest

\* Every variable has its type; in particular a sequence number is never 0
\* and never passes MaxSequence.
TypeOK ==
  /\ TaskType /\ SocketType /\ FlagType /\ LoopType /\ HubType

\* "Own one asynchronous companion WebSocket": whatever is cancelled, timed
\* out or broken, every socket still open is the one self._connection names.
OneSocket == live = {conn} \ {NoSocket}

\* A poll that starts on an existing socket finds it subscribed: a send loop
\* broken off half-way never leaves a socket that skips its subscription,
\* and subscribed means all six requests went out on this very socket.
FullySubscribed ==
  /\ subscribed => conn # NoSocket /\ asked = Len(SubscribeRequests)
  /\ pc \in {"start", "check", "sleep"} /\ conn # NoSocket => subscribed

\* A rotation and a fast recovery never stack: one poll opens at most one
\* socket and at most two read windows, and two only for a socket that was
\* there before the poll ("cannot stack another read window").
BoundedPoll ==
  /\ connects <= 1
  /\ windows <= 2
  /\ windows = 2 => prev # NoSocket /\ connects = 1

\* A failed poll never hands its socket to the next one.
FailureDropsSocket ==
  pc \in {"start", "sleep"} /\ report = "error" => conn = NoSocket /\ live = {}

\* The recovery clock runs exactly while the back-off does.
RecoveryClock == pc \in {"start", "sleep"} => (recovering <=> delayIndex > 0)

\* Requests cancelled under a running wake request never start another: at
\* most one wake request occupies the executor.
OneWakeJob == wakeJobs = IF wakeFuture THEN 1 ELSE 0

\* An unloaded session holds no socket, and only an unload closes it.
ClosedForGood ==
  /\ closed <=> pc \in {"close", "done"}
  /\ closed => live = {}

\* A published status answers a request of the current or of the previous
\* poll: answers in the socket never pile up over a long session.
StaleByAtMostOne == Len(atHub) + Len(inbox) <= 2 /\ age <= 1

\* async_request_status_once promises "a fresh cook-status frame": the
\* published status answers a request this poll sent.
FreshStatus == report = "status" => age = 0

\* After the unload nothing is reported and no socket is opened.
SilentAfterClose ==
  [][closed => /\ UNCHANGED <<closed, report, age, errorKind>>
               /\ live' \subseteq live]_vars

\* A wake call is honoured: the pause that follows it is not slept through.
WakeHonoured == [][DelayOver => ~wakeOwed]_vars

\* The session keeps the promise made to the coordinator (PollContract): one
\* callback per completed poll, none after the stop, every poll ends whatever
\* the network does, and until the unload the loop polls again.
Phase == IF closed THEN "stopped"
         ELSE IF pc \in {"start", "sleep"} THEN "idle" ELSE "polling"
Contract == INSTANCE PollContract WITH phase <- Phase, report <- report
ImplementsContract == Contract!Spec

\* An unload ends the run task and settles every socket.
UnloadEnds == closed ~> (pc = "done" /\ closing = {})

=============================================================================
