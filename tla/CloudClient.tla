------------------------------ MODULE CloudClient ------------------------------
(***************************************************************************)
(* WeberCloudClient (weber_cloud.py): one bearer token shared by blocking  *)
(* calls that Home Assistant runs in executor threads.  Cancelling the     *)
(* task that awaits such a call does not stop the thread, so a call the    *)
(* session gave up may still read or write the token while the next one    *)
(* runs, or after the entry is unloaded.                                   *)
(*                                                                         *)
(* A token is modelled by whether one is held and whether its recorded     *)
(* expiry has passed; the registration service and the messaging service   *)
(* are external and answer as they like.                                   *)
(***************************************************************************)
EXTENDS Integers, FiniteSets

CONSTANTS Jobs,       \* executor threads available to the entry
          NoJob       \* nothing is awaited, no wake request is shared

ASSUME JobsAssumption == NoJob \notin Jobs

VARIABLES
  held,         \* self._token is not None
  expired,      \* time.time() >= self._token_expiry - 60
  job,          \* job[j]: kind of call, statement it is at, token it got
  task,         \* what the entry's run task is doing
  waitsFor,     \* the job the task awaits
  wakeJob,      \* session._wake_future
  bearer,       \* the token the task connects with is not None
  alone,        \* no other call ran while the task's token call did
  leftover      \* a call was still running when the entry unloaded

cacheVars == <<held, expired>>
taskVars == <<task, waitsFor, wakeJob, bearer, alone, leftover>>
vars == <<held, expired, job, task, waitsFor, wakeJob, bearer, alone, leftover>>

Idle == [kind |-> "none", at |-> "idle", got |-> FALSE]
Running(j) == job[j].at \notin {"idle", "token", "auth", "error", "ok"}
Busy == {j \in Jobs : Running(j)}
\* A thread whose result nobody will read is free again.
Free(j) == ~Running(j) /\ j # waitsFor /\ j # wakeJob

Init ==
  /\ held = FALSE /\ expired = TRUE
  /\ job = [j \in Jobs |-> Idle]
  /\ task = "start" /\ waitsFor = NoJob /\ wakeJob = NoJob
  /\ bearer = TRUE /\ alone = TRUE /\ leftover = FALSE

Goto(j, at) == job' = [job EXCEPT ![j].at = at]
\* token() returns: its caller is wake_messaging or the executor's future.
Deliver(j, got) ==
  job' = [job EXCEPT ![j].got = got,
                     ![j].at = IF job[j].kind = "wake" THEN "get" ELSE "token"]

-----------------------------------------------------------------------------
(* The calls, one step per access to the shared token or to the network.   *)

\* token(): read the cached token and its expiry.
ReadToken(j) ==
  /\ job[j].at = "read"
  /\ IF held /\ ~expired
       THEN Deliver(j, TRUE)
       ELSE Goto(j, "post")
  /\ UNCHANGED <<cacheVars, taskVars>>

\* authenticate(): POST /2/devices/register answered.
Register(j) ==
  /\ job[j].at = "post"
  /\ \E at \in {"store", "clear", "auth", "error"} : Goto(j, at)
  /\ UNCHANGED <<cacheVars, taskVars>>

\* Mutant: the expiry is recorded, the token is not.
StoreTokenSkipped(j) ==
  /\ job[j].at = "store" /\ Goto(j, "stamp") /\ UNCHANGED <<cacheVars, taskVars>>

StoreToken(j) ==
  /\ job[j].at = "store"
  /\ held' = TRUE
  /\ Goto(j, "stamp")
  /\ UNCHANGED <<expired, taskVars>>

StampExpiry(j) ==
  /\ job[j].at = "stamp"
  /\ expired' = FALSE
  /\ Goto(j, "return")
  /\ UNCHANGED <<held, taskVars>>

\* return self._token: the attribute is read again.
ReturnToken(j) ==
  /\ job[j].at = "return"
  /\ Deliver(j, held)
  /\ UNCHANGED <<cacheVars, taskVars>>

\* Mutant: a request without a timeout.
WakeRequestHangs(j) == job[j].at = "get" /\ Goto(j, "get") /\ UNCHANGED <<cacheVars, taskVars>>

\* wake_messaging: GET the hub's messaging status with the token.
WakeRequest(j) ==
  /\ job[j].at = "get"
  /\ \E at \in {"ok", "clear", "auth", "error"} : Goto(j, at)
  /\ UNCHANGED <<cacheVars, taskVars>>

\* _open on 401: drop the token, whichever it now is, and raise.
Rejected(j) ==
  /\ job[j].at = "clear"
  /\ held' = FALSE
  /\ Goto(j, "auth")
  /\ UNCHANGED <<expired, taskVars>>

Call(j) == \/ ReadToken(j) \/ Register(j) \/ StoreToken(j) \/ StampExpiry(j)
           \/ ReturnToken(j) \/ WakeRequest(j) \/ Rejected(j)

\* The clock passes the recorded expiry.
TokenExpires ==
  /\ ~expired /\ expired' = TRUE
  /\ UNCHANGED <<held, job, taskVars>>

-----------------------------------------------------------------------------
(* The entry's run task, as far as it uses the client.                     *)

Submit(j, kind) == job' = [job EXCEPT ![j] = [kind |-> kind, at |-> "read", got |-> FALSE]]

\* _async_connect awaits cloud_client.token in the executor.
AskToken ==
  /\ task = "start"
  /\ \E j \in Jobs : Free(j) /\ Submit(j, "token") /\ waitsFor' = j
  /\ task' = "token"
  /\ alone' = (Busy = {})
  /\ UNCHANGED <<cacheVars, wakeJob, bearer, leftover>>

\* The token call returned: wake the hub, or join the wake that still runs.
TokenArrives ==
  /\ task = "token" /\ job[waitsFor].at = "token"
  /\ bearer' = job[waitsFor].got
  /\ task' = "wake"
  /\ IF wakeJob # NoJob
       THEN waitsFor' = wakeJob /\ UNCHANGED <<job, wakeJob>>
       ELSE \E j \in Jobs \ {waitsFor} :
              Free(j) /\ Submit(j, "wake") /\ waitsFor' = j /\ wakeJob' = j
  /\ UNCHANGED <<cacheVars, alone, leftover>>

\* clear_wake: the shared future is done, awaited or not.
WakeCleared ==
  /\ wakeJob # NoJob /\ ~Running(wakeJob)
  /\ wakeJob' = NoJob
  /\ IF waitsFor = wakeJob
       THEN waitsFor' = NoJob /\ task' = IF job[wakeJob].at = "auth" THEN "start" ELSE "connect"
       ELSE UNCHANGED <<waitsFor, task>>
  /\ UNCHANGED <<cacheVars, job, bearer, alone, leftover>>

\* token() raised: the poll fails and the loop starts over.
TokenRefused ==
  /\ task = "token" /\ job[waitsFor].at \in {"auth", "error"}
  /\ task' = "start" /\ waitsFor' = NoJob
  /\ UNCHANGED <<cacheVars, job, wakeJob, bearer, alone, leftover>>

\* The upgrade request is made with Bearer token; the socket lives until a
\* poll fails or token_needs_refresh rotates it.
Connect ==
  /\ task = "connect"
  /\ task' = "online"
  /\ UNCHANGED <<cacheVars, job, waitsFor, wakeJob, bearer, alone, leftover>>

SocketLost ==
  /\ task = "online"
  /\ task' = "start"
  /\ UNCHANGED <<cacheVars, job, waitsFor, wakeJob, bearer, alone, leftover>>

\* The request timer cancels the await; the thread runs on.
GiveUp ==
  /\ task \in {"token", "wake"}
  /\ task' = "start" /\ waitsFor' = NoJob
  /\ UNCHANGED <<cacheVars, job, wakeJob, bearer, alone, leftover>>

\* WeberCoordinator.async_close: the run task is cancelled and ended.
Unload ==
  /\ task \notin {"closing", "unloaded"}
  /\ task' = "closing" /\ waitsFor' = NoJob
  /\ UNCHANGED <<cacheVars, job, wakeJob, bearer, alone, leftover>>

\* Mutant: close() is not called.
ClientClosesNot ==
  /\ task = "closing" /\ task' = "unloaded" /\ leftover' = (Busy # {})
  /\ UNCHANGED <<cacheVars, job, waitsFor, wakeJob, bearer, alone>>

\* ... then cloud_client.close runs in the executor and async_close returns.
ClientCloses ==
  /\ task = "closing"
  /\ held' = FALSE /\ expired' = TRUE
  /\ task' = "unloaded"
  /\ leftover' = (Busy # {})
  /\ UNCHANGED <<job, waitsFor, wakeJob, bearer, alone>>

RunTask == \/ AskToken \/ TokenArrives \/ WakeCleared \/ TokenRefused \/ Connect
           \/ SocketLost \/ GiveUp \/ Unload \/ ClientCloses

Next == (\E j \in Jobs : Call(j)) \/ TokenExpires \/ RunTask

Spec == Init /\ [][Next]_vars

\* urllib's timeout bounds every network step, and threads are scheduled.
FairSpec == Spec /\ \A j \in Jobs : WF_vars(Call(j))
                 /\ WF_vars(WakeCleared) /\ WF_vars(ClientCloses)

-----------------------------------------------------------------------------
(* Properties.                                                             *)

Calls == [kind : {"none", "token", "wake"},
          at : {"idle", "read", "post", "store", "stamp", "return", "get", "clear",
                "token", "auth", "error", "ok"},
          got : BOOLEAN]

\* Every variable has its type.
TypeOK ==
  /\ held \in BOOLEAN /\ expired \in BOOLEAN
  /\ job \in [Jobs -> Calls]
  /\ task \in {"start", "token", "wake", "connect", "online", "closing", "unloaded"}
  /\ waitsFor \in Jobs \cup {NoJob} /\ wakeJob \in Jobs \cup {NoJob}
  /\ bearer \in BOOLEAN /\ alone \in BOOLEAN /\ leftover \in BOOLEAN

\* However many polls time out, the hub is woken by one call at a time.
OneWake == Cardinality({j \in Busy : job[j].kind = "wake"}) <= 1

\* A token call no other call overlaps returns a token, never None.
SoloTokenIsReal == task \in {"wake", "connect", "online"} /\ alone => bearer

\* close(): "Discard the bearer token when the config entry unloads."  It does
\* for good when no call is in flight; a leftover one may store a token later.
QuietUnloadDiscards == task = "unloaded" /\ ~leftover => ~held /\ Busy = {}

\* token() is declared to return str: what it hands the session is a token.
TokenIsReal == task \in {"wake", "connect", "online"} => bearer

\* Every call of an unloaded entry ends, and the unload itself does.
UnloadSettles == task = "closing" ~> task = "unloaded" /\ Busy = {}

=============================================================================
