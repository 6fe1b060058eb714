--------------------------- MODULE CloudClientProofs ---------------------------
(***************************************************************************)
(* Proofs about CloudClient for any set of executor threads.  A property   *)
(* of the token needs to know which threads can still touch it, and that   *)
(* is what the strengthening says.                                         *)
(***************************************************************************)
EXTENDS CloudClient, FiniteSetTheorems, TLAPS

\* The task awaits a call exactly while it is in a token or a wake step, and
\* never a token call that is also the shared wake request.
WaitInv ==
  /\ waitsFor \in Jobs <=> task \in {"token", "wake"}
  /\ task = "token" => waitsFor # wakeJob

\* A wake request that still runs is the shared one.
WakeInv == \A j \in Busy : job[j].kind = "wake" => j = wakeJob

\* While a token call runs alone, nothing takes its token away.
SoloInv ==
  /\ task = "token" /\ alone =>
       /\ Busy \subseteq {waitsFor}
       /\ job[waitsFor].at \in {"stamp", "return"} => held
       /\ job[waitsFor].at = "token" => job[waitsFor].got
  /\ SoloTokenIsReal

ClientInv == TypeOK /\ WaitInv /\ WakeInv /\ SoloInv /\ QuietUnloadDiscards

-----------------------------------------------------------------------------
LEMMA InitInv == Init => ClientInv
<1> SUFFICES ASSUME Init PROVE ClientInv
  OBVIOUS
<1>1. TypeOK
  BY DEF Init, TypeOK, Calls, Idle
<1>2. Busy = {}
  BY DEF Init, Busy, Running, Idle
<1>3. WaitInv /\ WakeInv /\ SoloInv /\ QuietUnloadDiscards
  BY <1>2, JobsAssumption
     DEF Init, WaitInv, WakeInv, SoloInv, SoloTokenIsReal, QuietUnloadDiscards
<1> QED
  BY <1>1, <1>3 DEF ClientInv

\* A new call is a call.
LEMMA SubmitType ==
  ASSUME job \in [Jobs -> Calls], NEW j \in Jobs, NEW kind \in {"token", "wake"}, Submit(j, kind)
  PROVE  /\ job' \in [Jobs -> Calls]
         /\ job'[j].at = "read" /\ job'[j].kind = kind
         /\ \A k \in Jobs \ {j} : job'[k] = job[k]
<1>1. [kind |-> kind, at |-> "read", got |-> FALSE] \in Calls
  BY DEF Calls
<1> QED
  BY <1>1 DEF Submit

LEMMA TypeStep == TypeOK /\ WaitInv /\ [Next]_vars => TypeOK'
<1> SUFFICES ASSUME TypeOK, WaitInv, [Next]_vars PROVE TypeOK'
  OBVIOUS
<1> USE DEF TypeOK, cacheVars, taskVars
<1>1. ASSUME NEW j \in Jobs, Call(j) PROVE TypeOK'
  <2> USE DEF Calls
  <2>1. CASE ReadToken(j)
    BY <2>1 DEF ReadToken, Goto, Deliver
  <2>2. CASE Register(j)
    BY <2>2 DEF Register, Goto
  <2>3. CASE ReturnToken(j)
    BY <2>3 DEF ReturnToken, Deliver
  <2>4. CASE WakeRequest(j)
    BY <2>4 DEF WakeRequest, Goto
  <2>5. CASE StoreToken(j)
    BY <2>5 DEF StoreToken, Goto
  <2>6. CASE StampExpiry(j)
    BY <2>6 DEF StampExpiry, Goto
  <2>7. CASE Rejected(j)
    BY <2>7 DEF Rejected, Goto
  <2> QED
    BY <1>1, <2>1, <2>2, <2>3, <2>4, <2>5, <2>6, <2>7 DEF Call
<1>2. CASE TokenExpires
  BY <1>2 DEF TokenExpires
<1>3. CASE AskToken
  BY <1>3, SubmitType DEF AskToken
<1>4. CASE TokenArrives
  <2>1. job' \in [Jobs -> Calls]
    BY <1>4, SubmitType DEF TokenArrives
  <2>2. bearer' \in BOOLEAN
    BY <1>4 DEF TokenArrives, WaitInv, Calls
  <2>3. waitsFor' \in Jobs \cup {NoJob} /\ wakeJob' \in Jobs \cup {NoJob}
    BY <1>4 DEF TokenArrives
  <2> QED
    BY <1>4, <2>1, <2>2, <2>3 DEF TokenArrives
<1>5. CASE WakeCleared
  BY <1>5 DEF WakeCleared
<1>6. CASE TokenRefused \/ Connect \/ SocketLost \/ GiveUp \/ Unload \/ ClientCloses
  BY <1>6 DEF TokenRefused, Connect, SocketLost, GiveUp, Unload, ClientCloses
<1>7. CASE UNCHANGED vars
  BY <1>7 DEF vars
<1> QED
  BY <1>1, <1>2, <1>3, <1>4, <1>5, <1>6, <1>7 DEF Next, RunTask

LEMMA WaitStep == TypeOK /\ WaitInv /\ [Next]_vars => WaitInv'
<1> SUFFICES ASSUME TypeOK, WaitInv, [Next]_vars PROVE WaitInv'
  OBVIOUS
<1> USE JobsAssumption DEF TypeOK, WaitInv, cacheVars, taskVars
<1>1. ASSUME NEW j \in Jobs, Call(j) PROVE WaitInv'
  BY <1>1 DEF Call, ReadToken, Register, StoreToken, StampExpiry, ReturnToken, WakeRequest,
              Rejected
<1>2. CASE TokenExpires
  BY <1>2 DEF TokenExpires
<1>3. CASE AskToken
  BY <1>3 DEF AskToken, Free
<1>4. CASE TokenArrives
  BY <1>4 DEF TokenArrives
<1>5. CASE WakeCleared
  BY <1>5 DEF WakeCleared
<1>6. CASE TokenRefused \/ Connect \/ SocketLost \/ GiveUp \/ Unload \/ ClientCloses
  BY <1>6 DEF TokenRefused, Connect, SocketLost, GiveUp, Unload, ClientCloses
<1>7. CASE UNCHANGED vars
  BY <1>7 DEF vars
<1> QED
  BY <1>1, <1>2, <1>3, <1>4, <1>5, <1>6, <1>7 DEF Next, RunTask

\* A call makes no idle thread run and keeps its kind.
LEMMA CallFacts ==
  ASSUME TypeOK, NEW j \in Jobs, Call(j)
  PROVE  /\ j \in Busy /\ Busy' \subseteq Busy
         /\ \A k \in Jobs : job'[k].kind = job[k].kind
         /\ \A k \in Jobs \ {j} : job'[k] = job[k]
         /\ UNCHANGED taskVars
<1> USE DEF TypeOK, Calls, Busy, Running
<1>1. CASE ReadToken(j)
  BY <1>1 DEF ReadToken, Goto, Deliver
<1>2. CASE Register(j) \/ StoreToken(j) \/ StampExpiry(j)
  BY <1>2 DEF Register, StoreToken, StampExpiry, Goto
<1>3. CASE ReturnToken(j)
  BY <1>3 DEF ReturnToken, Deliver
<1>4. CASE WakeRequest(j) \/ Rejected(j)
  BY <1>4 DEF WakeRequest, Rejected, Goto
<1> QED
  BY <1>1, <1>2, <1>3, <1>4 DEF Call

LEMMA WakeStep == TypeOK /\ WakeInv /\ [Next]_vars => WakeInv'
<1> SUFFICES ASSUME TypeOK, WakeInv, [Next]_vars PROVE WakeInv'
  OBVIOUS
<1> USE DEF WakeInv
<1>1. ASSUME NEW j \in Jobs, Call(j) PROVE WakeInv'
  BY <1>1, CallFacts DEF taskVars, Busy
<1>2. CASE TokenExpires
  BY <1>2 DEF TokenExpires, Busy, Running, taskVars
<1>3. CASE AskToken
  <2> PICK j \in Jobs : Free(j) /\ Submit(j, "token")
    BY <1>3 DEF AskToken
  <2> QED
    BY <1>3, SubmitType DEF AskToken, Busy, Running, TypeOK
<1>4. CASE TokenArrives
  <2>1. CASE wakeJob # NoJob
    BY <1>4, <2>1 DEF TokenArrives, Busy, Running
  <2>2. CASE wakeJob = NoJob
    <3> PICK j \in Jobs : Free(j) /\ Submit(j, "wake") /\ wakeJob' = j
      BY <1>4, <2>2 DEF TokenArrives
    <3> QED
      BY <2>2, SubmitType, JobsAssumption DEF Busy, Running, TypeOK
  <2> QED
    BY <2>1, <2>2
<1>5. CASE WakeCleared
  BY <1>5 DEF WakeCleared, Busy, Running
<1>6. CASE TokenRefused \/ Connect \/ SocketLost \/ GiveUp \/ Unload \/ ClientCloses
  BY <1>6 DEF TokenRefused, Connect, SocketLost, GiveUp, Unload, ClientCloses, Busy, Running
<1>7. CASE UNCHANGED vars
  BY <1>7 DEF vars, Busy, Running
<1> QED
  BY <1>1, <1>2, <1>3, <1>4, <1>5, <1>6, <1>7 DEF Next, RunTask

LEMMA SoloStep == TypeOK /\ WaitInv /\ SoloInv /\ [Next]_vars => SoloInv'
<1> SUFFICES ASSUME TypeOK, WaitInv, SoloInv, [Next]_vars PROVE SoloInv'
  OBVIOUS
<1> USE DEF SoloInv, SoloTokenIsReal
<1>1. ASSUME NEW j \in Jobs, Call(j) PROVE SoloInv'
  <2>1. CASE task = "token" /\ alone
    <3>1. j = waitsFor /\ Busy' \subseteq {waitsFor}
      BY <1>1, <2>1, CallFacts
    <3>2. job'[j].at \in {"stamp", "return"} => held'
      BY <1>1, <2>1, <3>1
         DEF Call, ReadToken, Register, StoreToken, StampExpiry, ReturnToken, WakeRequest,
             Rejected, Goto, Deliver, TypeOK, Calls
    <3>3. job'[j].at = "token" => job'[j].got
      BY <1>1, <2>1, <3>1
         DEF Call, ReadToken, Register, StoreToken, StampExpiry, ReturnToken, WakeRequest,
             Rejected, Goto, Deliver, TypeOK, Calls
    <3> QED
      BY <1>1, <2>1, <3>1, <3>2, <3>3, CallFacts DEF taskVars
  <2>2. CASE ~(task = "token" /\ alone)
    BY <1>1, <2>2, CallFacts DEF taskVars
  <2> QED
    BY <2>1, <2>2
<1>2. CASE TokenExpires
  BY <1>2 DEF TokenExpires, Busy, Running, taskVars
<1>3. CASE AskToken
  <2> PICK j \in Jobs : Submit(j, "token") /\ waitsFor' = j
    BY <1>3 DEF AskToken
  <2> QED
    BY <1>3, SubmitType DEF AskToken, Busy, Running, TypeOK
<1>4. CASE TokenArrives
  BY <1>4 DEF TokenArrives, WaitInv
<1>5. CASE WakeCleared
  BY <1>5 DEF WakeCleared, Busy, Running, WaitInv, TypeOK, cacheVars
<1>6. CASE TokenRefused \/ Connect \/ SocketLost \/ GiveUp \/ Unload \/ ClientCloses
  BY <1>6 DEF TokenRefused, Connect, SocketLost, GiveUp, Unload, ClientCloses
<1>7. CASE UNCHANGED vars
  BY <1>7 DEF vars, Busy, Running
<1> QED
  BY <1>1, <1>2, <1>3, <1>4, <1>5, <1>6, <1>7 DEF Next, RunTask

LEMMA UnloadStep ==
  TypeOK /\ WaitInv /\ QuietUnloadDiscards /\ [Next]_vars => QuietUnloadDiscards'
<1> SUFFICES ASSUME TypeOK, WaitInv, QuietUnloadDiscards, [Next]_vars
             PROVE  QuietUnloadDiscards'
  OBVIOUS
<1> USE DEF QuietUnloadDiscards
<1>1. ASSUME NEW j \in Jobs, Call(j) PROVE QuietUnloadDiscards'
  BY <1>1, CallFacts DEF taskVars
<1>2. CASE TokenExpires
  BY <1>2 DEF TokenExpires, Busy, Running, taskVars
<1>3. CASE AskToken \/ TokenArrives
  BY <1>3 DEF AskToken, TokenArrives
<1>4. CASE WakeCleared
  BY <1>4, JobsAssumption DEF WakeCleared, WaitInv, TypeOK, Busy, Running, cacheVars
<1>5. CASE TokenRefused \/ Connect \/ SocketLost \/ GiveUp \/ Unload \/ ClientCloses
  BY <1>5 DEF TokenRefused, Connect, SocketLost, GiveUp, Unload, ClientCloses, Busy, Running
<1>6. CASE UNCHANGED vars
  BY <1>6 DEF vars, Busy, Running
<1> QED
  BY <1>1, <1>2, <1>3, <1>4, <1>5, <1>6 DEF Next, RunTask

-----------------------------------------------------------------------------
\* The strengthened invariant holds in every reachable state.
THEOREM ClientInvariant == Spec => []ClientInv
<1>1. ClientInv /\ [Next]_vars => ClientInv'
  BY TypeStep, WaitStep, WakeStep, SoloStep, UnloadStep DEF ClientInv
<1> QED
  BY InitInv, <1>1, PTL DEF Spec

\* Every variable keeps its type.
THEOREM TypeCorrect == Spec => []TypeOK
BY ClientInvariant, PTL DEF ClientInv

\* However many polls time out and however many threads there are, at most one
\* wake request runs (_async_wake_messaging shares it).
THEOREM WakeShared == Spec => []OneWake
<1>1. ClientInv => OneWake
  <2> SUFFICES ASSUME WakeInv PROVE OneWake
    BY DEF ClientInv
  <2> DEFINE W == {j \in Busy : job[j].kind = "wake"}
  <2>1. W \subseteq {wakeJob}
    BY DEF WakeInv
  <2>2. IsFiniteSet({wakeJob}) /\ Cardinality({wakeJob}) = 1
    BY FS_Singleton
  <2>3. IsFiniteSet(W) /\ Cardinality(W) <= Cardinality({wakeJob})
    BY <2>1, <2>2, FS_Subset
  <2> QED
    BY <2>2, <2>3 DEF OneWake
<1> QED
  BY <1>1, ClientInvariant, PTL

\* token() never returns None to a call that no other call overlaps.
THEOREM SoloTokens == Spec => []SoloTokenIsReal
BY ClientInvariant, PTL DEF ClientInv, SoloInv

\* close() discards the token for good when no call is in flight.
THEOREM UnloadQuiet == Spec => []QuietUnloadDiscards
BY ClientInvariant, PTL DEF ClientInv

=============================================================================
