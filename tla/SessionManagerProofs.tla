------------------------ MODULE SessionManagerProofs ------------------------
(***************************************************************************)
(* Proofs about SessionManager, for any number of callers and sessions and *)
(* any timeouts: while calls come one at a time, the heartbeat and the     *)
(* bookkeeping belong together, and no joinable thread is assigned to.     *)
(***************************************************************************)
EXTENDS SessionManager, TLAPS

(***************************************************************************)
(* The inductive invariant: what holds while calls come one at a time.     *)
(***************************************************************************)

OneByOne == \A c, d \in Caller : call[c].at # "idle" /\ call[d].at # "idle" => c = d

\* A std::thread is joinable until it is joined, and runs while it is told to.
ThreadHeld ==
  /\ thread.joinable <=> thread.state # "none"
  /\ running => thread.state \in {"sleep", "beat"}

\* What a call is in its step for.
Purpose == \A c \in Caller : call[c].at # "idle" =>
  /\ call[c].op = "settle" => book.type = Default
  /\ call[c].at = "start" => call[c].op \in {"session", "secured"}
  /\ call[c].at = "revert" => call[c].op = "revert"

\* From stop_heartbeat_locked to the end of its caller, the heartbeat is off,
\* and after the join there is no thread.
HeartbeatOff == \A c \in Caller :
  /\ call[c].at \in {"join", "start", "forget"} => ~running
  /\ call[c].at = "join" => thread.joinable
  /\ call[c].at \in {"start", "forget"} => ~thread.joinable

\* At all other times it is on in an escalated session, and is that session's.
HeartbeatPaired ==
  (\A c \in Caller : call[c].at \notin {"join", "start", "forget"}) =>
    /\ book.type # Default => running
    /\ running => thread.session = book.type

\* The ECU is in the session that is recorded, or about to be.
EcuFollows ==
  /\ book.type # Default
       /\ (\A c \in Caller : call[c].at \notin {"stop", "join", "start", "forget"}) =>
         ecu.session \in {book.type, Default}
  /\ \A c \in Caller :
       call[c].at \in {"stop", "join", "start"} /\ call[c].op \in {"session", "secured"} =>
         ecu.session \in {call[c].want, Default}

Serial ==
  /\ ~crashed
  /\ OneByOne
  /\ ThreadHeld
  /\ Purpose
  /\ HeartbeatOff
  /\ HeartbeatPaired
  /\ ~dropped => EcuFollows

SessionInv == TypeOK /\ (~overlap => Serial)

(***************************************************************************)
(* Types.                                                                  *)
(***************************************************************************)

\* Within a call, what it is for stays the same.
SameCall(c) == call'[c].at # "idle" =>
  /\ call'[c].op = call[c].op
  /\ call'[c].at \notin Unlocking => call'[c].want = call[c].want

\* A step of one caller leaves the other calls alone.
LEMMA StepCall ==
  ASSUME call \in [Caller -> Calls], NEW c \in Caller,
         NEW op \in {"session", "secured", "revert", "settle"}, NEW want \in Types,
         NEW at \in Steps, Step(c, op, want, at)
  PROVE  /\ call' \in [Caller -> Calls]
         /\ \A d \in Caller \ {c} : call'[d] = call[d]
         /\ call'[c].at = at
         /\ at # "idle" => /\ call'[c].op = op
                           /\ at \notin Unlocking => call'[c].want = want
<1> DEFINE asked == IF at \in Unlocking THEN Default ELSE want
<1>1. NoCall \in Calls /\ asked \in Types /\ (at \notin Unlocking => asked = want)
  BY DEF NoCall, Calls, Steps, Types
<1>2. call' = [call EXCEPT ![c] = IF at = "idle" THEN NoCall
                                  ELSE [at |-> at, op |-> op, want |-> asked]]
  BY DEF Step
<1> HIDE DEF asked
<1>3. [at |-> at, op |-> op, want |-> asked] \in Calls
  BY <1>1 DEF Calls
<1>4. QED
  BY <1>1, <1>2, <1>3 DEF NoCall

LEMMA GotoCall ==
  ASSUME call \in [Caller -> Calls], NEW c \in Caller, NEW at \in Steps, Goto(c, at)
  PROVE  /\ call' \in [Caller -> Calls]
         /\ \A d \in Caller \ {c} : call'[d] = call[d]
         /\ call'[c].at = at
         /\ SameCall(c)
<1>1. call[c].op \in {"session", "secured", "revert", "settle"} /\ call[c].want \in Types
  BY DEF Calls
<1>2. QED
  BY <1>1, StepCall DEF Goto, SameCall

\* What the exchanges make of the ECU.
LEMMA EcuTypes ==
  ASSUME ecu \in Ecu
  PROVE  /\ Hears(ecu) \in Ecu /\ Hears(ecu).session = ecu.session
         /\ \A s \in Types : InSession(s) \in Ecu /\ InSession(s).session = s
         /\ \A c \in Caller : /\ [Hears(ecu) EXCEPT !.seedFor = {c}] \in Ecu
                              /\ [Hears(ecu) EXCEPT !.seedFor = {c}].session = ecu.session
         /\ [Hears(ecu) EXCEPT !.seedFor = {}, !.unlocked = TRUE] \in Ecu
         /\ [Hears(ecu) EXCEPT !.seedFor = {}, !.unlocked = TRUE].session = ecu.session
<1>1. 0 \in 0 .. S3Beats
  BY SessionManagerAssumption
<1>2. Hears(ecu) \in Ecu /\ Hears(ecu).session = ecu.session
  BY <1>1 DEF Ecu, Hears
<1>3. QED
  BY <1>2 DEF InSession, Ecu

\* The windows of a call, by where it goes and what the ECU becomes.
LEMMA Exchanged ==
  ASSUME TypeOK, NEW c \in Caller, NEW able \in BOOLEAN, NEW after \in Ecu, NEW ok \in Steps,
         NEW failed \in Steps, Exchange(c, able, after, ok, failed)
  PROVE  /\ call' \in [Caller -> Calls] /\ ecu' \in Ecu /\ dropped' \in BOOLEAN
         /\ \A d \in Caller \ {c} : call'[d] = call[d]
         /\ call'[c].at \in {ok, failed}
         /\ SameCall(c)
         /\ ~overlap /\ ~dropped' =>
              /\ ~dropped
              /\ \/ ecu' = after /\ call'[c].at = ok
                 \/ ecu'.session = ecu.session /\ call'[c].at = failed
         /\ UNCHANGED <<book, idle, running, thread, crashed, overlap>>
<1>1. call \in [Caller -> Calls] /\ ecu \in Ecu /\ dropped \in BOOLEAN
  BY DEF TypeOK
<1>2. /\ Goto(c, ok) \/ Goto(c, failed)
      /\ ecu' \in {ecu, Hears(ecu), after}
      /\ dropped' \in BOOLEAN
      /\ ~overlap /\ ~dropped' =>
           /\ ~dropped
           /\ (ecu' = after /\ Goto(c, ok)) \/ (ecu' = Hears(ecu) /\ Goto(c, failed))
      /\ UNCHANGED <<book, idle, running, thread, crashed, overlap>>
  BY <1>1 DEF Exchange
<1>3. ecu' \in Ecu
  BY <1>1, <1>2, EcuTypes
<1>4. Goto(c, ok) => call'[c].at = ok
  BY <1>1, GotoCall
<1>5. Goto(c, failed) => call'[c].at = failed
  BY <1>1, GotoCall
<1>6. /\ call' \in [Caller -> Calls]
      /\ \A d \in Caller \ {c} : call'[d] = call[d]
      /\ SameCall(c)
  BY <1>1, <1>2, GotoCall
<1>7. QED
  BY <1>1, <1>2, <1>3, <1>4, <1>5, <1>6, EcuTypes

\* The same of an exchange that would leave the ECU in a given session, and
\* of each exchange that a call makes.
Leaves(c, session, ok, failed) ==
  /\ call' \in [Caller -> Calls] /\ ecu' \in Ecu /\ dropped' \in BOOLEAN
  /\ \A d \in Caller \ {c} : call'[d] = call[d]
  /\ call'[c].at \in {ok, failed}
  /\ SameCall(c)
  /\ ~overlap /\ ~dropped' =>
       /\ ~dropped
       /\ \/ ecu'.session = session /\ call'[c].at = ok
          \/ ecu'.session = ecu.session /\ call'[c].at = failed
  /\ UNCHANGED <<book, idle, running, thread, crashed, overlap>>

LEMMA ExchangeLeaves ==
  ASSUME TypeOK, NEW c \in Caller
  PROVE  /\ Escalate(c)    => Leaves(c, call[c].want, "stop", "idle")
         /\ RequestSeed(c) => Leaves(c, ecu.session, "key", "idle")
         /\ SendKey(c)     => Leaves(c, ecu.session, "unlock", "idle")
         /\ SendRevert(c)  => Leaves(c, Default, "stop", "stop")
<1>1. {"stop", "idle", "key", "unlock"} \subseteq Steps
  BY DEF Steps
<1>2. ecu \in Ecu /\ call[c].want \in Types /\ Default \in Types
  BY DEF TypeOK, Calls, Types
<1>3. ASSUME NEW able \in BOOLEAN, NEW after \in Ecu, NEW session, after.session = session,
             NEW ok \in Steps, NEW failed \in Steps, Exchange(c, able, after, ok, failed)
      PROVE  Leaves(c, session, ok, failed)
  <2>1. /\ call' \in [Caller -> Calls] /\ ecu' \in Ecu /\ dropped' \in BOOLEAN
        /\ \A d \in Caller \ {c} : call'[d] = call[d]
        /\ call'[c].at \in {ok, failed}
        /\ SameCall(c)
        /\ ~overlap /\ ~dropped' =>
             /\ ~dropped
             /\ \/ ecu' = after /\ call'[c].at = ok
                \/ ecu'.session = ecu.session /\ call'[c].at = failed
        /\ UNCHANGED <<book, idle, running, thread, crashed, overlap>>
    BY Zenon, <1>3, Exchanged
  <2>2. ecu' = after => ecu'.session = session
    BY <1>3
  <2>3. QED
    BY Zenon, <2>1, <2>2 DEF Leaves
<1>4. Escalate(c) => Leaves(c, call[c].want, "stop", "idle")
  <2> DEFINE after == InSession(call[c].want)
  <2>1. after \in Ecu /\ after.session = call[c].want
    BY <1>2, EcuTypes
  <2>2. Escalate(c) => Exchange(c, TRUE, after, "stop", "idle")
    BY DEF Escalate
  <2> HIDE DEF after
  <2>3. QED
    BY <1>1, <1>3, <2>1, <2>2
<1>5. RequestSeed(c) => Leaves(c, ecu.session, "key", "idle")
  <2> DEFINE after == [Hears(ecu) EXCEPT !.seedFor = {c}]
             able == ecu.session # Default
  <2>1. after \in Ecu /\ after.session = ecu.session /\ able \in BOOLEAN
    BY <1>2, EcuTypes
  <2>2. RequestSeed(c) => Exchange(c, able, after, "key", "idle")
    BY DEF RequestSeed
  <2> HIDE DEF after, able
  <2>3. QED
    BY <1>1, <1>3, <2>1, <2>2
<1>6. SendKey(c) => Leaves(c, ecu.session, "unlock", "idle")
  <2> DEFINE after == [Hears(ecu) EXCEPT !.seedFor = {}, !.unlocked = TRUE]
             able == ecu.seedFor = {c}
  <2>1. after \in Ecu /\ after.session = ecu.session /\ able \in BOOLEAN
    BY <1>2, EcuTypes
  <2>2. SendKey(c) => Exchange(c, able, after, "unlock", "idle")
    BY DEF SendKey
  <2> HIDE DEF after, able
  <2>3. QED
    BY <1>1, <1>3, <2>1, <2>2
<1>7. SendRevert(c) => Leaves(c, Default, "stop", "stop")
  <2> DEFINE after == InSession(Default)
  <2>1. after \in Ecu /\ after.session = Default
    BY <1>2, EcuTypes
  <2>2. SendRevert(c) => Exchange(c, TRUE, after, "stop", "stop")
    BY DEF SendRevert
  <2> HIDE DEF after
  <2>3. QED
    BY <1>1, <1>3, <2>1, <2>2
<1>8. QED
  BY <1>4, <1>5, <1>6, <1>7

\* A call's own steps keep the types.
LEMMA ArriveTypes ==
  ASSUME TypeOK, NEW c \in Caller, Arrive(c)
  PROVE  TypeOK'
<1>1. /\ call \in [Caller -> Calls] /\ book \in Book /\ 0 \in 0 .. IdleBeats
      /\ overlap' \in BOOLEAN /\ dropped' \in BOOLEAN
  <2>1. Noted
    BY DEF Arrive, EnsureSession, SecureOnly, RevertToDefault
  <2>2. overlap' \in BOOLEAN /\ dropped' \in BOOLEAN
    BY Zenon, <2>1 DEF Noted, TypeOK
  <2>3. QED
    BY <2>2, SessionManagerAssumption DEF TypeOK
<1>2. ASSUME NEW op \in {"session", "secured"}, NEW want \in Types, EnsureSession(c, op, want)
      PROVE  TypeOK'
  <2>1. (IF book.type = want THEN AfterSession(op) ELSE "escalate") \in Steps
    BY DEF AfterSession, Steps
  <2>2. call' \in [Caller -> Calls]
    BY <1>1, <1>2, <2>1, StepCall DEF EnsureSession
  <2>3. QED
    BY <1>1, <1>2, <2>2 DEF EnsureSession, TypeOK
<1>3. CASE SecureOnly(c)
  <2>1. call' \in [Caller -> Calls]
    BY <1>1, <1>3, StepCall DEF SecureOnly, Types, Steps
  <2>2. QED
    BY <1>1, <1>3, <2>1 DEF SecureOnly, TypeOK
<1>4. CASE RevertToDefault(c)
  <2>1. call' \in [Caller -> Calls]
    BY <1>1, <1>4, StepCall DEF RevertToDefault, Types, Steps
  <2>2. QED
    BY <1>1, <1>4, <2>1 DEF RevertToDefault, TypeOK
<1>5. QED
  BY <1>2, <1>3, <1>4 DEF Arrive

\* What the next step of a call may be.
LEMMA NextSteps ==
  ASSUME NEW c \in Caller
  PROVE  /\ AfterStop(c) \in {"forget", "idle", "start"}
         /\ call[c].op \in {"session", "secured"} => AfterStop(c) = "start"
         /\ call[c].op = "revert" => AfterStop(c) = "forget"
         /\ call[c].op = "settle" => AfterStop(c) = "idle"
         /\ AfterSession(call[c].op) \in {"security", "idle"}
BY DEF AfterStop, AfterSession

LEMMA ProceedTypes ==
  ASSUME TypeOK, NEW c \in Caller, Proceed(c)
  PROVE  TypeOK'
<1>1. /\ call \in [Caller -> Calls] /\ book \in Book /\ ecu \in Ecu /\ thread \in Thread
      /\ idle \in 0 .. IdleBeats /\ 0 \in 0 .. IdleBeats /\ call[c].want \in Types
  BY SessionManagerAssumption DEF TypeOK, Calls
<1>2. AfterStop(c) \in Steps /\ AfterSession(call[c].op) \in Steps
  BY NextSteps DEF Steps
<1>3. CASE Escalate(c)
  BY <1>1, <1>3, ExchangeLeaves DEF Leaves, TypeOK
<1>4. CASE StopHeartbeat(c)
  <2>1. (IF thread.joinable THEN "join" ELSE AfterStop(c)) \in Steps
    BY <1>2 DEF Steps
  <2>2. call' \in [Caller -> Calls]
    BY <1>1, <1>4, <2>1, GotoCall DEF StopHeartbeat
  <2>3. QED
    BY <1>4, <2>2 DEF StopHeartbeat, TypeOK
<1>5. CASE JoinHeartbeat(c)
  <2>1. call' \in [Caller -> Calls]
    BY <1>1, <1>2, <1>5, GotoCall DEF JoinHeartbeat, Steps
  <2>2. thread' \in Thread
    BY <1>1, <1>5 DEF JoinHeartbeat, Thread, ThreadStates, Types
  <2>3. QED
    BY <1>5, <2>1, <2>2 DEF JoinHeartbeat, TypeOK
<1>6. CASE StartHeartbeat(c)
  <2>1. call' \in [Caller -> Calls]
    BY <1>1, <1>2, <1>6, GotoCall DEF StartHeartbeat
  <2>2. thread' \in Thread /\ book' \in Book /\ crashed' \in BOOLEAN
    BY <1>1, <1>6 DEF StartHeartbeat, Thread, ThreadStates, Book
  <2>3. QED
    BY <1>6, <2>1, <2>2 DEF StartHeartbeat, TypeOK
<1>7. CASE EnsureSecurityLevel(c)
  <2>1. (IF book.level = 1 THEN "idle" ELSE "seed") \in Steps
    BY DEF Steps
  <2>2. call' \in [Caller -> Calls]
    BY <1>1, <1>7, <2>1, GotoCall DEF EnsureSecurityLevel
  <2>3. QED
    BY <1>1, <1>7, <2>2 DEF EnsureSecurityLevel, TypeOK
<1>8. CASE RequestSeed(c)
  BY <1>1, <1>8, ExchangeLeaves DEF Leaves, TypeOK
<1>9. CASE SendKey(c)
  BY <1>1, <1>9, ExchangeLeaves DEF Leaves, TypeOK
<1>10. CASE RecordLevel(c)
  <2>1. call' \in [Caller -> Calls]
    BY <1>1, <1>10, GotoCall DEF RecordLevel, Steps
  <2>2. QED
    BY <1>1, <1>10, <2>1 DEF RecordLevel, TypeOK, Book
<1>11. CASE SendRevert(c)
  BY <1>1, <1>11, ExchangeLeaves DEF Leaves, TypeOK
<1>12. CASE ForgetSession(c)
  <2>1. call' \in [Caller -> Calls]
    BY <1>1, <1>12, GotoCall DEF ForgetSession, Steps
  <2>2. QED
    BY <1>1, <1>12, <2>1 DEF ForgetSession, TypeOK, Book, Types
<1>13. QED
  BY <1>3, <1>4, <1>5, <1>6, <1>7, <1>8, <1>9, <1>10, <1>11, <1>12 DEF Proceed

LEMMA HeartbeatTypes ==
  ASSUME TypeOK, HeartbeatLoop
  PROVE  TypeOK'
<1>1. CASE Wake
  <2>1. thread' \in Thread /\ running' \in BOOLEAN
    BY <1>1 DEF Wake, TypeOK, Thread, ThreadStates
  <2>2. book' \in Book
    BY <1>1 DEF Wake, TypeOK, Book, Types
  <2>3. QED
    BY <1>1, <2>1, <2>2 DEF Wake, TypeOK
<1>2. CASE Beat
  BY <1>2, EcuTypes DEF Beat, TypeOK, Thread, ThreadStates
<1>3. QED
  BY <1>1, <1>2 DEF HeartbeatLoop

LEMMA WorldTypes ==
  ASSUME TypeOK, Tick \/ EcuTimeout \/ OtherTraffic
  PROVE  TypeOK'
<1>1. CASE Tick
  <2>1. idle' \in 0 .. IdleBeats
    BY <1>1, SessionManagerAssumption DEF Tick, TypeOK
  <2>2. (IF ecu.session # Default /\ ecu.silence < S3Beats THEN ecu.silence + 1 ELSE ecu.silence)
          \in 0 .. S3Beats
    BY SessionManagerAssumption DEF TypeOK, Ecu
  <2>3. ecu' \in Ecu
    BY <1>1, <2>2 DEF Tick, TypeOK, Ecu
  <2>4. thread' \in Thread
    BY <1>1 DEF Tick, TypeOK, Thread
  <2>5. QED
    BY <1>1, <2>1, <2>3, <2>4 DEF Tick, TypeOK
<1>2. CASE EcuTimeout
  BY <1>2, EcuTypes DEF EcuTimeout, TypeOK, Types
<1>3. CASE OtherTraffic
  BY <1>3, EcuTypes DEF OtherTraffic, TypeOK
<1>4. QED
  BY <1>1, <1>2, <1>3

(***************************************************************************)
(* Calls that come one at a time.                                          *)
(***************************************************************************)

\* The one call in progress is all there is to look at: before its step ...
LEMMA OthersIdle ==
  ASSUME Serial, NEW c \in Caller, call[c].at # "idle" \/ Quiet,
         \A d \in Caller \ {c} : call'[d] = call[d]
  PROVE  /\ \A d \in Caller \ {c} : call[d].at = "idle" /\ call'[d].at = "idle"
         /\ call[c].at \notin {"join", "start", "forget"} =>
              /\ book.type # Default => running
              /\ running => thread.session = book.type
         /\ ~dropped /\ call[c].at \notin {"stop", "join", "start", "forget"} /\ book.type # Default =>
              ecu.session \in {book.type, Default}
<1>1. \A d \in Caller \ {c} : call[d].at = "idle" /\ call'[d].at = "idle"
  BY DEF Serial, OneByOne, Quiet
<1>2. QED
  BY <1>1 DEF Serial, HeartbeatPaired, EcuFollows

\* ... and after it.
LEMMA SerialOfOne ==
  ASSUME NEW c \in Caller, \A d \in Caller \ {c} : call'[d].at = "idle",
         ~crashed', ThreadHeld',
         call'[c].at # "idle" =>
           /\ call'[c].op = "settle" => book'.type = Default
           /\ call'[c].at = "start" => call'[c].op \in {"session", "secured"}
           /\ call'[c].at = "revert" => call'[c].op = "revert",
         call'[c].at \in {"join", "start", "forget"} => ~running',
         call'[c].at = "join" => thread'.joinable,
         call'[c].at \in {"start", "forget"} => ~thread'.joinable,
         call'[c].at \notin {"join", "start", "forget"} =>
           /\ book'.type # Default => running'
           /\ running' => thread'.session = book'.type,
         ~dropped' =>
           /\ call'[c].at \notin {"stop", "join", "start", "forget"} /\ book'.type # Default =>
                ecu'.session \in {book'.type, Default}
           /\ call'[c].at \in {"stop", "join", "start"} /\ call'[c].op \in {"session", "secured"} =>
                ecu'.session \in {call'[c].want, Default}
  PROVE  Serial'
<1>1. OneByOne'
  BY DEF OneByOne
<1>2. Purpose'
  BY DEF Purpose
<1>3. HeartbeatOff' /\ HeartbeatPaired'
  BY DEF HeartbeatOff, HeartbeatPaired
<1>4. ~dropped' => EcuFollows'
  BY DEF EcuFollows
<1>5. QED
  BY <1>1, <1>2, <1>3, <1>4 DEF Serial

LEMMA ArriveSerial ==
  ASSUME TypeOK, Serial, NEW c \in Caller, Arrive(c), ~overlap'
  PROVE  Serial'
<1>1. Quiet /\ call \in [Caller -> Calls] /\ call[c].at = "idle"
  BY DEF Arrive, EnsureSession, SecureOnly, RevertToDefault, Noted, TypeOK
<1>2. UNCHANGED <<running, thread, crashed, ecu, book>> /\ dropped' = (dropped /\ ~overlap')
  BY DEF Arrive, EnsureSession, SecureOnly, RevertToDefault, Noted
<1>3. ASSUME NEW op \in {"session", "secured", "revert", "settle"}, NEW want \in Types,
             NEW at \in Steps, Step(c, op, want, at),
             op = "settle" => book.type = Default,
             at \notin {"start", "join", "forget"},
             at = "revert" => op = "revert",
             at = "stop" => op = "settle"
      PROVE  Serial'
  <2>1. /\ \A d \in Caller \ {c} : call'[d] = call[d]
        /\ call'[c].at = at
        /\ at # "idle" => call'[c].op = op
    BY <1>1, <1>3, StepCall
  <2>2. /\ \A d \in Caller \ {c} : call'[d].at = "idle"
        /\ book.type # Default => running
        /\ running => thread.session = book.type
        /\ ~dropped /\ book.type # Default => ecu.session \in {book.type, Default}
    BY <1>1, <2>1, OthersIdle
  <2>3. ~crashed' /\ ThreadHeld'
    BY <1>2 DEF Serial, ThreadHeld
  <2>4. QED
    BY <1>2, <1>3, <2>1, <2>2, <2>3, SerialOfOne
<1>4. ASSUME NEW op \in {"session", "secured"}, NEW want \in Types, EnsureSession(c, op, want)
      PROVE  Serial'
  <2> DEFINE at == IF book.type = want THEN AfterSession(op) ELSE "escalate"
  <2>1. at \in {"security", "idle", "escalate"}
    BY DEF AfterSession
  <2>2. Step(c, op, want, at)
    BY <1>4 DEF EnsureSession
  <2> HIDE DEF at
  <2>3. QED
    BY <1>3, <2>1, <2>2 DEF Steps
<1>5. CASE RevertToDefault(c)
  BY <1>3, <1>5 DEF RevertToDefault, Steps, Types
<1>6. CASE SecureOnly(c)
  BY <1>3, <1>6 DEF SecureOnly, Steps, Types
<1>7. QED
  BY <1>4, <1>5, <1>6 DEF Arrive

\* A step within a call, wherever it goes: what is left to show is about
\* that call.
LEMMA ProceedSerial ==
  ASSUME TypeOK, Serial, NEW c \in Caller, Proceed(c), ~overlap
  PROVE  Serial'
<1>1. /\ call \in [Caller -> Calls] /\ ecu \in Ecu /\ book \in Book /\ call[c] \in Calls
      /\ call[c].at # "idle" /\ ~crashed
  BY DEF Proceed, TypeOK, Escalate, StopHeartbeat, JoinHeartbeat, StartHeartbeat,
    EnsureSecurityLevel, RequestSeed, SendKey, RecordLevel, SendRevert, ForgetSession
<1>2. /\ call[c].op = "settle" => book.type = Default
      /\ call[c].at = "start" => call[c].op \in {"session", "secured"}
      /\ call[c].at = "revert" => call[c].op = "revert"
      /\ call[c].at \in {"join", "start", "forget"} => ~running
      /\ call[c].at = "join" => thread.joinable
      /\ call[c].at \in {"start", "forget"} => ~thread.joinable
      /\ ~dropped /\ call[c].at \in {"stop", "join", "start"}
           /\ call[c].op \in {"session", "secured"} => ecu.session \in {call[c].want, Default}
      /\ thread.joinable <=> thread.state # "none"
      /\ running => thread.state \in {"sleep", "beat"}
  BY <1>1 DEF Serial, Purpose, HeartbeatOff, EcuFollows, ThreadHeld
<1>3. ASSUME \A d \in Caller \ {c} : call'[d] = call[d]
      PROVE  /\ \A d \in Caller \ {c} : call[d].at = "idle" /\ call'[d].at = "idle"
             /\ call[c].at \notin {"join", "start", "forget"} =>
                  /\ book.type # Default => running
                  /\ running => thread.session = book.type
             /\ ~dropped /\ call[c].at \notin {"stop", "join", "start", "forget"}
                  /\ book.type # Default => ecu.session \in {book.type, Default}
  BY <1>1, <1>3, OthersIdle
<1>4. ASSUME NEW ok \in Steps, NEW failed \in Steps,
             \A d \in Caller \ {c} : call'[d] = call[d], call'[c].at \in {ok, failed},
             SameCall(c),
             UNCHANGED <<book, idle, running, thread, crashed, overlap>>,
             call[c].at \notin {"stop", "join", "start", "forget"},
             {ok, failed} \subseteq {"idle", "stop", "key", "unlock"},
             ~dropped' => /\ ~dropped
                          /\ \/ /\ call'[c].at = ok
                                /\ \/ ecu'.session = ecu.session /\ ok # "stop"
                                   \/ /\ ok = "stop"
                                      /\ ecu'.session = call[c].want \/ call[c].op = "revert"
                             \/ /\ call'[c].at = failed /\ ecu'.session = ecu.session
                                /\ failed = "stop" => call[c].op = "revert"
      PROVE  Serial'
  <2>1. ThreadHeld' /\ ~crashed'
    BY <1>1, <1>4 DEF Serial, ThreadHeld
  <2>2. QED
    BY <1>2, <1>3, <1>4, <2>1, SerialOfOne DEF SameCall, Unlocking
<1>5. CASE Escalate(c)
  <2>1. /\ \A d \in Caller \ {c} : call'[d] = call[d]
        /\ call'[c].at \in {"stop", "idle"}
        /\ SameCall(c)
        /\ UNCHANGED <<book, idle, running, thread, crashed, overlap>>
        /\ ~dropped' => /\ ~dropped
                        /\ \/ call'[c].at = "stop" /\ ecu'.session = call[c].want
                           \/ call'[c].at = "idle" /\ ecu'.session = ecu.session
    BY <1>5, ExchangeLeaves DEF Leaves
  <2>2. QED
    BY <1>4, <1>5, <2>1 DEF Escalate, Steps
<1>6. CASE RequestSeed(c)
  <2>1. /\ \A d \in Caller \ {c} : call'[d] = call[d]
        /\ call'[c].at \in {"key", "idle"}
        /\ SameCall(c)
        /\ UNCHANGED <<book, idle, running, thread, crashed, overlap>>
        /\ ~dropped' => /\ ~dropped
                        /\ \/ call'[c].at = "key" /\ ecu'.session = ecu.session
                           \/ call'[c].at = "idle" /\ ecu'.session = ecu.session
    BY <1>6, ExchangeLeaves DEF Leaves
  <2>2. QED
    BY <1>4, <1>6, <2>1 DEF RequestSeed, Steps
<1>7. CASE SendKey(c)
  <2>1. /\ \A d \in Caller \ {c} : call'[d] = call[d]
        /\ call'[c].at \in {"unlock", "idle"}
        /\ SameCall(c)
        /\ UNCHANGED <<book, idle, running, thread, crashed, overlap>>
        /\ ~dropped' => /\ ~dropped
                        /\ \/ call'[c].at = "unlock" /\ ecu'.session = ecu.session
                           \/ call'[c].at = "idle" /\ ecu'.session = ecu.session
    BY <1>7, ExchangeLeaves DEF Leaves
  <2>2. QED
    BY <1>4, <1>7, <2>1 DEF SendKey, Steps
<1>8. CASE SendRevert(c)
  <2>1. /\ \A d \in Caller \ {c} : call'[d] = call[d]
        /\ call'[c].at \in {"stop", "stop"}
        /\ SameCall(c)
        /\ UNCHANGED <<book, idle, running, thread, crashed, overlap>>
        /\ ~dropped' => /\ ~dropped
                        /\ \/ call'[c].at = "stop" /\ ecu'.session = Default
                           \/ call'[c].at = "stop" /\ ecu'.session = ecu.session
    BY <1>8, ExchangeLeaves DEF Leaves
  <2>2. QED
    BY <1>2, <1>4, <1>8, <2>1 DEF SendRevert, Steps
<1>9. CASE StopHeartbeat(c)
  <2>1. (IF thread.joinable THEN "join" ELSE AfterStop(c)) \in Steps
    BY NextSteps DEF Steps
  <2>2. /\ \A d \in Caller \ {c} : call'[d] = call[d]
        /\ call'[c].at = IF thread.joinable THEN "join" ELSE AfterStop(c)
        /\ SameCall(c)
    BY <1>1, <1>9, <2>1, GotoCall DEF StopHeartbeat
  <2>3. ThreadHeld' /\ ~crashed' /\ ~running'
    BY <1>1, <1>2, <1>9 DEF StopHeartbeat, ThreadHeld
  <2>4. call[c].op \in {"session", "secured", "revert", "settle"}
    BY <1>1 DEF Calls
  <2>5. QED
    BY <1>2, <1>3, <1>9, <2>2, <2>3, <2>4, NextSteps, SerialOfOne DEF StopHeartbeat, SameCall, Unlocking
<1>10. CASE JoinHeartbeat(c)
  <2>1. /\ thread' = [thread EXCEPT !.state = "none", !.joinable = FALSE, !.session = Default]
        /\ Goto(c, AfterStop(c))
        /\ UNCHANGED <<book, idle, running, crashed, ecu, overlap, dropped>>
    BY <1>1, <1>2, <1>10 DEF JoinHeartbeat, Serial, OneByOne
  <2>2. /\ \A d \in Caller \ {c} : call'[d] = call[d]
        /\ call'[c].at = AfterStop(c)
        /\ SameCall(c)
    BY <1>1, <2>1, GotoCall, NextSteps DEF Steps
  <2>3. ThreadHeld' /\ ~crashed' /\ ~running' /\ ~thread'.joinable
    BY <1>1, <1>2, <1>10, <2>1 DEF JoinHeartbeat, ThreadHeld, TypeOK, Thread
  <2>4. call[c].op \in {"session", "secured", "revert", "settle"}
    BY <1>1 DEF Calls
  <2>5. QED
    BY <1>2, <1>3, <1>10, <2>1, <2>2, <2>3, <2>4, NextSteps, SerialOfOne DEF JoinHeartbeat, SameCall, Unlocking
<1>11. CASE StartHeartbeat(c)
  <2>1. /\ \A d \in Caller \ {c} : call'[d] = call[d]
        /\ call'[c].at = AfterSession(call[c].op)
        /\ SameCall(c)
    BY <1>1, <1>11, GotoCall, NextSteps DEF StartHeartbeat, Steps
  <2>2. /\ running' = TRUE /\ ThreadHeld' /\ ~crashed' /\ thread'.session = call[c].want
        /\ book'.type = call[c].want /\ ecu' = ecu /\ dropped' = dropped
    BY <1>1, <1>2, <1>11 DEF StartHeartbeat, ThreadHeld, Book
  <2>3. QED
    BY <1>2, <1>3, <1>11, <2>1, <2>2, NextSteps, SerialOfOne DEF StartHeartbeat, SameCall, Unlocking
<1>12. CASE EnsureSecurityLevel(c)
  <2>1. /\ \A d \in Caller \ {c} : call'[d] = call[d]
        /\ call'[c].at \in {"idle", "seed"}
        /\ SameCall(c)
    BY <1>1, <1>12, GotoCall DEF EnsureSecurityLevel, Steps
  <2>2. /\ UNCHANGED <<book, running, thread, crashed, ecu, dropped>>
        /\ ThreadHeld' /\ ~crashed'
    BY <1>1, <1>2, <1>12 DEF EnsureSecurityLevel, ThreadHeld
  <2>3. QED
    BY <1>2, <1>3, <1>12, <2>1, <2>2, SerialOfOne DEF EnsureSecurityLevel, SameCall
<1>13. CASE RecordLevel(c)
  <2>1. /\ \A d \in Caller \ {c} : call'[d] = call[d]
        /\ call'[c].at = "idle"
    BY <1>1, <1>13, GotoCall DEF RecordLevel, Steps
  <2>2. /\ UNCHANGED <<running, thread, crashed, ecu, dropped>> /\ book'.type = book.type
        /\ ThreadHeld' /\ ~crashed'
    BY <1>1, <1>2, <1>13 DEF RecordLevel, ThreadHeld, Book
  <2>3. QED
    BY <1>2, <1>3, <1>13, <2>1, <2>2, SerialOfOne DEF RecordLevel
<1>14. CASE ForgetSession(c)
  <2>1. /\ \A d \in Caller \ {c} : call'[d] = call[d]
        /\ call'[c].at = "idle"
    BY <1>1, <1>14, GotoCall DEF ForgetSession, Steps
  <2>2. /\ UNCHANGED <<running, thread, crashed, ecu, dropped>> /\ book'.type = Default
        /\ ThreadHeld' /\ ~crashed'
    BY <1>1, <1>2, <1>14 DEF ForgetSession, ThreadHeld
  <2>3. QED
    BY <1>2, <1>3, <1>14, <2>1, <2>2, SerialOfOne DEF ForgetSession
<1>15. QED
  BY <1>5, <1>6, <1>7, <1>8, <1>9, <1>10, <1>11, <1>12, <1>13, <1>14 DEF Proceed

\* The heartbeat gives the session up only together with its bookkeeping.
LEMMA HeartbeatSerial ==
  ASSUME TypeOK, Serial, HeartbeatLoop
  PROVE  Serial'
<1>1. /\ UNCHANGED <<call, crashed, dropped>> /\ thread \in Thread /\ book \in Book /\ ecu \in Ecu
  BY DEF HeartbeatLoop, Wake, Beat, TypeOK
<1>2. CASE Wake
  <2>1. ecu' = ecu /\ thread'.joinable = thread.joinable /\ thread'.session = thread.session
    BY <1>1, <1>2 DEF Wake, Thread
  <2>2. \/ UNCHANGED <<book, running>>
        \/ running /\ ~running' /\ book'.type = Default
    BY <1>2 DEF Wake
  <2>3. ThreadHeld'
    <3>1. thread'.state \in {"exited", "beat"} /\ (running' => thread'.state = "beat")
      <4>1. \A s : [thread EXCEPT !.state = s, !.rested = FALSE].state = s
        BY <1>1 DEF Thread
      <4>2. \/ ~running /\ running' = running /\ thread'.state = "exited"
            \/ running' = FALSE /\ thread'.state = "exited"
            \/ thread'.state = "beat"
        BY <1>2, <4>1 DEF Wake
      <4>3. QED
        BY <4>2
    <3>2. thread.joinable
      BY <1>2 DEF Wake, Serial, ThreadHeld
    <3>3. QED
      BY <2>1, <3>1, <3>2 DEF ThreadHeld
  <2>4. Purpose' /\ HeartbeatOff' /\ OneByOne'
    BY <1>1, <2>1, <2>2 DEF Serial, Purpose, HeartbeatOff, OneByOne
  <2>5. HeartbeatPaired'
    BY <1>1, <2>1, <2>2 DEF Serial, HeartbeatPaired
  <2>6. ~dropped' => EcuFollows'
    BY <1>1, <2>1, <2>2 DEF Serial, EcuFollows
  <2>7. QED
    BY <1>1, <2>3, <2>4, <2>5, <2>6 DEF Serial
<1>3. CASE Beat
  <2>1. /\ UNCHANGED <<book, running>> /\ thread'.joinable = thread.joinable
        /\ ecu'.session = ecu.session /\ thread'.session = thread.session
    BY <1>1, <1>3, EcuTypes DEF Beat, Thread
  <2>2. ThreadHeld'
    BY <1>1, <1>3 DEF Beat, Thread, Serial, ThreadHeld
  <2>3. Purpose' /\ HeartbeatOff' /\ OneByOne' /\ HeartbeatPaired' /\ (~dropped' => EcuFollows')
    BY <1>1, <2>1 DEF Serial, Purpose, HeartbeatOff, OneByOne, HeartbeatPaired, EcuFollows
  <2>4. QED
    BY <1>1, <2>2, <2>3 DEF Serial
<1>4. QED
  BY <1>2, <1>3 DEF HeartbeatLoop

\* Neither time nor the ECU changes more than the ECU's session to default.
LEMMA WorldSerial ==
  ASSUME TypeOK, Serial, Tick \/ EcuTimeout \/ OtherTraffic \/ UNCHANGED vars
  PROVE  Serial'
<1>1. /\ UNCHANGED <<call, crashed, dropped, book, running>>
      /\ thread'.joinable = thread.joinable /\ thread'.state = thread.state
      /\ thread'.session = thread.session
      /\ ecu'.session \in {ecu.session, Default}
  <2>1. thread \in Thread /\ ecu \in Ecu
    BY DEF TypeOK
  <2>2. CASE Tick
    BY <2>1, <2>2 DEF Tick, Thread, Ecu
  <2>3. CASE EcuTimeout
    BY <2>1, <2>3, EcuTypes DEF EcuTimeout, Types
  <2>4. CASE OtherTraffic
    BY <2>1, <2>4, EcuTypes DEF OtherTraffic
  <2>5. CASE UNCHANGED vars
    BY <2>5 DEF vars
  <2>6. QED
    BY <2>2, <2>3, <2>4, <2>5
<1>2. OneByOne' /\ ThreadHeld' /\ Purpose' /\ HeartbeatOff' /\ HeartbeatPaired'
  BY <1>1 DEF Serial, OneByOne, ThreadHeld, Purpose, HeartbeatOff, HeartbeatPaired
<1>3. ~dropped' => EcuFollows'
  BY <1>1 DEF Serial, EcuFollows
<1>4. QED
  BY <1>1, <1>2, <1>3 DEF Serial

(***************************************************************************)
(* The theorems.                                                           *)
(***************************************************************************)

LEMMA SessionInit == Init => SessionInv
<1> SUFFICES ASSUME Init PROVE SessionInv
  OBVIOUS
<1>1. TypeOK
  <2>1. 0 \in 0 .. IdleBeats /\ 0 \in 0 .. S3Beats
    BY SessionManagerAssumption
  <2>2. book \in Book /\ thread \in Thread
    BY DEF Init, Book, Thread, ThreadStates, Types
  <2>3. call \in [Caller -> Calls]
    BY DEF Init, Calls, Steps, NoCall, Types
  <2>4. ecu \in Ecu
    BY <2>1 DEF Init, Ecu, Types
  <2>5. QED
    BY <2>1, <2>2, <2>3, <2>4 DEF Init, TypeOK
<1>2. \A c \in Caller : call[c].at = "idle"
  BY DEF Init, NoCall
<1>3. Serial
  BY <1>2 DEF Init, Serial, OneByOne, ThreadHeld, Purpose, HeartbeatOff, HeartbeatPaired, EcuFollows
<1>4. QED
  BY <1>1, <1>3 DEF SessionInv

LEMMA SessionNext == SessionInv /\ [Next]_vars => SessionInv'
<1> SUFFICES ASSUME SessionInv, [Next]_vars PROVE SessionInv'
  OBVIOUS
<1>1. TypeOK /\ (~overlap => Serial)
  BY DEF SessionInv
<1>2. ASSUME NEW c \in Caller, Arrive(c) PROVE SessionInv'
  <2>1. ~overlap' => ~overlap
    BY <1>2 DEF Arrive, EnsureSession, SecureOnly, RevertToDefault, Noted
  <2>2. QED
    BY <1>1, <1>2, <2>1, ArriveTypes, ArriveSerial DEF SessionInv
<1>3. ASSUME NEW c \in Caller, Proceed(c) PROVE SessionInv'
  <2>1. overlap' = overlap
    BY <1>3 DEF Proceed, Exchange, Escalate, StopHeartbeat, JoinHeartbeat, StartHeartbeat,
      EnsureSecurityLevel, RequestSeed, SendKey, RecordLevel, SendRevert, ForgetSession
  <2>2. QED
    BY <1>1, <1>3, <2>1, ProceedTypes, ProceedSerial DEF SessionInv
<1>4. CASE HeartbeatLoop
  <2>1. overlap' = overlap
    BY <1>4 DEF HeartbeatLoop, Wake, Beat
  <2>2. QED
    BY <1>1, <1>4, <2>1, HeartbeatTypes, HeartbeatSerial DEF SessionInv
<1>5. CASE Tick \/ EcuTimeout \/ OtherTraffic
  <2>1. overlap' = overlap
    BY <1>5 DEF Tick, EcuTimeout, OtherTraffic
  <2>2. QED
    BY <1>1, <1>5, <2>1, WorldTypes, WorldSerial DEF SessionInv
<1>6. CASE UNCHANGED vars
  <2>1. TypeOK' /\ overlap' = overlap
    BY <1>1, <1>6 DEF vars, TypeOK
  <2>2. QED
    BY <1>1, <1>6, <2>1, WorldSerial DEF SessionInv
<1>7. QED
  BY <1>2, <1>3, <1>4, <1>5, <1>6 DEF Next

LEMMA SessionAlways == Spec => []SessionInv
BY SessionInit, SessionNext, PTL DEF Spec

\* However calls of session_manager.cpp and its heartbeat interleave, its
\* bookkeeping, its thread and every call are in a state the code names.
THEOREM SessionTypes == Spec => []TypeOK
<1>1. SessionInv => TypeOK
  BY DEF SessionInv
<1>2. QED
  BY <1>1, SessionAlways, PTL

\* ensure_session and revert_to_default, called one at a time, and the idle
\* timeout at any moment of theirs: a session other than the default one has
\* a heartbeat, and a heartbeat is always the recorded session's.
THEOREM HeartbeatFollowsSession == Spec => []HeartbeatMatchesSession
<1>1. SessionInv => HeartbeatMatchesSession
  <2> SUFFICES ASSUME Serial, Quiet
               PROVE  (book.type # Default => Beating) /\ (Beating => thread.session = book.type)
    BY DEF SessionInv, HeartbeatMatchesSession
  <2>1. QED
    BY DEF Serial, HeartbeatPaired, ThreadHeld, Beating, Quiet
<1>2. QED
  BY <1>1, SessionAlways, PTL

\* stop_heartbeat_locked joins whatever thread there is before
\* ensure_session assigns the next one, so std::terminate is not called.
THEOREM NeverTerminates == Spec => []NoTerminate
<1>1. SessionInv => NoTerminate
  BY DEF SessionInv, Serial, NoTerminate
<1>2. QED
  BY <1>1, SessionAlways, PTL

\* current_session_type_ is written only after the ECU confirmed, so it is
\* the ECU's session, or the ECU has fallen back to its default one.
THEOREM BookkeepingFollowsEcu == Spec => []BookkeepingMatchesEcu
<1>1. SessionInv => BookkeepingMatchesEcu
  <2> SUFFICES ASSUME Serial, Quiet, ~dropped, book.type # Default
               PROVE  ecu.session \in {book.type, Default}
    BY DEF SessionInv, BookkeepingMatchesEcu
  <2>1. QED
    BY DEF Serial, EcuFollows, Quiet
<1>2. QED
  BY <1>1, SessionAlways, PTL

=============================================================================
