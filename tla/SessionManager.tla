--------------------------- MODULE SessionManager ---------------------------
(***************************************************************************)
(* adapters/uds_doip/src/session_manager.cpp: the UDS session of one ECU,  *)
(* with a heartbeat thread that keeps an escalated session alive, called   *)
(* from HTTP worker threads by write_data, execute_operation and set_mode  *)
(* of uds_doip_adapter.cpp.                                                *)
(*                                                                         *)
(* A section under mtx_ contains no blocking call, so it is one step; so   *)
(* is an exchange with the ECU, which send_and_resolve performs under      *)
(* transport_mtx.  Everything between two of them is a window: sending,    *)
(* clearing heartbeat_running_ and joining heartbeat_thread_ all happen    *)
(* with mtx_ released.                                                     *)
(*                                                                         *)
(* Time passes in heartbeat intervals.  The ECU is external: it drops to   *)
(* the default session when it has heard nothing for its S3 time, and      *)
(* forgets an unlocked security level on every change of session.          *)
(***************************************************************************)
EXTENDS Naturals, FiniteSets

CONSTANTS Caller,       \* worker threads that call into the adapter
          Sessions,     \* the session types other than the default one
          Default,      \* session type 0x01
          IdleBeats,    \* idle_timeout_ms, in heartbeat intervals
          S3Beats       \* the ECU's S3 time, in heartbeat intervals

ASSUME SessionManagerAssumption ==
  /\ Default \notin Sessions
  /\ IdleBeats \in Nat \ {0}
  /\ S3Beats \in Nat \ {0}

VARIABLES
  book,       \* current_session_type_ and current_security_level_
  idle,       \* heartbeat intervals since last_touch_
  running,    \* heartbeat_running_
  thread,     \* heartbeat_thread_ and the OS thread behind it
  call,       \* each caller's step and what it was asked for
  crashed,    \* std::terminate was called
  ecu,        \* the ECU's session, security and S3 timer
  overlap,    \* history: two calls were once in progress together
  dropped     \* history: before that, a request or an answer was once lost

vars == <<book, idle, running, thread, call, crashed, ecu, overlap, dropped>>

Types == Sessions \cup {Default}

\* One vtable call: set_mode and execute_operation ask for a session,
\* write_data for a session, a security level or both, set_mode("default")
\* reverts; "settle" is a revert that found nothing to revert.
Steps == {"idle", "escalate", "stop", "join", "start", "security", "seed", "key",
          "unlock", "revert", "forget"}

ThreadStates == {"none", "sleep", "beat", "exited"}

\* level is 0 or 1: one SecurityAccess level stands for all of them.
Calls == [at : Steps, op : {"session", "secured", "revert", "settle"}, want : Types]
Book == [type : Types, level : {0, 1}]
\* session is history: the type that was recorded when the thread was started.
Thread == [state : ThreadStates, joinable : BOOLEAN, rested : BOOLEAN, session : Types]
Ecu == [session : Types, unlocked : BOOLEAN, seedFor : SUBSET Caller,
        silence : 0 .. S3Beats]

NoCall == [at |-> "idle", op |-> "settle", want |-> Default]
Quiet == \A c \in Caller : call[c].at = "idle"

\* The steps of ensure_security_level: it does not matter any more what
\* session was asked for.
Unlocking == {"security", "seed", "key", "unlock"}

\* Caller c moves on within its call, or starts one, or ends it.
Step(c, op, want, at) ==
  call' = [call EXCEPT ![c] =
             IF at = "idle" THEN NoCall
             ELSE [at |-> at, op |-> op, want |-> IF at \in Unlocking THEN Default ELSE want]]
Goto(c, at) == Step(c, call[c].op, call[c].want, at)

\* The histories, as a call arrives: what was lost before calls overlapped
\* does not matter any more.
Noted ==
  /\ overlap' = (overlap \/ ~Quiet)
  /\ dropped' = (dropped /\ ~overlap')

Init ==
  /\ book = [type |-> Default, level |-> 0]
  /\ idle = 0
  /\ running = FALSE
  /\ thread = [state |-> "none", joinable |-> FALSE, rested |-> FALSE, session |-> Default]
  /\ call = [c \in Caller |-> NoCall]
  /\ crashed = FALSE
  /\ ecu = [session |-> Default, unlocked |-> FALSE, seedFor |-> {}, silence |-> 0]
  /\ overlap = FALSE
  /\ dropped = FALSE

(***************************************************************************)
(* One exchange of caller c through send_and_resolve.  Either the answer   *)
(* arrives, positive when the ECU is `able` to comply, or it is lost, and  *)
(* then the caller does not know whether the ECU acted on the request.     *)
(***************************************************************************)

\* The S3 timer runs in a non-default session and restarts on any request.
Hears(e) == [e EXCEPT !.silence = 0]

InSession(s) ==
  [Hears(ecu) EXCEPT !.session = s, !.unlocked = FALSE, !.seedFor = {}]

Exchange(c, able, after, ok, failed) ==
  /\ \/ able /\ ecu' = after /\ Goto(c, ok) /\ UNCHANGED dropped
     \/ ecu' = Hears(ecu) /\ Goto(c, failed) /\ UNCHANGED dropped
     \/ ecu' = ecu /\ Goto(c, failed) /\ dropped' = ~overlap
     \/ able /\ ecu' = after /\ Goto(c, failed) /\ dropped' = ~overlap
  /\ UNCHANGED <<book, idle, running, thread, crashed, overlap>>

(***************************************************************************)
(* ensure_session.                                                         *)
(***************************************************************************)

\* Once it has its session, a call is done or goes on to its security level.
AfterSession(op) == IF op = "secured" THEN "security" ELSE "idle"

\* A call arrives.  Under mtx_: touch, and look whether the session is
\* already the one asked for.
EnsureSession(c, op, want) ==
  /\ call[c].at = "idle"
  /\ idle' = 0
  /\ Step(c, op, want, IF book.type = want THEN AfterSession(op) ELSE "escalate")
  /\ Noted
  /\ UNCHANGED <<book, running, thread, crashed, ecu>>

\* Mutation: any answer to DiagnosticSessionControl will do.
EscalateUnconfirmed(c) ==
  /\ call[c].at = "escalate"
  /\ Exchange(c, TRUE, InSession(call[c].want), "stop", "stop")

Escalate(c) ==
  /\ call[c].at = "escalate"
  /\ Exchange(c, TRUE, InSession(call[c].want), "stop", "idle")

\* stop_heartbeat_locked is called by both operations; what follows it is
\* the start of the new heartbeat, or the end of the revert.
AfterStop(c) == CASE call[c].op = "revert" -> "forget"
                  [] call[c].op = "settle" -> "idle"
                  [] OTHER -> "start"

\* Mutation: nothing is done about a heartbeat that ended on its own.
StopIfRunning(c) ==
  /\ call[c].at = "stop"
  /\ running' = FALSE
  /\ Goto(c, IF running /\ thread.joinable THEN "join" ELSE AfterStop(c))
  /\ UNCHANGED <<book, idle, thread, crashed, ecu, overlap, dropped>>

\* stop_heartbeat_locked: clear the flag, look at joinable() ...
StopHeartbeat(c) ==
  /\ call[c].at = "stop"
  /\ running' = FALSE
  /\ Goto(c, IF thread.joinable THEN "join" ELSE AfterStop(c))
  /\ UNCHANGED <<book, idle, thread, crashed, ecu, overlap, dropped>>

\* ... and join.  When two callers got past joinable() together their joins
\* race: the loser's throws std::system_error, which leaves the vtable call
\* and ends the request.
JoinHeartbeat(c) ==
  /\ call[c].at = "join"
  /\ \/ /\ thread.joinable /\ thread.state = "exited"
        /\ thread' = [thread EXCEPT !.state = "none", !.joinable = FALSE, !.session = Default]
        /\ Goto(c, AfterStop(c))
     \/ /\ ~thread.joinable \/ \E d \in Caller \ {c} : call[d].at = "join"
        /\ Goto(c, "idle")
        /\ UNCHANGED thread
  /\ UNCHANGED <<book, idle, running, crashed, ecu, overlap, dropped>>

\* Under mtx_ again: record the session and start the heartbeat, also when
\* the session asked for is the default one.  Assigning to a std::thread
\* that is still joinable calls std::terminate.
StartHeartbeat(c) ==
  /\ call[c].at = "start"
  /\ book' = [book EXCEPT !.type = call[c].want]
  /\ running' = TRUE
  /\ crashed' = thread.joinable
  /\ thread' = [state |-> "sleep", joinable |-> TRUE, rested |-> FALSE, session |-> call[c].want]
  /\ Goto(c, AfterSession(call[c].op))
  /\ UNCHANGED <<idle, ecu, overlap, dropped>>

(***************************************************************************)
(* ensure_security_level: two exchanges, and the ECU accepts a key only    *)
(* for the seed it gave out last.                                          *)
(***************************************************************************)

\* A call arrives whose DID names a security level and no session.
SecureOnly(c) ==
  /\ call[c].at = "idle"
  /\ Step(c, "secured", Default, "security")
  /\ Noted
  /\ UNCHANGED <<book, idle, running, thread, crashed, ecu>>

EnsureSecurityLevel(c) ==
  /\ call[c].at = "security"
  /\ idle' = 0
  /\ Goto(c, IF book.level = 1 THEN "idle" ELSE "seed")
  /\ UNCHANGED <<book, running, thread, crashed, ecu, overlap, dropped>>

RequestSeed(c) ==
  /\ call[c].at = "seed"
  /\ Exchange(c, ecu.session # Default, [Hears(ecu) EXCEPT !.seedFor = {c}],
              "key", "idle")

SendKey(c) ==
  /\ call[c].at = "key"
  /\ Exchange(c, ecu.seedFor = {c},
              [Hears(ecu) EXCEPT !.seedFor = {}, !.unlocked = TRUE],
              "unlock", "idle")

\* Mutation: the sub-function of sendKey is recorded, not the level.
RecordSubFunction(c) ==
  /\ call[c].at = "unlock"
  /\ book' = [book EXCEPT !.level = 2]
  /\ Goto(c, "idle")
  /\ UNCHANGED <<idle, running, thread, crashed, ecu, overlap, dropped>>

RecordLevel(c) ==
  /\ call[c].at = "unlock"
  /\ book' = [book EXCEPT !.level = 1]
  /\ Goto(c, "idle")
  /\ UNCHANGED <<idle, running, thread, crashed, ecu, overlap, dropped>>

(***************************************************************************)
(* revert_to_default.                                                      *)
(***************************************************************************)

\* A call arrives.  With the bookkeeping already at default only the
\* defensive stop is left to do.
RevertToDefault(c) ==
  /\ call[c].at = "idle"
  /\ \/ book.type = Default /\ Step(c, "settle", Default, "stop")
     \/ book.type # Default /\ Step(c, "revert", Default, "revert")
  /\ Noted
  /\ UNCHANGED <<book, idle, running, thread, crashed, ecu>>

\* Mutation: the heartbeat is left running.
SendRevertOnly(c) ==
  /\ call[c].at = "revert"
  /\ Exchange(c, TRUE, InSession(Default), "forget", "forget")

\* The heartbeat is stopped whether or not the ECU confirms.
SendRevert(c) ==
  /\ call[c].at = "revert"
  /\ Exchange(c, TRUE, InSession(Default), "stop", "stop")

ForgetSession(c) ==
  /\ call[c].at = "forget"
  /\ book' = [type |-> Default, level |-> 0]
  /\ Goto(c, "idle")
  /\ UNCHANGED <<idle, running, thread, crashed, ecu, overlap, dropped>>

(***************************************************************************)
(* heartbeat_loop.                                                         *)
(***************************************************************************)

\* Mutation: the loop has no idle timeout.
WakeTireless ==
  /\ thread.state = "sleep" /\ thread.rested
  /\ thread' = [thread EXCEPT !.state = IF running THEN "beat" ELSE "exited",
                              !.rested = FALSE]
  /\ UNCHANGED <<book, idle, running, call, crashed, ecu, overlap, dropped>>

\* Under mtx_, after sleeping an interval: stop if told to, give the session
\* up if nobody has asked for it for too long, else go on to send.
Wake ==
  /\ thread.state = "sleep" /\ thread.rested
  /\ \/ /\ ~running
        /\ thread' = [thread EXCEPT !.state = "exited", !.rested = FALSE]
        /\ UNCHANGED <<book, running>>
     \/ /\ running /\ idle >= IdleBeats
        /\ book' = [type |-> Default, level |-> 0]
        /\ running' = FALSE
        /\ thread' = [thread EXCEPT !.state = "exited", !.rested = FALSE]
     \/ /\ running /\ idle < IdleBeats
        /\ thread' = [thread EXCEPT !.state = "beat", !.rested = FALSE]
        /\ UNCHANGED <<book, running>>
  /\ UNCHANGED <<idle, call, crashed, ecu, overlap, dropped>>

\* TesterPresent, whose answer nobody looks at, and the test of the while.
Beat ==
  /\ thread.state = "beat"
  /\ ecu' \in {ecu, Hears(ecu)}
  /\ thread' = [thread EXCEPT !.state = IF running THEN "sleep" ELSE "exited"]
  /\ UNCHANGED <<book, idle, running, call, crashed, overlap, dropped>>

(***************************************************************************)
(* Time and the ECU.                                                       *)
(***************************************************************************)

\* One heartbeat interval passes.
Tick ==
  /\ idle' = IF idle < IdleBeats THEN idle + 1 ELSE idle
  /\ thread' = [thread EXCEPT !.rested = @ \/ thread.state = "sleep"]
  /\ ecu' = [ecu EXCEPT !.silence =
                IF ecu.session # Default /\ @ < S3Beats THEN @ + 1 ELSE @]
  /\ UNCHANGED <<book, running, call, crashed, overlap, dropped>>

EcuTimeout ==
  /\ ecu.session # Default
  /\ ecu.silence = S3Beats
  /\ ecu' = InSession(Default)
  /\ UNCHANGED <<book, idle, running, thread, call, crashed, overlap, dropped>>

\* A request that never escalates (read_data, read_faults) reaches the ECU.
OtherTraffic ==
  /\ ~crashed
  /\ ecu' = Hears(ecu)
  /\ UNCHANGED <<book, idle, running, thread, call, crashed, overlap, dropped>>

\* set_mode("default") reverts, but requires_session: default in a catalog
\* goes to ensure_session like any other name.
Arrive(c) ==
  /\ ~crashed
  /\ \/ \E op \in {"session", "secured"}, want \in Types : EnsureSession(c, op, want)
     \/ SecureOnly(c)
     \/ RevertToDefault(c)

Proceed(c) ==
  /\ ~crashed
  /\ \/ Escalate(c)
     \/ StopHeartbeat(c)
     \/ JoinHeartbeat(c)
     \/ StartHeartbeat(c)
     \/ EnsureSecurityLevel(c)
     \/ RequestSeed(c)
     \/ SendKey(c)
     \/ RecordLevel(c)
     \/ SendRevert(c)
     \/ ForgetSession(c)

HeartbeatLoop == ~crashed /\ (Wake \/ Beat)

Next ==
  \/ \E c \in Caller : Arrive(c) \/ Proceed(c)
  \/ HeartbeatLoop
  \/ Tick
  \/ EcuTimeout
  \/ OtherTraffic

Spec == Init /\ [][Next]_vars

\* Threads are scheduled, time passes and the ECU's timer fires; nobody has
\* to make a call.
FairSpec ==
  /\ Spec
  /\ \A c \in Caller : WF_vars(Proceed(c))
  /\ WF_vars(HeartbeatLoop)
  /\ WF_vars(Tick)
  /\ WF_vars(EcuTimeout)

(***************************************************************************)
(* Properties.                                                             *)
(***************************************************************************)

TypeOK ==
  /\ book \in Book
  /\ idle \in 0 .. IdleBeats
  /\ running \in BOOLEAN
  /\ thread \in Thread
  /\ call \in [Caller -> Calls]
  /\ crashed \in BOOLEAN
  /\ ecu \in Ecu
  /\ overlap \in BOOLEAN
  /\ dropped \in BOOLEAN

Beating == running /\ thread.state \in {"sleep", "beat"}

\* The idle-timeout safety net: once the calls are over, an escalated
\* session has a heartbeat that will give it up when nobody touches it.  A
\* revert that finds nothing to revert still stops the heartbeat, and so
\* stops one that a concurrent ensure_session has just started.
EscalatedHasHeartbeat == Quiet /\ ~crashed /\ book.type # Default => Beating

\* As long as calls come one at a time: an escalated session has a heartbeat
\* to keep it alive and to give it up when idle, and no heartbeat outlives
\* the session it was started for, whichever of ensure_session,
\* revert_to_default and the idle timeout came last.  A heartbeat beside the
\* default session is one that ensure_session(0x01) started.
HeartbeatMatchesSession ==
  Quiet /\ ~overlap =>
    /\ book.type # Default => Beating
    /\ Beating => thread.session = book.type

\* As long as calls come one at a time, a joinable heartbeat_thread_ is
\* always joined before it is assigned to, also when the thread ended on
\* its own by the idle timeout.
NoTerminate == ~overlap => ~crashed

\* As long as calls come one at a time and no message is lost, the recorded
\* session is the ECU's, unless the ECU's own timer has ended it.
BookkeepingMatchesEcu ==
  Quiet /\ ~overlap /\ ~dropped /\ book.type # Default =>
    ecu.session \in {book.type, Default}

\* Calls that race, messages that are lost and crashes included: an ECU that
\* nobody talks to any more falls back to its default session, because no
\* heartbeat outlives the idle timeout.
AbandonedEcuReverts ==
  <>[][~OtherTraffic /\ \A c \in Caller : ~Arrive(c)]_vars => <>[](ecu.session = Default)

\* Once no more calls arrive, each one in progress returns, however they
\* raced.  A join runs outside mtx_ and can pick up a heartbeat that another
\* caller has started since; then nobody tells that heartbeat to stop, and
\* what ends the wait is the idle timeout.
CallsReturn ==
  <>[][\A c \in Caller : ~Arrive(c)]_vars => <>[](Quiet \/ crashed)

\* revert_to_default's comment and the test that clears the security level:
\* bookkeeping must not claim a level "against an ECU that no longer
\* agrees".  ensure_session changes the session and keeps the level.
SecurityLevelAgrees ==
  Quiet /\ ~overlap /\ ~dropped /\ book.level = 1 /\ ecu.session # Default =>
    ecu.unlocked

=============================================================================
