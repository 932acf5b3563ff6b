--------------------------- MODULE DoipTransport ---------------------------
(***************************************************************************)
(* One UDS exchange at a time over one TCP connection to a DoIP gateway:   *)
(* adapters/uds_doip/src/doip_transport.cpp, driven by send_and_resolve of *)
(* uds_doip_adapter.cpp, which holds transport_mtx from its first line to  *)
(* its last.  The callers (worker threads and the heartbeat) therefore     *)
(* take turns, and are one sequence of exchanges here.                     *)
(*                                                                         *)
(* What an exchange does not take off the stream is there for the next     *)
(* one: a failed read neither closes the connection nor skips ahead.       *)
(* Frames are numbered by the request they answer; the code sees only      *)
(* their type and, in the decoders, what kind of request they answer.      *)
(* The gateway, the ECU and the network are external.                      *)
(***************************************************************************)
EXTENDS Naturals, Sequences

CONSTANTS Kind,         \* what requests ask for: service and DID
          MaxPending,   \* kMaxPendingAttempts
          MaxSent,      \* bound on the requests sent, for model checking
          MaxInbox      \* bound on the frames waiting, for model checking

ASSUME DoipTransportAssumption ==
  /\ MaxPending \in Nat
  /\ MaxSent \in Nat
  /\ MaxInbox \in Nat

VARIABLES
  link,       \* sock_: "none", or a connection that is "up" or "cut"
  at,         \* where the exchange in progress stands
  kind,       \* what the exchange in progress asks for
  attempts,   \* response-pending answers it has waited out
  asked,      \* the kind of every request sent, in order
  gateway,    \* the requests on their way to the gateway
  ecu,        \* the requests the gateway has passed on to the ECU
  inbox,      \* the frames in the socket, in order
  torn,       \* the next byte in the socket is not the first of a frame
  response,   \* the frame the last exchange returned, or NoFrame
  missed,     \* history: exchanges that sent a request and got no final answer
  clean       \* history: no exchange left, or may have left, a frame behind

outside == <<gateway, ecu>>
vars == <<link, at, kind, attempts, asked, gateway, ecu, inbox, torn, response,
          missed, clean>>

Requests == 1 .. MaxSent

\* A diagnostic message is an answer, a refusal (a negative response) or
\* "response pending" (the negative response 0x78).
Final == {"answer", "refusal"}
Messages == Final \cup {"pending"}
Acks == {"ack", "nack"}
Frame == [type : Messages \cup Acks, for : Requests]
NoFrame == [type |-> "none", for |-> 0]

Idle == at = "idle"
IsConnected == link # "none"
Sent == Len(asked)

Init ==
  /\ link = "none"
  /\ at = "idle"
  /\ kind \in Kind
  /\ attempts = 0
  /\ asked = <<>>
  /\ gateway = <<>>
  /\ ecu = <<>>
  /\ inbox = <<>>
  /\ torn = FALSE
  /\ response = NoFrame
  /\ missed = 0
  /\ clean = TRUE

\* send_and_resolve returns false, with (`spoils`) or without something of
\* this request still to arrive or half read.
Fail(spoils) ==
  /\ at' = "idle"
  /\ response' = NoFrame
  /\ missed' = missed + 1
  /\ clean' = (clean /\ ~spoils)

(***************************************************************************)
(* send_and_resolve and the transport under it.                            *)
(***************************************************************************)

Begin(k) ==
  /\ Idle
  /\ Sent < MaxSent
  /\ kind' = k
  /\ attempts' = 0
  /\ response' = NoFrame
  /\ at' = IF IsConnected THEN "send" ELSE "connect"
  /\ UNCHANGED <<link, asked, outside, inbox, torn, missed, clean>>

\* connect and the routing activation; any failure closes the socket again.
Connect ==
  /\ at = "connect"
  /\ \/ link' = "up" /\ at' = "send"
     \/ link' = "none" /\ at' = "idle"
  /\ UNCHANGED <<kind, attempts, asked, outside, inbox, torn, response, missed, clean>>

\* Mutation: the frame is written a second time.
SendTwice ==
  /\ at = "send"
  /\ link = "up"
  /\ asked' = Append(asked, kind)
  /\ gateway' = gateway \o <<Sent + 1, Sent + 1>>
  /\ at' = "ack"
  /\ UNCHANGED <<link, kind, attempts, ecu, inbox, torn, response, missed, clean>>

\* On a cut connection the first send may still succeed.
Send ==
  /\ at = "send"
  /\ \/ /\ asked' = Append(asked, kind)
        /\ gateway' = IF link = "up" THEN Append(gateway, Sent + 1) ELSE gateway
        /\ at' = "ack"
     \/ /\ link = "cut"
        /\ at' = "idle"
        /\ UNCHANGED <<asked, gateway>>
  /\ UNCHANGED <<link, kind, attempts, ecu, inbox, torn, response, missed, clean>>

\* The gateway's verdict on the request: a whole frame is read, whatever its
\* type, and an ack is not asked which request it is for.
ReadAck ==
  /\ at = "ack" /\ ~torn /\ inbox # <<>>
  /\ inbox' = Tail(inbox)
  /\ \/ /\ Head(inbox).type = "ack"
        /\ at' = "answer"
        /\ UNCHANGED <<response, missed, clean>>
     \/ Head(inbox).type = "nack" /\ Fail(FALSE)
     \/ Head(inbox).type \in Messages /\ Fail(TRUE)
  /\ UNCHANGED <<link, kind, attempts, asked, outside, torn>>

\* Mutation: one attempt too many.
PendingLeftAndOne == attempts <= MaxPending

PendingLeft == attempts < MaxPending

\* Mutation: the attempts are not counted.
ReadAnswerUncounted ==
  /\ at = "answer" /\ ~torn /\ inbox # <<>>
  /\ inbox' = Tail(inbox)
  /\ IF Head(inbox).type = "pending"
     THEN UNCHANGED <<at, response>>
     ELSE at' = "idle" /\ response' = Head(inbox)
  /\ UNCHANGED <<link, kind, attempts, asked, outside, torn, missed, clean>>

\* read_diagnostic_message, first from send_and_receive and then from
\* receive_pending_response.  A frame of another type is rejected on its
\* header, and its payload stays in the socket.
ReadAnswer ==
  /\ at = "answer" /\ ~torn /\ inbox # <<>>
  /\ inbox' = Tail(inbox)
  /\ \/ /\ Head(inbox).type = "pending" /\ PendingLeft
        /\ attempts' = attempts + 1
        /\ UNCHANGED <<at, torn, response, missed, clean>>
     \/ /\ Head(inbox).type = "pending" /\ ~PendingLeft      \* SOVD_BUSY
        /\ at' = "idle"
        /\ response' = Head(inbox)
        /\ missed' = missed + 1
        /\ clean' = FALSE
        /\ UNCHANGED <<attempts, torn>>
     \/ /\ Head(inbox).type \in Final
        /\ at' = "idle"
        /\ response' = Head(inbox)
        /\ UNCHANGED <<attempts, torn, missed, clean>>
     \/ /\ Head(inbox).type \in Acks
        /\ torn' = TRUE
        /\ Fail(TRUE)
        /\ UNCHANGED attempts
  /\ UNCHANGED <<link, kind, asked, outside>>

\* Inside a frame, the next eight bytes do not decode as a header; after
\* them the reader may or may not be back on the first byte of some frame.
ReadTorn ==
  /\ at \in {"ack", "answer"} /\ torn
  /\ \/ UNCHANGED <<inbox, torn>>
     \/ /\ torn' = FALSE
        /\ \E i \in 1 .. Len(inbox) + 1 : inbox' = SubSeq(inbox, i, Len(inbox))
  /\ Fail(TRUE)
  /\ UNCHANGED <<link, kind, attempts, asked, outside>>

\* Mutation: a request whose answer is late is sent again.
TimeoutResend ==
  /\ at \in {"ack", "answer"} /\ ~torn /\ inbox = <<>>
  /\ Sent < MaxSent
  /\ at' = "send"
  /\ UNCHANGED <<link, kind, attempts, asked, outside, inbox, torn, response, missed, clean>>

\* recv runs into SO_RCVTIMEO before the first byte of a frame ...
Timeout ==
  /\ at \in {"ack", "answer"} /\ ~torn /\ inbox = <<>> /\ link = "up"
  /\ Fail(TRUE)
  /\ UNCHANGED <<link, kind, attempts, asked, outside, inbox, torn>>

\* ... or in the middle of one.
TimeoutInFrame ==
  /\ at \in {"ack", "answer"} /\ ~torn /\ inbox # <<>>
  /\ inbox' = Tail(inbox)
  /\ torn' = TRUE
  /\ Fail(TRUE)
  /\ UNCHANGED <<link, kind, attempts, asked, outside>>

\* recv returns 0 once everything is read; the socket is not closed.
PeerClosed ==
  /\ at \in {"ack", "answer"} /\ inbox = <<>> /\ link = "cut"
  /\ Fail(FALSE)
  /\ UNCHANGED <<link, kind, attempts, asked, outside, inbox, torn>>

(***************************************************************************)
(* The other end: requests are acknowledged and answered in their order,   *)
(* as late as it pleases, or not at all.                                   *)
(***************************************************************************)

Deliver(type, n) == inbox' = Append(inbox, [type |-> type, for |-> n])

Acknowledge ==
  /\ gateway # <<>> /\ Len(inbox) < MaxInbox
  /\ gateway' = Tail(gateway)
  /\ \/ Deliver("ack", Head(gateway)) /\ ecu' = Append(ecu, Head(gateway))
     \/ Deliver("nack", Head(gateway)) /\ UNCHANGED ecu
     \/ UNCHANGED <<inbox, ecu>>
  /\ UNCHANGED <<link, at, kind, attempts, asked, torn, response, missed, clean>>

Answer ==
  /\ ecu # <<>> /\ Len(inbox) < MaxInbox
  /\ \/ \E type \in Final : Deliver(type, Head(ecu)) /\ ecu' = Tail(ecu)
     \/ Deliver("pending", Head(ecu)) /\ UNCHANGED ecu
     \/ ecu' = Tail(ecu) /\ UNCHANGED inbox
  /\ UNCHANGED <<link, at, kind, attempts, asked, gateway, torn, response, missed, clean>>

\* The gateway restarts, or the network drops the connection.
Cut ==
  /\ link = "up"
  /\ link' = "cut"
  /\ gateway' = <<>>
  /\ ecu' = <<>>
  /\ UNCHANGED <<at, kind, attempts, asked, inbox, torn, response, missed, clean>>

Exchange ==
  Connect \/ Send \/ ReadAck \/ ReadAnswer \/ ReadTorn \/ Timeout \/ TimeoutInFrame
    \/ PeerClosed

Next ==
  \/ \E k \in Kind : Begin(k)
  \/ Exchange
  \/ Acknowledge
  \/ Answer
  \/ Cut

Spec == Init /\ [][Next]_vars

\* The calling thread is scheduled, and its reads time out; the other end
\* owes nothing.
FairSpec == Spec /\ WF_vars(Exchange)

(***************************************************************************)
(* Properties.                                                             *)
(***************************************************************************)

\* kMaxPendingAttempts bounds the wait; at most one frame per exchange is
\* handed to the decoders.
TypeOK ==
  /\ link \in {"none", "up", "cut"}
  /\ at \in {"idle", "connect", "send", "ack", "answer"}
  /\ kind \in Kind
  /\ attempts \in 0 .. MaxPending
  /\ asked \in Seq(Kind) /\ Sent <= MaxSent
  /\ gateway \in Seq(Requests)
  /\ ecu \in Seq(Requests)
  /\ inbox \in Seq(Frame)
  /\ torn \in BOOLEAN
  /\ response \in Frame \cup {NoFrame}
  /\ missed \in 0 .. MaxSent
  /\ clean \in BOOLEAN

\* As long as every exchange has read its answer to the end, or was turned
\* down by a negative ack, a response is the response to the request it was
\* returned for, through any number of response-pending messages.
CleanAnswersMatch ==
  Idle /\ clean /\ response.type \in Final => response.for = Sent

\* After that the connection lags.  A response can belong to an earlier
\* request, but never by more places than exchanges were missed, however
\* acks, answers and half-read frames got mixed up since.
LagBounded ==
  Idle /\ response.type \in Final => response.for <= Sent /\ Sent - response.for <= missed

\* The requests an exchange can still be given a final answer to.
Outstanding ==
  {inbox[i].for : i \in {j \in DOMAIN inbox : inbox[j].type \in Final}}
    \cup {ecu[i] : i \in DOMAIN ecu} \cup {gateway[i] : i \in DOMAIN gateway}

\* But it never goes back: once an exchange has returned the answer to a
\* request, no later one is given that answer again, or one to a request
\* sent before it, although nothing in an answer says which request it is
\* to, and a reader that lost its place drops whatever it reads.
AnswersComeInOrder ==
  [][/\ Outstanding' \subseteq Outstanding \cup (Sent + 1 .. Sent')
     /\ response' # response /\ response'.type \in Final =>
          \A n \in Outstanding' : response'.for < n]_vars

\* No exchange hangs, and with it everybody waiting for transport_mtx: reads
\* time out, and an ECU that is perpetually pending is given up.
ExchangesReturn == ~Idle ~> Idle

\* doip_transport.hpp: send_and_receive "waits for the follow-up diagnostic
\* message carrying the actual UDS response bytes".  The decoders accept a
\* positive answer of the right kind, and after a timeout that can be the
\* late one to an earlier request for the same thing.
AcceptedAnswerIsFresh ==
  Idle /\ response.type = "answer" /\ asked[response.for] = kind => response.for = Sent

=============================================================================
