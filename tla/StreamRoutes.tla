---------------------------- MODULE StreamRoutes ----------------------------
(***************************************************************************)
(* server/src/routes_streams.cpp over the stream hub and the ticket store: *)
(* POST stream-ticket, and GET stream, which authorises the request by a   *)
(* bearer token or by a ticket, looks the entity up, subscribes, and then  *)
(* keeps its worker thread until the client has gone away.                 *)
(*                                                                         *)
(* OAuth2 is on.  A key of the hub is an item at an interval; intervals    *)
(* only split pollers further, and one stands for all of them.             *)
(***************************************************************************)
EXTENDS StreamHub, StreamTickets

CONSTANT Bearer     \* the pass of a request with a bearer token

ASSUME StreamRoutesAssumption ==
  /\ Item \subseteq Key
  /\ Bearer \notin Ticket

VARIABLES
  request,    \* the GET stream request each worker is serving
  gone,       \* the workers whose client has hung up
  opened      \* history: how often each ticket has been let through

vars == <<hubVars, ticketVars, request, gone, opened>>

Worker == Subscriber

NoRequest == [phase |-> "none"]
Request(phase, i, pass) == [phase |-> phase, item |-> i, pass |-> pass]
Requests == {NoRequest} \cup
  [phase : {"admitted", "stream"}, item : Item, pass : Ticket \cup {Bearer}]

Free(w) == request[w] = NoRequest /\ sub[w] = NoSub
Become(w, r) == request' = [request EXCEPT ![w] = r]

Init ==
  /\ HubInit
  /\ TicketsInit
  /\ request = [w \in Worker |-> NoRequest]
  /\ gone = {}
  /\ opened = [t \in Ticket |-> 0]

PostStreamTicket(w, i) ==
  /\ Free(w)
  /\ (\E t \in Ticket : Issue(t, i)) \/ IssueDenied
  /\ UNCHANGED <<hubVars, request, gone, opened>>

OpenWithBearer(w, i) ==
  /\ Free(w)
  /\ Become(w, Request("admitted", i, Bearer))
  /\ UNCHANGED <<hubVars, ticketVars, gone, opened>>

OpenWithTicket(w, i, t) ==
  /\ Free(w)
  /\ Redeem(t, i)
  /\ \/ /\ Good(t, i)
        /\ Become(w, Request("admitted", i, t))
        /\ opened' = [opened EXCEPT ![t] = IF @ < 2 THEN @ + 1 ELSE @]
     \/ ~Good(t, i) /\ UNCHANGED <<request, opened>>      \* 401
  /\ UNCHANGED <<hubVars, gone>>

\* 404 or 501: the entity is unknown, proxied or has no backend.
RejectStream(w) ==
  /\ request[w].phase = "admitted"
  /\ Become(w, NoRequest)
  /\ UNCHANGED <<hubVars, ticketVars, gone, opened>>

BeginStream(w) ==
  /\ request[w].phase = "admitted"
  /\ Subscribe(w, request[w].item)
  /\ Become(w, [request[w] EXCEPT !.phase = "stream"])
  /\ UNCHANGED <<ticketVars, gone, opened>>

\* One call of the content provider: wait_next returns, with a value or by
\* its timeout, and what is written next shows whether the client is there.
SendChunk(w) ==
  /\ request[w].phase = "stream"
  /\ \/ w \notin gone /\ WaitNext(w) /\ UNCHANGED <<request, gone>>
     \/ w \in gone /\ Release(w) /\ Become(w, NoRequest) /\ gone' = gone \ {w}
  /\ UNCHANGED <<ticketVars, opened>>

EndStream(w) == Join(w) /\ UNCHANGED <<ticketVars, request, gone, opened>>

Hangup(w) ==
  /\ request[w].phase = "stream"
  /\ gone' = gone \cup {w}
  /\ UNCHANGED <<hubVars, ticketVars, request, opened>>

Poll(p) == PollerStep(p) /\ UNCHANGED <<ticketVars, request, gone, opened>>

Tick == TicketsTick /\ UNCHANGED <<hubVars, request, gone, opened>>

Next ==
  \/ \E w \in Worker, i \in Item :
       \/ PostStreamTicket(w, i)
       \/ OpenWithBearer(w, i)
       \/ \E t \in Ticket : OpenWithTicket(w, i, t)
  \/ \E w \in Worker :
       RejectStream(w) \/ BeginStream(w) \/ SendChunk(w) \/ EndStream(w) \/ Hangup(w)
  \/ \E p \in Poller : Poll(p)
  \/ Tick

Spec == Init /\ [][Next]_vars

\* Threads are scheduled, read_fn returns (its exchange with the ECU times
\* out) and so does wait_next.  Clients need not ask, stay or leave.
FairSpec ==
  /\ Spec
  /\ \A w \in Worker : WF_vars(SendChunk(w)) /\ WF_vars(EndStream(w))
  /\ \A p \in Poller : WF_vars(Poll(p))

(***************************************************************************)
(* Properties.                                                             *)
(***************************************************************************)

TypeOK ==
  /\ HubTypeOK
  /\ TicketsTypeOK
  /\ request \in [Worker -> Requests]
  /\ gone \in SUBSET Worker
  /\ opened \in [Ticket -> 0 .. 2]

\* kMaxOutstandingTickets bounds the store although expired tickets stay in
\* it until the next issue.
TicketsWithinCap == Cardinality(tickets) <= MaxOutstandingTickets

\* A ticket opens one stream at most, however many requests present it, and
\* only a stream of the item it was issued for.
OneStreamPerTicket ==
  /\ \A t \in Ticket : opened[t] <= 1
  /\ \A w \in Worker :
       request[w] # NoRequest /\ request[w].pass # Bearer =>
         [ticket |-> request[w].pass, item |-> request[w].item] \in issued

\* stream_hub.hpp: "a client disconnect is noticed promptly".  The worker of
\* a client that hung up is free again, with the poller joined if it was the
\* last one listening.
DisconnectFreesWorker == \A w \in Worker : w \in gone ~> Free(w)

\* A client that stays is sent values for as long as it does, whoever else
\* comes and goes on the same item.
StreamsKeepFlowing ==
  \A w \in Worker :
    <>[](Streaming(w) /\ w \notin gone) => []<><<SendChunk(w)>>_vars

=============================================================================
