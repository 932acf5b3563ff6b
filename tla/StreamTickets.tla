--------------------------- MODULE StreamTickets ---------------------------
(***************************************************************************)
(* server/src/stream_ticket.cpp: single-use tickets that let a browser     *)
(* open an event stream without a bearer token.  issue and redeem hold     *)
(* mtx_ throughout.  The 128 random bits of a ticket are taken never to    *)
(* come up twice.  The distance to expires_at is kept in place of it, in   *)
(* units of TicketTtl.                                                     *)
(***************************************************************************)
EXTENDS Naturals, FiniteSets

CONSTANTS Ticket,                 \* the tickets there are to issue
          Item,                   \* entity path and data id
          TicketTtl,              \* kStreamTicketTtlSeconds
          MaxOutstandingTickets   \* kMaxOutstandingTickets

ASSUME StreamTicketsAssumption ==
  /\ TicketTtl \in Nat \ {0}
  /\ MaxOutstandingTickets \in Nat

VARIABLES tickets,    \* tickets_: what each outstanding ticket is good for
          issued      \* history: what each ticket was issued for

ticketVars == <<tickets, issued>>

Entry == [ticket : Ticket, item : Item, left : 0 .. TicketTtl]
Issued == [ticket : Ticket, item : Item]

TicketsInit == tickets = {} /\ issued = {}

SweepExpired == {x \in tickets : x.left > 0}

\* Mutation: the cap is off by one.
RoomForOneMore == Cardinality(SweepExpired) <= MaxOutstandingTickets

Room == Cardinality(SweepExpired) < MaxOutstandingTickets

Issue(t, i) ==
  /\ Room
  /\ \A x \in issued : x.ticket # t
  /\ tickets' = SweepExpired \cup {[ticket |-> t, item |-> i, left |-> TicketTtl]}
  /\ issued' = issued \cup {[ticket |-> t, item |-> i]}

\* The cap is reached, or there are no random bytes to be had.
IssueDenied ==
  /\ tickets' = SweepExpired
  /\ UNCHANGED issued

Good(t, i) == \E x \in tickets : x.ticket = t /\ x.item = i /\ x.left > 0

\* Mutation: a ticket is good until it expires.
RedeemKept(t, i) == UNCHANGED ticketVars

\* Any attempt uses the ticket up, whatever it was for.
Redeem(t, i) ==
  /\ tickets' = {x \in tickets : x.ticket # t}
  /\ UNCHANGED issued

TicketsTick ==
  /\ \E x \in tickets : x.left > 0
  /\ tickets' = {[x EXCEPT !.left = IF @ > 0 THEN @ - 1 ELSE 0] : x \in tickets}
  /\ UNCHANGED issued

TicketsTypeOK ==
  /\ tickets \in SUBSET Entry
  /\ issued \in SUBSET Issued

=============================================================================
