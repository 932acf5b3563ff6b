CONSTANTS
  w1 = w1
  w2 = w2
  i1 = i1
  i2 = i2
  p1 = p1
  p2 = p2
  t1 = t1
  t2 = t2
  None = None
  Bearer = Bearer
  Subscriber <- Workers
  Key <- Items
  Item <- Items
  Poller <- Pollers
  Ticket <- Tickets
  TicketTtl = 1
  MaxOutstandingTickets = 1

SPECIFICATION FairSpec

INVARIANT TypeOK
INVARIANT SubscribersPolled
INVARIANT OldPollersAreJoined
INVARIANT TicketsWithinCap
INVARIANT OneStreamPerTicket
PROPERTY JoinWaitsOneStep
PROPERTY DisconnectFreesWorker
PROPERTY StreamsKeepFlowing
