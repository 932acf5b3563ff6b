------------------------- MODULE StreamRoutesProofs -------------------------
(***************************************************************************)
(* Proofs about StreamRoutes, for any number of workers, items, pollers    *)
(* and tickets: the hub's pollers are shared, counted and joined exactly,  *)
(* and the ticket store keeps its cap and its single use.                  *)
(***************************************************************************)
EXTENDS StreamRoutes, FiniteSetTheorems, TLAPS

(***************************************************************************)
(* The inductive invariant of the hub, in the order of its argument.       *)
(***************************************************************************)

\* A PollerState without a thread has been freed.
ThreadsHeld == \A p \in Poller :
  poller[p] # Unused => poller[p].thread # "none" /\ poller[p].key \in Key

\* What the map refers to runs, under the key it is referred to by, and
\* counts its subscribers.
MappedCounted == \A p \in Poller, k \in Key : pollers[k] = p =>
  /\ poller[p].thread \in {"check", "read", "wait"}
  /\ ~poller[p].stop
  /\ poller[p].key = k
  /\ poller[p].count = Cardinality(Subscribers(p))
  /\ poller[p].count > 0

\* A subscriber's poller is the one that release will find by its key.
StreamingMapped == \A s \in Subscriber : Streaming(s) =>
  /\ sub[s].key \in Key
  /\ sub[s].poller \in Poller
  /\ pollers[sub[s].key] = sub[s].poller

\* Who joins a poller is the only one left to refer to it.
JoiningAlone == \A s \in Subscriber : Joining(s) =>
  /\ sub[s].poller \in Poller
  /\ poller[sub[s].poller] # Unused
  /\ \A k \in Key : pollers[k] # sub[s].poller
  /\ \A t \in Subscriber : Joining(t) /\ sub[t].poller = sub[s].poller => s = t

\* Every PollerState is referred to by the map or by who joins it.
NoneLost == \A p \in Poller : poller[p] # Unused =>
  \/ pollers[poller[p].key] = p
  \/ \E s \in Subscriber : Joining(s) /\ sub[s].poller = p

HubInv ==
  /\ HubTypeOK
  /\ ThreadsHeld
  /\ MappedCounted
  /\ StreamingMapped
  /\ JoiningAlone
  /\ NoneLost

(***************************************************************************)
(* The inductive invariant of the tickets.                                 *)
(***************************************************************************)

\* An outstanding ticket was issued for what it is good for.
OutstandingIssued == \A x \in tickets : [ticket |-> x.ticket, item |-> x.item] \in issued

\* A ticket that may still be redeemed, or issued, has opened nothing.
UnusedUnopened == \A t \in Ticket :
  /\ opened[t] <= 1
  /\ (\E x \in tickets : x.ticket = t) => opened[t] = 0
  /\ (\A x \in issued : x.ticket # t) => opened[t] = 0

\* A request let in by a ticket asks for the item of the ticket.
RequestsIssued == \A w \in Worker :
  request[w] # NoRequest /\ request[w].pass # Bearer =>
    [ticket |-> request[w].pass, item |-> request[w].item] \in issued

TicketsInv ==
  /\ TicketsTypeOK
  /\ IsFiniteSet(tickets)
  /\ TicketsWithinCap
  /\ OutstandingIssued
  /\ UnusedUnopened
  /\ RequestsIssued

RequestTypes ==
  /\ request \in [Worker -> Requests]
  /\ gone \in SUBSET Worker
  /\ opened \in [Ticket -> 0 .. 2]

StreamsInv == HubInv /\ TicketsInv /\ RequestTypes

(***************************************************************************)
(* The hub's actions.                                                      *)
(***************************************************************************)

\* Subscribers are finitely many, and one more or less is one more or less.
LEMMA SubscribersFinite ==
  ASSUME NEW p
  PROVE  /\ IsFiniteSet(Subscribers(p))
         /\ Cardinality(Subscribers(p)) \in Nat
         /\ Cardinality(Subscribers(p)) <= Cardinality(Subscriber)
         /\ IsFiniteSet(Subscribers(p)')
         /\ Cardinality(Subscribers(p)') \in Nat
         /\ Cardinality(Subscribers(p)') <= Cardinality(Subscriber)
<1>1. Subscribers(p) \subseteq Subscriber /\ Subscribers(p)' \subseteq Subscriber
  BY DEF Subscribers
<1>2. QED
  BY <1>1, FS_Subset, FS_CardinalityType, StreamHubAssumption

LEMMA ShareInv ==
  ASSUME HubInv, NEW s \in Subscriber, NEW k \in Key, sub[s] = NoSub, Share(s, k)
  PROVE  HubInv'
<1>1. PICK p \in Poller : p = pollers[k]
  BY DEF HubInv, HubTypeOK, Share
<1>2. /\ poller' = [poller EXCEPT ![p].count = @ + 1]
      /\ sub' = [sub EXCEPT ![s] = [at |-> "streaming", key |-> k, poller |-> p]]
      /\ pollers' = pollers
      /\ seen' \in SUBSET Subscriber
  BY <1>1 DEF HubInv, HubTypeOK, Share, Hold
<1>3. /\ poller \in [Poller -> PollerState] /\ sub \in [Subscriber -> Subscription]
      /\ pollers \in [Key -> Poller \cup {None}]
  BY DEF HubInv, HubTypeOK
<1>4. /\ poller' \in [Poller -> [thread : Threads, key : Key \cup {None}, count : Int,
                                 stop : BOOLEAN, published : BOOLEAN]]
      /\ \A q \in Poller :
           /\ poller'[q].thread = poller[q].thread /\ poller'[q].key = poller[q].key
           /\ poller'[q].stop = poller[q].stop
           /\ poller'[q].count = IF q = p THEN poller[p].count + 1 ELSE poller[q].count
           /\ q # p => poller'[q] = poller[q]
  BY <1>2, <1>3 DEF PollerState
<1>5. \A t \in Subscriber :
        sub'[t] = IF t = s THEN [at |-> "streaming", key |-> k, poller |-> p] ELSE sub[t]
  BY <1>2, <1>3
<1>6. /\ poller[p].thread \in {"check", "read", "wait"} /\ ~poller[p].stop
      /\ poller[p].key = k /\ poller[p].count = Cardinality(Subscribers(p))
  BY <1>1 DEF HubInv, MappedCounted
<1>7. /\ s \notin Subscribers(p) /\ Subscribers(p)' = Subscribers(p) \cup {s}
      /\ \A q \in Poller \ {p} : Subscribers(q)' = Subscribers(q)
  BY <1>5 DEF Subscribers, Streaming, NoSub
<1>8. /\ poller'[p].count = Cardinality(Subscribers(p)')
      /\ poller'[p].count \in 0 .. Cardinality(Subscriber) /\ poller'[p].count > 0
  <2>1. Cardinality(Subscribers(p)') = Cardinality(Subscribers(p)) + 1
    BY <1>7, SubscribersFinite, FS_AddElement
  <2>2. QED
    BY <2>1, <1>4, <1>6, SubscribersFinite, FS_CardinalityType, StreamHubAssumption
<1>9. HubTypeOK'
  <2>1. poller' \in [Poller -> PollerState]
    <3>1. \A q \in Poller : poller'[q].count \in 0 .. Cardinality(Subscriber)
      BY <1>3, <1>4, <1>8 DEF PollerState
    <3>2. QED
      BY <1>4, <3>1 DEF PollerState
  <2>2. sub' \in [Subscriber -> Subscription]
    BY <1>2, <1>3 DEF Subscription
  <2>3. QED
    BY <1>2, <1>3, <2>1, <2>2 DEF HubTypeOK
<1>10. ThreadsHeld'
  BY <1>4, <1>6 DEF HubInv, ThreadsHeld
<1>11. MappedCounted'
  <2> SUFFICES ASSUME NEW q \in Poller, NEW j \in Key, pollers[j] = q
               PROVE  /\ poller'[q].thread \in {"check", "read", "wait"} /\ ~poller'[q].stop
                      /\ poller'[q].key = j
                      /\ poller'[q].count = Cardinality(Subscribers(q)') /\ poller'[q].count > 0
    BY <1>2 DEF MappedCounted
  <2>1. /\ poller[q].thread \in {"check", "read", "wait"} /\ ~poller[q].stop
        /\ poller[q].key = j /\ poller[q].count = Cardinality(Subscribers(q)) /\ poller[q].count > 0
    BY DEF HubInv, MappedCounted
  <2>2. CASE q = p
    BY <2>1, <2>2, <1>4, <1>8
  <2>3. CASE q # p
    BY <2>1, <2>3, <1>4, <1>7
  <2>4. QED
    BY <2>2, <2>3
<1>12. StreamingMapped'
  BY <1>1, <1>2, <1>5 DEF HubInv, StreamingMapped, Streaming
<1>13. JoiningAlone'
  <2>1. \A t \in Subscriber : Joining(t)' => t # s /\ Joining(t) /\ sub'[t] = sub[t]
    BY <1>5 DEF Joining
  <2>2. \A t \in Subscriber : Joining(t)' => sub[t].poller # p
    BY <2>1, <1>1 DEF HubInv, JoiningAlone
  <2>3. QED
    BY <2>1, <2>2, <1>2, <1>4 DEF HubInv, JoiningAlone
<1>14. NoneLost'
  <2>1. \A t \in Subscriber : Joining(t) => Joining(t)' /\ sub'[t] = sub[t]
    BY <1>5 DEF Joining, NoSub
  <2>2. QED
    BY <2>1, <1>1, <1>2, <1>4, <1>6 DEF HubInv, NoneLost
<1>15. QED
  BY <1>9, <1>10, <1>11, <1>12, <1>13, <1>14 DEF HubInv

LEMMA StartInv ==
  ASSUME HubInv, NEW s \in Subscriber, NEW k \in Key, sub[s] = NoSub, Start(s, k)
  PROVE  HubInv'
<1> DEFINE new == [thread |-> "check", key |-> k, count |-> 1, stop |-> FALSE, published |-> FALSE]
<1>1. PICK p \in Poller :
        /\ poller[p] = Unused
        /\ poller' = [poller EXCEPT ![p] = new]
        /\ pollers' = [pollers EXCEPT ![k] = p]
        /\ sub' = [sub EXCEPT ![s] = [at |-> "streaming", key |-> k, poller |-> p]]
  BY DEF Start, Hold
<1>2. /\ poller \in [Poller -> PollerState] /\ sub \in [Subscriber -> Subscription]
      /\ pollers \in [Key -> Poller \cup {None}] /\ pollers[k] = None /\ None \notin Poller
      /\ seen' \in SUBSET Subscriber
  BY StreamHubAssumption DEF HubInv, HubTypeOK, Start
<1>3. /\ \A q \in Poller : poller'[q] = IF q = p THEN new ELSE poller[q]
      /\ \A j \in Key : pollers'[j] = IF j = k THEN p ELSE pollers[j]
      /\ \A t \in Subscriber :
           sub'[t] = IF t = s THEN [at |-> "streaming", key |-> k, poller |-> p] ELSE sub[t]
  BY <1>1, <1>2
<1>4. /\ \A j \in Key : pollers[j] # p
      /\ \A t \in Subscriber : Streaming(t) \/ Joining(t) => sub[t].poller # p
  <2>1. \A j \in Key : pollers[j] # p
    BY <1>1 DEF HubInv, MappedCounted, Unused
  <2>2. \A t \in Subscriber : Streaming(t) => sub[t].poller # p
    BY <2>1 DEF HubInv, StreamingMapped
  <2>3. \A t \in Subscriber : Joining(t) => sub[t].poller # p
    BY <1>1 DEF HubInv, JoiningAlone
  <2>4. QED
    BY <2>1, <2>2, <2>3
<1>5. /\ Subscribers(p)' = {s}
      /\ \A q \in Poller \ {p} : Subscribers(q)' = Subscribers(q)
  <2>1. Subscribers(p)' = {s}
    BY <1>3, <1>4 DEF Subscribers, Streaming
  <2>2. \A q \in Poller \ {p} : Subscribers(q)' = Subscribers(q)
    BY <1>3 DEF Subscribers, Streaming, NoSub
  <2>3. QED
    BY <2>1, <2>2
<1>6. Cardinality(Subscribers(p)') = 1 /\ 1 \in 0 .. Cardinality(Subscriber)
  <2>1. Cardinality(Subscribers(p)') = 1
    BY <1>5, FS_Singleton
  <2>2. QED
    BY <2>1, SubscribersFinite, FS_CardinalityType, StreamHubAssumption
<1>7. HubTypeOK'
  <2>1. new \in PollerState
    BY <1>6 DEF PollerState, Threads
  <2>2. poller' \in [Poller -> PollerState]
    BY <1>1, <1>2, <2>1
  <2>3. sub' \in [Subscriber -> Subscription]
    BY <1>1, <1>2 DEF Subscription
  <2>4. pollers' \in [Key -> Poller \cup {None}]
    BY <1>1, <1>2
  <2>5. QED
    BY <1>2, <2>2, <2>3, <2>4 DEF HubTypeOK
<1>8. ThreadsHeld'
  <2> SUFFICES ASSUME NEW q \in Poller, poller'[q] # Unused
               PROVE  poller'[q].thread # "none" /\ poller'[q].key \in Key
    BY DEF ThreadsHeld
  <2>1. QED
    BY <1>3 DEF HubInv, ThreadsHeld
<1>9. MappedCounted'
  <2> SUFFICES ASSUME NEW q \in Poller, NEW j \in Key, pollers'[j] = q
               PROVE  /\ poller'[q].thread \in {"check", "read", "wait"} /\ ~poller'[q].stop
                      /\ poller'[q].key = j
                      /\ poller'[q].count = Cardinality(Subscribers(q)') /\ poller'[q].count > 0
    BY DEF MappedCounted
  <2>1. CASE j = k
    BY <2>1, <1>3, <1>6
  <2>2. CASE j # k
    <3>1. q # p /\ pollers[j] = q
      BY <2>2, <1>3, <1>4
    <3>2. QED
      BY <3>1, <1>3, <1>5 DEF HubInv, MappedCounted
  <2>3. QED
    BY <2>1, <2>2
<1>10. StreamingMapped'
  <2> SUFFICES ASSUME NEW t \in Subscriber, Streaming(t)'
               PROVE  sub'[t].key \in Key /\ sub'[t].poller \in Poller /\ pollers'[sub'[t].key] = sub'[t].poller
    BY DEF StreamingMapped
  <2>1. CASE t = s
    BY <2>1, <1>3
  <2>2. CASE t # s
    BY <2>2, <1>2, <1>3 DEF HubInv, StreamingMapped, Streaming
  <2>3. QED
    BY <2>1, <2>2
<1>11. JoiningAlone'
  <2>1. \A t \in Subscriber : Joining(t)' => t # s /\ Joining(t) /\ sub'[t] = sub[t] /\ sub[t].poller # p
    BY <1>3, <1>4 DEF Joining
  <2>2. QED
    BY <2>1, <1>3 DEF HubInv, JoiningAlone
<1>12. NoneLost'
  <2> SUFFICES ASSUME NEW q \in Poller, poller'[q] # Unused
               PROVE  \/ pollers'[poller'[q].key] = q
                      \/ \E t \in Subscriber : Joining(t)' /\ sub'[t].poller = q
    BY DEF NoneLost
  <2>1. CASE q = p
    BY <2>1, <1>3
  <2>2. CASE q # p
    <3>1. poller'[q] = poller[q] /\ poller[q].key \in Key
      BY <2>2, <1>3 DEF HubInv, ThreadsHeld
    <3>2. CASE pollers[poller[q].key] = q
      BY <2>2, <3>1, <3>2, <1>2, <1>3
    <3>3. CASE \E t \in Subscriber : Joining(t) /\ sub[t].poller = q
      <4>1. PICK t \in Subscriber : Joining(t) /\ sub[t].poller = q
        BY <3>3
      <4>2. t # s
        BY <4>1 DEF Joining, NoSub
      <4>3. QED
        BY <4>1, <4>2, <1>3 DEF Joining
    <3>4. QED
      BY <3>1, <3>2, <3>3 DEF HubInv, NoneLost
  <2>3. QED
    BY <2>1, <2>2
<1>13. QED
  BY <1>7, <1>8, <1>9, <1>10, <1>11, <1>12 DEF HubInv

LEMMA WaitNextInv ==
  ASSUME HubInv, NEW s \in Subscriber, WaitNext(s)
  PROVE  HubInv'
<1>1. /\ pollers' = pollers /\ poller' = poller /\ sub' = sub
      /\ seen' \in SUBSET Subscriber
  BY DEF WaitNext, HubInv, HubTypeOK
<1>2. \A q : Subscribers(q)' = Subscribers(q)
  BY <1>1 DEF Subscribers, Streaming
<1>3. HubTypeOK' /\ ThreadsHeld'
  BY <1>1 DEF HubInv, HubTypeOK, ThreadsHeld
<1>4. MappedCounted'
  BY <1>1, <1>2 DEF HubInv, MappedCounted
<1>5. StreamingMapped'
  BY <1>1 DEF HubInv, StreamingMapped, Streaming
<1>6. JoiningAlone' /\ NoneLost'
  BY <1>1 DEF HubInv, JoiningAlone, NoneLost, Joining
<1>7. QED
  BY <1>3, <1>4, <1>5, <1>6 DEF HubInv

\* One subscriber fewer; whose poller is p.
LEMMA OneFewer ==
  ASSUME HubInv, NEW s \in Subscriber, Streaming(s), NEW p \in Poller, p = sub[s].poller
  PROVE  /\ sub[s].key \in Key /\ pollers[sub[s].key] = p
         /\ Cardinality(Subscribers(p) \ {s}) = poller[p].count - 1
         /\ Last(p) => Subscribers(p) = {s}
         /\ ~Last(p) => poller[p].count - 1 > 0
         /\ poller[p].count \in 1 .. Cardinality(Subscriber)
         /\ poller[p].count - 1 \in 0 .. Cardinality(Subscriber)
<1>1. sub[s].key \in Key /\ pollers[sub[s].key] = p
  BY DEF HubInv, StreamingMapped
<1>2. poller[p].count = Cardinality(Subscribers(p)) /\ s \in Subscribers(p)
  BY <1>1 DEF HubInv, MappedCounted, Subscribers
<1>3. /\ Cardinality(Subscribers(p) \ {s}) = poller[p].count - 1
      /\ IsFiniteSet(Subscribers(p) \ {s})
      /\ Cardinality(Subscribers(p) \ {s}) \in Nat
  BY <1>2, SubscribersFinite, FS_RemoveElement, FS_CardinalityType
<1>4. /\ poller[p].count \in 1 .. Cardinality(Subscriber)
      /\ poller[p].count - 1 \in 0 .. Cardinality(Subscriber)
  BY <1>2, <1>3, SubscribersFinite, FS_CardinalityType, StreamHubAssumption
<1>5. ASSUME Last(p) PROVE Subscribers(p) = {s}
  <2>1. Cardinality(Subscribers(p) \ {s}) = 0
    BY <1>3, <1>4, <1>5 DEF Last
  <2>2. Subscribers(p) \ {s} = {}
    BY <2>1, <1>3, FS_EmptySet
  <2>3. QED
    BY <2>2, <1>2
<1>6. QED
  BY <1>1, <1>3, <1>4, <1>5 DEF Last

LEMMA ReleaseInv ==
  ASSUME HubInv, NEW s \in Subscriber, Release(s)
  PROVE  HubInv'
<1>1. Streaming(s)
  BY DEF Release
<1>2. PICK p \in Poller : p = sub[s].poller
  BY <1>1 DEF HubInv, StreamingMapped
<1>3. PICK k \in Key : k = sub[s].key /\ pollers[k] = p
  BY <1>1, <1>2, OneFewer
<1>4. /\ poller \in [Poller -> PollerState] /\ sub \in [Subscriber -> Subscription]
      /\ pollers \in [Key -> Poller \cup {None}] /\ None \notin Poller
      /\ seen' \in SUBSET Subscriber
  BY StreamHubAssumption DEF HubInv, HubTypeOK, Release
<1>5. \A q \in Poller \ {p} : ~(s \in Subscribers(q)) /\ \A j \in Key : pollers[j] = q => j # k
  BY <1>2, <1>3 DEF Subscribers
<1>6. \A j \in Key : pollers[j] = p => j = k
  BY <1>3 DEF HubInv, MappedCounted
<1>7. \A t \in Subscriber : Joining(t) => sub[t].poller # p /\ t # s
  BY <1>1, <1>3 DEF HubInv, JoiningAlone, Joining, Streaming
<1>8. CASE Last(p)
  <2>1. /\ poller' = [poller EXCEPT ![p].count = @ - 1, ![p].stop = TRUE]
        /\ pollers' = [pollers EXCEPT ![k] = None]
        /\ sub' = [sub EXCEPT ![s].at = "joining", ![s].poller = p]
    BY <1>3, <1>8 DEF Release
  <2>2. /\ \A q \in Poller \ {p} : poller'[q] = poller[q]
        /\ poller'[p] = [poller[p] EXCEPT !.count = @ - 1, !.stop = TRUE]
        /\ \A j \in Key : pollers'[j] = IF j = k THEN None ELSE pollers[j]
        /\ \A t \in Subscriber \ {s} : sub'[t] = sub[t]
        /\ sub'[s].at = "joining" /\ sub'[s].poller = p /\ sub'[s] \in Subscription
    BY <2>1, <1>4 DEF Subscription
  <2>3. Subscribers(p) = {s} /\ poller[p].count - 1 \in 0 .. Cardinality(Subscriber)
    BY <1>1, <1>2, <1>8, OneFewer
  <2>4. \A q \in Poller \ {p} : Subscribers(q)' = Subscribers(q)
    BY <2>2, <1>5 DEF Subscribers, Streaming
  <2>5. poller'[p] \in PollerState
    <3>1. poller[p] \in PollerState
      BY <1>4
    <3>2. QED
      BY <3>1, <2>2, <2>3 DEF PollerState
  <2>6. HubTypeOK'
    <3>1. poller' \in [Poller -> PollerState]
      BY <2>1, <2>2, <2>5, <1>4
    <3>2. sub' \in [Subscriber -> Subscription]
      BY <2>1, <2>2, <1>4
    <3>3. QED
      BY <3>1, <3>2, <2>1, <1>4 DEF HubTypeOK
  <2>7. /\ poller'[p].thread = poller[p].thread /\ poller'[p].key = k
        /\ poller'[p].thread # "none"
    BY <2>2, <1>3, <1>4 DEF HubInv, MappedCounted, PollerState
  <2>8. ThreadsHeld'
    BY <2>2, <2>7 DEF HubInv, ThreadsHeld
  <2>9. MappedCounted'
    <3> SUFFICES ASSUME NEW q \in Poller, NEW j \in Key, pollers'[j] = q
                 PROVE  /\ poller'[q].thread \in {"check", "read", "wait"} /\ ~poller'[q].stop
                        /\ poller'[q].key = j
                        /\ poller'[q].count = Cardinality(Subscribers(q)') /\ poller'[q].count > 0
      BY DEF MappedCounted
    <3>1. j # k /\ pollers[j] = q /\ q # p
      BY <2>2, <1>4, <1>6
    <3>2. QED
      BY <3>1, <2>2, <2>4 DEF HubInv, MappedCounted
  <2>10. StreamingMapped'
    <3> SUFFICES ASSUME NEW t \in Subscriber, Streaming(t)'
                 PROVE  sub'[t].key \in Key /\ sub'[t].poller \in Poller /\ pollers'[sub'[t].key] = sub'[t].poller
      BY DEF StreamingMapped
    <3>1. t # s /\ Streaming(t) /\ sub'[t] = sub[t]
      BY <2>2 DEF Streaming
    <3>2. sub[t].poller # p
      BY <3>1, <2>3 DEF Subscribers
    <3>3. QED
      BY <3>1, <3>2, <2>2, <1>3 DEF HubInv, StreamingMapped
  <2>11. JoiningAlone'
    <3>1. \A t \in Subscriber \ {s} : Joining(t)' => Joining(t) /\ sub'[t] = sub[t] /\ sub[t].poller # p
      BY <2>2, <1>7 DEF Joining
    <3>2. ASSUME NEW t \in Subscriber, Joining(t)'
          PROVE  /\ sub'[t].poller \in Poller /\ poller'[sub'[t].poller] # Unused
                 /\ \A j \in Key : pollers'[j] # sub'[t].poller
      <4>1. CASE t = s
        <5>1. poller'[p] # Unused
          BY <2>7 DEF Unused
        <5>2. \A j \in Key : pollers'[j] # p
          BY <2>2, <1>4, <1>6
        <5>3. QED
          BY <4>1, <5>1, <5>2, <2>2
      <4>2. CASE t # s
        BY <4>2, <3>1, <3>2, <2>2, <1>4 DEF HubInv, JoiningAlone
      <4>3. QED
        BY <4>1, <4>2
    <3>3. ASSUME NEW t \in Subscriber, NEW u \in Subscriber, Joining(t)', Joining(u)',
                 sub'[u].poller = sub'[t].poller
          PROVE  t = u
      BY <3>1, <3>3, <2>2 DEF HubInv, JoiningAlone
    <3>4. QED
      BY <3>2, <3>3 DEF JoiningAlone
  <2>12. NoneLost'
    <3> SUFFICES ASSUME NEW q \in Poller, poller'[q] # Unused
                 PROVE  \/ pollers'[poller'[q].key] = q
                        \/ \E t \in Subscriber : Joining(t)' /\ sub'[t].poller = q
      BY DEF NoneLost
    <3>1. CASE q = p
      BY <3>1, <2>2 DEF Joining
    <3>2. CASE q # p
      <4>1. poller'[q] = poller[q] /\ poller[q].key \in Key
        BY <3>2, <2>2 DEF HubInv, ThreadsHeld
      <4>2. CASE pollers[poller[q].key] = q
        BY <3>2, <4>1, <4>2, <2>2, <1>3
      <4>3. CASE \E t \in Subscriber : Joining(t) /\ sub[t].poller = q
        BY <4>3, <2>2, <1>7 DEF Joining
      <4>4. QED
        BY <4>1, <4>2, <4>3 DEF HubInv, NoneLost
    <3>3. QED
      BY <3>1, <3>2
  <2>13. QED
    BY <2>6, <2>8, <2>9, <2>10, <2>11, <2>12 DEF HubInv
<1>9. CASE ~Last(p)
  <2>1. /\ poller' = [poller EXCEPT ![p].count = @ - 1]
        /\ pollers' = pollers
        /\ sub' = [sub EXCEPT ![s] = NoSub]
    BY <1>3, <1>9 DEF Release
  <2>2. /\ \A q \in Poller \ {p} : poller'[q] = poller[q]
        /\ poller'[p] = [poller[p] EXCEPT !.count = @ - 1]
        /\ \A t \in Subscriber : sub'[t] = IF t = s THEN NoSub ELSE sub[t]
    BY <2>1, <1>4
  <2>3. /\ poller[p].count - 1 \in 0 .. Cardinality(Subscriber) /\ poller[p].count - 1 > 0
        /\ Cardinality(Subscribers(p) \ {s}) = poller[p].count - 1
    BY <1>1, <1>2, <1>9, OneFewer
  <2>4. /\ \A q \in Poller \ {p} : Subscribers(q)' = Subscribers(q)
        /\ Subscribers(p)' = Subscribers(p) \ {s}
    BY <2>2, <1>5 DEF Subscribers, Streaming, NoSub
  <2>5. /\ poller'[p] \in PollerState /\ poller'[p].count = poller[p].count - 1
        /\ poller'[p].thread = poller[p].thread /\ poller'[p].key = poller[p].key
        /\ poller'[p].stop = poller[p].stop
    <3>1. poller[p] \in PollerState
      BY <1>4
    <3>2. QED
      BY <3>1, <2>2, <2>3 DEF PollerState
  <2>6. HubTypeOK'
    <3>1. poller' \in [Poller -> PollerState]
      BY <2>1, <2>2, <2>5, <1>4
    <3>2. sub' \in [Subscriber -> Subscription]
      BY <2>1, <2>2, <1>4 DEF Subscription, NoSub
    <3>3. QED
      BY <3>1, <3>2, <2>1, <1>4 DEF HubTypeOK
  <2>7. ThreadsHeld'
    <3>1. poller[p].thread # "none" /\ poller[p].key \in Key
      BY <1>3 DEF HubInv, MappedCounted
    <3>2. QED
      BY <3>1, <2>2, <2>5 DEF HubInv, ThreadsHeld
  <2>8. MappedCounted'
    <3> SUFFICES ASSUME NEW q \in Poller, NEW j \in Key, pollers[j] = q
                 PROVE  /\ poller'[q].thread \in {"check", "read", "wait"} /\ ~poller'[q].stop
                        /\ poller'[q].key = j
                        /\ poller'[q].count = Cardinality(Subscribers(q)') /\ poller'[q].count > 0
      BY <2>1 DEF MappedCounted
    <3>1. CASE q = p
      BY <3>1, <2>3, <2>4, <2>5 DEF HubInv, MappedCounted
    <3>2. CASE q # p
      BY <3>2, <2>2, <2>4 DEF HubInv, MappedCounted
    <3>3. QED
      BY <3>1, <3>2
  <2>9. StreamingMapped'
    BY <2>1, <2>2 DEF HubInv, StreamingMapped, Streaming, NoSub
  <2>10. \A t \in Subscriber : (Joining(t)' <=> Joining(t)) /\ (Joining(t) => sub'[t] = sub[t])
    BY <2>2, <1>7 DEF Joining, NoSub
  <2>11. JoiningAlone'
    <3>1. \A t \in Subscriber : Joining(t) => sub'[t].poller \in Poller /\ sub'[t].poller # p
      BY <2>10, <1>7 DEF HubInv, JoiningAlone
    <3>2. QED
      BY <3>1, <2>10, <2>1, <2>2 DEF HubInv, JoiningAlone
  <2>12. NoneLost'
    <3>1. pollers'[poller'[p].key] = p
      BY <2>1, <2>5, <1>3 DEF HubInv, MappedCounted
    <3>2. QED
      BY <3>1, <2>1, <2>2, <2>10 DEF HubInv, NoneLost
  <2>13. QED
    BY <2>6, <2>7, <2>8, <2>9, <2>11, <2>12 DEF HubInv
<1>10. QED
  BY <1>8, <1>9

LEMMA JoinInv ==
  ASSUME HubInv, NEW s \in Subscriber, Join(s)
  PROVE  HubInv'
<1>1. PICK p \in Poller : p = sub[s].poller
  BY DEF Join, HubInv, JoiningAlone
<1>2. /\ poller \in [Poller -> PollerState] /\ sub \in [Subscriber -> Subscription]
      /\ pollers \in [Key -> Poller \cup {None}]
      /\ pollers' = pollers /\ seen' = seen
      /\ poller' = [poller EXCEPT ![p] = Unused] /\ sub' = [sub EXCEPT ![s] = NoSub]
  BY <1>1 DEF HubInv, HubTypeOK, Join
<1>3. /\ \A q \in Poller : poller'[q] = IF q = p THEN Unused ELSE poller[q]
      /\ \A t \in Subscriber : sub'[t] = IF t = s THEN NoSub ELSE sub[t]
  BY <1>2
<1>4. /\ Joining(s) /\ \A j \in Key : pollers[j] # p
      /\ \A t \in Subscriber \ {s} : Joining(t) => sub[t].poller # p
  BY <1>1 DEF Join, HubInv, JoiningAlone
<1>5. \A q \in Poller : Subscribers(q)' = Subscribers(q)
  BY <1>3, <1>4 DEF Subscribers, Streaming, Joining, NoSub
<1>6. HubTypeOK'
  <2>1. Unused \in PollerState
    <3>1. 0 \in 0 .. Cardinality(Subscriber)
      BY FS_CardinalityType, StreamHubAssumption
    <3>2. QED
      BY <3>1 DEF Unused, PollerState, Threads
  <2>2. NoSub \in Subscription
    BY DEF NoSub, Subscription
  <2>3. QED
    BY <2>1, <2>2, <1>2 DEF HubInv, HubTypeOK
<1>7. ThreadsHeld'
  BY <1>3 DEF HubInv, ThreadsHeld
<1>8. MappedCounted'
  <2> SUFFICES ASSUME NEW q \in Poller, NEW j \in Key, pollers[j] = q
               PROVE  /\ poller'[q].thread \in {"check", "read", "wait"} /\ ~poller'[q].stop
                      /\ poller'[q].key = j
                      /\ poller'[q].count = Cardinality(Subscribers(q)') /\ poller'[q].count > 0
    BY <1>2 DEF MappedCounted
  <2>1. QED
    BY <1>3, <1>4, <1>5 DEF HubInv, MappedCounted
<1>9. StreamingMapped'
  BY <1>2, <1>3 DEF HubInv, StreamingMapped, Streaming, NoSub
<1>10. \A t \in Subscriber : Joining(t)' => t # s /\ Joining(t) /\ sub'[t] = sub[t] /\ sub[t].poller # p
  BY <1>3, <1>4 DEF Joining, NoSub
<1>11. JoiningAlone'
  BY <1>10, <1>2, <1>3 DEF HubInv, JoiningAlone
<1>12. NoneLost'
  <2> SUFFICES ASSUME NEW q \in Poller, poller'[q] # Unused
               PROVE  \/ pollers'[poller'[q].key] = q
                      \/ \E t \in Subscriber : Joining(t)' /\ sub'[t].poller = q
    BY DEF NoneLost
  <2>1. q # p /\ poller'[q] = poller[q]
    BY <1>3
  <2>2. ASSUME NEW t \in Subscriber, Joining(t), sub[t].poller = q
        PROVE  Joining(t)' /\ sub'[t].poller = q
    BY <2>1, <2>2, <1>1, <1>3 DEF Joining
  <2>3. QED
    BY <2>1, <2>2, <1>2 DEF HubInv, NoneLost
<1>13. QED
  BY <1>6, <1>7, <1>8, <1>9, <1>11, <1>12 DEF HubInv

\* The thread moves on; one that was told to stop ends, and no other.
LEMMA PollerStepInv ==
  ASSUME HubInv, NEW p \in Poller, PollerStep(p)
  PROVE  HubInv'
<1>1. /\ poller \in [Poller -> PollerState] /\ sub \in [Subscriber -> Subscription]
      /\ pollers \in [Key -> Poller \cup {None}] /\ seen \in SUBSET Subscriber
  BY DEF HubInv, HubTypeOK
<1>2. /\ pollers' = pollers /\ sub' = sub /\ seen' \in SUBSET Subscriber
      /\ poller[p].thread \in {"check", "read", "wait"}
  BY <1>1 DEF PollerStep, Check, Publish, Wake
<1>3. \E th \in {"check", "read", "wait", "exited"}, pub \in BOOLEAN :
        /\ poller' = [poller EXCEPT ![p] = [@ EXCEPT !.thread = th, !.published = pub]]
        /\ ~poller[p].stop => th # "exited"
  <2>1. poller[p] \in PollerState
    BY <1>1
  <2>2. CASE Check(p)
    <3>1. poller' = [poller EXCEPT ![p] = [@ EXCEPT
                       !.thread = IF poller[p].stop THEN "exited" ELSE "read",
                       !.published = poller[p].published]]
      BY <2>1, <2>2, <1>1 DEF Check, Continue, PollerState
    <3>2. QED
      BY <3>1, <2>1 DEF PollerState
  <2>3. CASE Wake(p)
    <3>1. poller' = [poller EXCEPT ![p] = [@ EXCEPT
                       !.thread = IF poller[p].stop THEN "exited" ELSE "check",
                       !.published = poller[p].published]]
      BY <2>1, <2>3, <1>1 DEF Wake, Continue, PollerState
    <3>2. QED
      BY <3>1, <2>1 DEF PollerState
  <2>4. CASE Publish(p)
    <3>1. poller' = [poller EXCEPT ![p] = [@ EXCEPT
                       !.thread = IF poller[p].stop THEN "exited" ELSE "wait",
                       !.published = poller[p].published \/ ~poller[p].stop]]
      BY <2>1, <2>4, <1>1 DEF Publish, Continue, PollerState
    <3>2. QED
      BY <3>1, <2>1 DEF PollerState
  <2>5. QED
    BY <2>2, <2>3, <2>4 DEF PollerStep
<1>4. PICK th \in {"check", "read", "wait", "exited"}, pub \in BOOLEAN :
        /\ poller' = [poller EXCEPT ![p] = [@ EXCEPT !.thread = th, !.published = pub]]
        /\ ~poller[p].stop => th # "exited"
  BY <1>3
<1>5. /\ \A q \in Poller \ {p} : poller'[q] = poller[q]
      /\ poller'[p] = [poller[p] EXCEPT !.thread = th, !.published = pub]
  BY <1>1, <1>4
<1>6. /\ poller'[p] \in PollerState /\ poller'[p].thread = th /\ poller'[p].key = poller[p].key
      /\ poller'[p].stop = poller[p].stop /\ poller'[p].count = poller[p].count
  <2>1. poller[p] \in PollerState
    BY <1>1
  <2>2. QED
    BY <2>1, <1>5 DEF PollerState, Threads
<1>7. \A q : Subscribers(q)' = Subscribers(q)
  BY <1>2 DEF Subscribers, Streaming
<1>8. poller[p] # Unused /\ poller'[p] # Unused /\ poller[p].key \in Key
  BY <1>2, <1>6 DEF Unused, HubInv, ThreadsHeld
<1>9. HubTypeOK'
  <2>1. poller' \in [Poller -> PollerState]
    BY <1>1, <1>4, <1>5, <1>6
  <2>2. QED
    BY <2>1, <1>1, <1>2 DEF HubTypeOK
<1>10. ThreadsHeld'
  BY <1>5, <1>6, <1>8 DEF HubInv, ThreadsHeld
<1>11. MappedCounted'
  <2> SUFFICES ASSUME NEW q \in Poller, NEW j \in Key, pollers[j] = q
               PROVE  /\ poller'[q].thread \in {"check", "read", "wait"} /\ ~poller'[q].stop
                      /\ poller'[q].key = j
                      /\ poller'[q].count = Cardinality(Subscribers(q)') /\ poller'[q].count > 0
    BY <1>2 DEF MappedCounted
  <2>1. CASE q = p
    BY <2>1, <1>4, <1>6, <1>7 DEF HubInv, MappedCounted
  <2>2. CASE q # p
    BY <2>2, <1>5, <1>7 DEF HubInv, MappedCounted
  <2>3. QED
    BY <2>1, <2>2
<1>12. StreamingMapped'
  BY <1>2 DEF HubInv, StreamingMapped, Streaming
<1>13. JoiningAlone'
  BY <1>2, <1>5, <1>8 DEF HubInv, JoiningAlone, Joining
<1>14. NoneLost'
  <2>1. \A q \in Poller : poller'[q].key = poller[q].key /\ (poller'[q] # Unused => poller[q] # Unused)
    BY <1>5, <1>6, <1>8
  <2>2. QED
    BY <2>1, <1>2 DEF HubInv, NoneLost, Joining
<1>15. QED
  BY <1>9, <1>10, <1>11, <1>12, <1>13, <1>14 DEF HubInv

LEMMA HubInitInv == HubInit => HubInv
<1> SUFFICES ASSUME HubInit PROVE HubInv
  OBVIOUS
<1>1. 0 \in 0 .. Cardinality(Subscriber)
  BY FS_CardinalityType, StreamHubAssumption
<1>2. HubTypeOK
  BY <1>1 DEF HubInit, HubTypeOK, PollerState, Unused, Threads, Subscription, NoSub
<1>3. ThreadsHeld /\ NoneLost
  BY DEF HubInit, ThreadsHeld, NoneLost
<1>4. MappedCounted
  BY StreamHubAssumption DEF HubInit, MappedCounted
<1>5. StreamingMapped /\ JoiningAlone
  BY DEF HubInit, StreamingMapped, JoiningAlone, Streaming, Joining, NoSub
<1>6. QED
  BY <1>2, <1>3, <1>4, <1>5 DEF HubInv

LEMMA HubKept == ASSUME HubInv, UNCHANGED hubVars PROVE HubInv'
<1>1. \A q : Subscribers(q)' = Subscribers(q)
  BY DEF hubVars, Subscribers, Streaming
<1>2. HubTypeOK' /\ ThreadsHeld'
  BY DEF HubInv, HubTypeOK, ThreadsHeld, hubVars
<1>3. MappedCounted'
  BY <1>1 DEF HubInv, MappedCounted, hubVars
<1>4. StreamingMapped' /\ JoiningAlone' /\ NoneLost'
  BY DEF HubInv, StreamingMapped, JoiningAlone, NoneLost, hubVars, Streaming, Joining
<1>5. QED
  BY <1>2, <1>3, <1>4 DEF HubInv

\* Exactly one thread joins a poller that the map no longer refers to.
LEMMA HubProperties == HubInv => HubTypeOK /\ SubscribersPolled /\ OldPollersAreJoined
<1> SUFFICES ASSUME HubInv PROVE HubTypeOK /\ SubscribersPolled /\ OldPollersAreJoined
  OBVIOUS
<1>1. HubTypeOK
  BY DEF HubInv
<1>2. SubscribersPolled
  <2>1. ASSUME NEW s \in Subscriber, Streaming(s)
        PROVE  /\ pollers[sub[s].key] = sub[s].poller /\ Alive(sub[s].poller)
               /\ ~poller[sub[s].poller].stop
    BY <2>1 DEF HubInv, StreamingMapped, MappedCounted, Alive
  <2>2. ASSUME NEW k \in Key, pollers[k] # None
        PROVE  poller[pollers[k]].count = Cardinality(Subscribers(pollers[k]))
    BY <2>2 DEF HubInv, HubTypeOK, MappedCounted
  <2>3. QED
    BY <2>1, <2>2 DEF SubscribersPolled
<1>3. OldPollersAreJoined
  <2> SUFFICES ASSUME NEW p \in Poller, poller[p] # Unused
               PROVE  \/ /\ pollers[poller[p].key] = p
                         /\ \A s \in Subscriber : ~(Joining(s) /\ sub[s].poller = p)
                      \/ /\ \A k \in Key : pollers[k] # p
                         /\ Cardinality({s \in Subscriber : Joining(s) /\ sub[s].poller = p}) = 1
    BY DEF OldPollersAreJoined
  <2>1. CASE \E s \in Subscriber : Joining(s) /\ sub[s].poller = p
    <3>1. PICK s \in Subscriber : Joining(s) /\ sub[s].poller = p
      BY <2>1
    <3>2. {t \in Subscriber : Joining(t) /\ sub[t].poller = p} = {s}
      BY <3>1 DEF HubInv, JoiningAlone
    <3>3. QED
      BY <3>1, <3>2, FS_Singleton DEF HubInv, JoiningAlone
  <2>2. CASE ~\E s \in Subscriber : Joining(s) /\ sub[s].poller = p
    BY <2>2 DEF HubInv, NoneLost
  <2>3. QED
    BY <2>1, <2>2
<1>4. QED
  BY <1>1, <1>2, <1>3

(***************************************************************************)
(* The tickets' actions.                                                   *)
(***************************************************************************)

LEMMA SweepFinite ==
  ASSUME TicketsInv
  PROVE  /\ SweepExpired \subseteq tickets /\ IsFiniteSet(SweepExpired)
         /\ Cardinality(SweepExpired) \in Nat
         /\ Cardinality(SweepExpired) <= Cardinality(tickets)
         /\ Cardinality(tickets) \in Nat
<1>1. SweepExpired \subseteq tickets
  BY DEF SweepExpired
<1>2. QED
  BY <1>1, FS_Subset, FS_CardinalityType DEF TicketsInv

\* Fewer tickets outstanding, and nothing else changed.
LEMMA FewerTickets ==
  ASSUME TicketsInv, tickets' \subseteq tickets, issued' = issued, opened' = opened,
         request' = request
  PROVE  TicketsInv'
<1>1. IsFiniteSet(tickets') /\ Cardinality(tickets') <= Cardinality(tickets)
  BY FS_Subset DEF TicketsInv
<1>2. TicketsWithinCap'
  <2>1. Cardinality(tickets) \in Nat /\ Cardinality(tickets') \in Nat
    BY <1>1, FS_CardinalityType DEF TicketsInv
  <2>2. QED
    BY <2>1, <1>1, StreamTicketsAssumption DEF TicketsInv, TicketsWithinCap
<1>3. TicketsTypeOK' /\ OutstandingIssued'
  BY DEF TicketsInv, TicketsTypeOK, OutstandingIssued
<1>4. UnusedUnopened' /\ RequestsIssued'
  BY DEF TicketsInv, UnusedUnopened, RequestsIssued
<1>5. QED
  BY <1>1, <1>2, <1>3, <1>4 DEF TicketsInv

LEMMA IssueInv ==
  ASSUME TicketsInv, NEW t \in Ticket, NEW i \in Item, Issue(t, i), opened' = opened,
         request' = request
  PROVE  TicketsInv'
<1> DEFINE new == [ticket |-> t, item |-> i, left |-> TicketTtl]
<1>1. tickets' = SweepExpired \cup {new} /\ issued' = issued \cup {[ticket |-> t, item |-> i]}
  BY DEF Issue
<1>2. IsFiniteSet(tickets') /\ Cardinality(tickets') \in Nat
      /\ Cardinality(tickets') <= Cardinality(SweepExpired) + 1
  <2>1. /\ IsFiniteSet(SweepExpired \cup {new})
        /\ Cardinality(SweepExpired \cup {new}) \in
             {Cardinality(SweepExpired), Cardinality(SweepExpired) + 1}
    BY SweepFinite, FS_AddElement
  <2>2. QED
    BY <2>1, <1>1, SweepFinite, FS_CardinalityType
<1>3. TicketsWithinCap'
  BY <1>2, SweepFinite, StreamTicketsAssumption DEF Issue, Room, TicketsWithinCap
<1>4. new \in Entry /\ [ticket |-> t, item |-> i] \in Issued
  BY StreamTicketsAssumption DEF Entry, Issued
<1>5. TicketsTypeOK'
  BY <1>1, <1>4, SweepFinite DEF TicketsInv, TicketsTypeOK
<1>6. OutstandingIssued'
  <2> SUFFICES ASSUME NEW x \in tickets' PROVE [ticket |-> x.ticket, item |-> x.item] \in issued'
    BY DEF OutstandingIssued
  <2>1. CASE x = new
    BY <2>1, <1>1
  <2>2. CASE x \in tickets
    BY <2>2, <1>1 DEF TicketsInv, OutstandingIssued
  <2>3. QED
    BY <2>1, <2>2, <1>1, SweepFinite
<1>7. opened[t] = 0
  BY DEF Issue, TicketsInv, UnusedUnopened
<1>8. UnusedUnopened'
  BY <1>1, <1>7, SweepFinite DEF TicketsInv, UnusedUnopened
<1>9. RequestsIssued'
  BY <1>1 DEF TicketsInv, RequestsIssued
<1>10. QED
  BY <1>2, <1>3, <1>5, <1>6, <1>8, <1>9 DEF TicketsInv

\* Time passing leaves as many tickets as there were, or fewer.
LEMMA TicketsTickInv ==
  ASSUME TicketsInv, TicketsTick, opened' = opened, request' = request
  PROVE  TicketsInv'
<1> DEFINE older(x) == [x EXCEPT !.left = IF @ > 0 THEN @ - 1 ELSE 0]
           f == [x \in tickets |-> older(x)]
<1>1. tickets' = {older(x) : x \in tickets} /\ issued' = issued
  BY DEF TicketsTick
<1>2. \A x \in tickets : /\ older(x) \in Entry /\ older(x).ticket = x.ticket
                         /\ older(x).item = x.item
  BY StreamTicketsAssumption DEF TicketsInv, TicketsTypeOK, Entry
<1>3. f \in Surjection(tickets, tickets')
  BY <1>1 DEF Surjection
<1>4. IsFiniteSet(tickets') /\ Cardinality(tickets') <= Cardinality(tickets)
  BY <1>3, FS_Surjection DEF TicketsInv
<1>5. TicketsWithinCap'
  <2>1. Cardinality(tickets) \in Nat /\ Cardinality(tickets') \in Nat
    BY <1>4, FS_CardinalityType DEF TicketsInv
  <2>2. QED
    BY <2>1, <1>4, StreamTicketsAssumption DEF TicketsInv, TicketsWithinCap
<1> HIDE DEF older
<1>6. TicketsTypeOK' /\ OutstandingIssued'
  BY <1>1, <1>2 DEF TicketsInv, TicketsTypeOK, OutstandingIssued
<1>7. UnusedUnopened' /\ RequestsIssued'
  BY <1>1, <1>2 DEF TicketsInv, UnusedUnopened, RequestsIssued
<1>8. QED
  BY <1>4, <1>5, <1>6, <1>7 DEF TicketsInv

\* A request that presents a ticket that is good for its item is let in, and
\* the ticket is used up with it.
LEMMA OpenWithTicketInv ==
  ASSUME TicketsInv, RequestTypes, NEW w \in Worker, NEW i \in Item, NEW t \in Ticket,
         OpenWithTicket(w, i, t)
  PROVE  TicketsInv'
<1>1. tickets' = {x \in tickets : x.ticket # t} /\ issued' = issued
  BY DEF OpenWithTicket, Redeem
<1>2. CASE ~Good(t, i)
  BY <1>1, <1>2, FewerTickets DEF OpenWithTicket
<1>3. CASE Good(t, i)
  <2>1. /\ request' = [request EXCEPT ![w] = Request("admitted", i, t)]
        /\ opened' = [opened EXCEPT ![t] = IF @ < 2 THEN @ + 1 ELSE @]
    BY <1>3 DEF OpenWithTicket, Become
  <2>2. opened[t] = 0 /\ [ticket |-> t, item |-> i] \in issued
    BY <1>3 DEF Good, TicketsInv, UnusedUnopened, OutstandingIssued
  <2>3. \A u \in Ticket : opened'[u] = IF u = t THEN 1 ELSE opened[u]
    BY <2>1, <2>2 DEF RequestTypes
  <2>4. UnusedUnopened'
    BY <1>1, <2>2, <2>3 DEF TicketsInv, UnusedUnopened
  <2>5. RequestsIssued'
    <3>1. \A v \in Worker : request'[v] = IF v = w THEN Request("admitted", i, t) ELSE request[v]
      BY <2>1 DEF RequestTypes
    <3>2. QED
      BY <1>1, <2>2, <3>1 DEF TicketsInv, RequestsIssued, Request
  <2>6. TicketsTypeOK' /\ OutstandingIssued'
    BY <1>1 DEF TicketsInv, TicketsTypeOK, OutstandingIssued
  <2>7. IsFiniteSet(tickets') /\ TicketsWithinCap'
    <3>1. tickets' \subseteq tickets
      BY <1>1
    <3>2. IsFiniteSet(tickets') /\ Cardinality(tickets') <= Cardinality(tickets)
      BY <3>1, FS_Subset DEF TicketsInv
    <3>3. Cardinality(tickets) \in Nat /\ Cardinality(tickets') \in Nat
      BY <3>2, FS_CardinalityType DEF TicketsInv
    <3>4. QED
      BY <3>2, <3>3, StreamTicketsAssumption DEF TicketsInv, TicketsWithinCap
  <2>8. QED
    BY <2>4, <2>5, <2>6, <2>7 DEF TicketsInv
<1>4. QED
  BY <1>2, <1>3

\* A request that leaves, or goes on with the pass it came with.
LEMMA TicketsKept ==
  ASSUME TicketsInv, UNCHANGED ticketVars, opened' = opened,
         \A w \in Worker : request'[w] # NoRequest =>
           /\ request[w] # NoRequest \/ request'[w].pass = Bearer
           /\ request'[w].pass # Bearer => request'[w].pass = request[w].pass
                                           /\ request'[w].item = request[w].item
  PROVE  TicketsInv'
<1>1. tickets' = tickets /\ issued' = issued
  BY DEF ticketVars
<1>2. RequestsIssued'
  BY <1>1 DEF TicketsInv, RequestsIssued
<1>3. QED
  BY <1>1, <1>2 DEF TicketsInv, TicketsTypeOK, TicketsWithinCap, OutstandingIssued, UnusedUnopened

(***************************************************************************)
(* The routes.                                                             *)
(***************************************************************************)

\* A request in some phase is one that was let in.
LEMMA InPhase ==
  ASSUME RequestTypes, NEW w \in Worker, request[w].phase \in {"admitted", "stream"}
  PROVE  /\ request[w] # NoRequest /\ request[w].item \in Item
         /\ request[w].pass \in Ticket \cup {Bearer}
         /\ [request[w] EXCEPT !.phase = "stream"] \in Requests
         /\ [request[w] EXCEPT !.phase = "stream"].item = request[w].item
         /\ [request[w] EXCEPT !.phase = "stream"].pass = request[w].pass
<1>1. request[w] \in [phase : {"admitted", "stream"}, item : Item, pass : Ticket \cup {Bearer}]
  BY DEF RequestTypes, Requests, NoRequest
<1>2. QED
  BY <1>1 DEF Requests, NoRequest

LEMMA StreamsInit == Init => StreamsInv
<1> SUFFICES ASSUME Init PROVE StreamsInv
  OBVIOUS
<1>1. HubInv
  BY HubInitInv DEF Init
<1>2. RequestTypes
  BY DEF Init, RequestTypes, Requests
<1>3. tickets = {} /\ issued = {}
  BY DEF Init, TicketsInit
<1>4. IsFiniteSet(tickets) /\ TicketsWithinCap
  BY <1>3, FS_EmptySet, StreamTicketsAssumption DEF TicketsWithinCap
<1>5. TicketsTypeOK /\ OutstandingIssued /\ UnusedUnopened /\ RequestsIssued
  BY <1>3 DEF Init, TicketsTypeOK, OutstandingIssued, UnusedUnopened, RequestsIssued
<1>6. QED
  BY <1>1, <1>2, <1>4, <1>5 DEF StreamsInv, TicketsInv

LEMMA OneRequest ==
  ASSUME RequestTypes, NEW w \in Worker, NEW r, Become(w, r)
  PROVE  \A v \in Worker : request'[v] = IF v = w THEN r ELSE request[v]
BY DEF RequestTypes, Become

LEMMA StreamsNext == StreamsInv /\ [Next]_vars => StreamsInv'
<1> SUFFICES ASSUME StreamsInv, [Next]_vars PROVE StreamsInv'
  OBVIOUS
<1>0. HubInv /\ TicketsInv /\ RequestTypes
  BY DEF StreamsInv
<1>1. ASSUME NEW w \in Worker, NEW i \in Item, PostStreamTicket(w, i) PROVE StreamsInv'
  <2>1. HubInv' /\ RequestTypes'
    BY <1>0, <1>1, HubKept DEF PostStreamTicket, RequestTypes
  <2>2. TicketsInv'
    <3>1. CASE \E t \in Ticket : Issue(t, i)
      BY <1>0, <1>1, <3>1, IssueInv DEF PostStreamTicket
    <3>2. CASE IssueDenied
      <4>1. tickets' \subseteq tickets /\ issued' = issued
        BY <3>2 DEF IssueDenied, SweepExpired
      <4>2. QED
        BY <1>0, <1>1, <4>1, FewerTickets DEF PostStreamTicket
    <3>3. QED
      BY <1>1, <3>1, <3>2 DEF PostStreamTicket
  <2>3. QED
    BY <2>1, <2>2 DEF StreamsInv
<1>2. ASSUME NEW w \in Worker, NEW i \in Item, OpenWithBearer(w, i) PROVE StreamsInv'
  <2>1. HubInv'
    BY <1>0, <1>2, HubKept DEF OpenWithBearer
  <2>2. \A v \in Worker : request'[v] = IF v = w THEN Request("admitted", i, Bearer) ELSE request[v]
    BY <1>0, <1>2, OneRequest DEF OpenWithBearer
  <2>3. TicketsInv'
    BY <1>0, <1>2, <2>2, TicketsKept DEF OpenWithBearer, Request
  <2>4. RequestTypes'
    BY <1>0, <1>2 DEF OpenWithBearer, Become, Request, RequestTypes, Requests
  <2>5. QED
    BY <2>1, <2>3, <2>4 DEF StreamsInv
<1>3. ASSUME NEW w \in Worker, NEW i \in Item, NEW t \in Ticket, OpenWithTicket(w, i, t)
      PROVE  StreamsInv'
  <2>1. HubInv'
    BY <1>0, <1>3, HubKept DEF OpenWithTicket
  <2>2. TicketsInv'
    BY <1>0, <1>3, OpenWithTicketInv
  <2>3. RequestTypes'
    <3>1. CASE Good(t, i)
      <4>1. /\ request' = [request EXCEPT ![w] = Request("admitted", i, t)]
            /\ opened' = [opened EXCEPT ![t] = IF @ < 2 THEN @ + 1 ELSE @] /\ gone' = gone
        BY <1>3, <3>1 DEF OpenWithTicket, Become
      <4>2. (IF opened[t] < 2 THEN opened[t] + 1 ELSE opened[t]) \in 0 .. 2
        BY <1>0 DEF RequestTypes
      <4>3. opened' \in [Ticket -> 0 .. 2]
        BY <1>0, <4>1, <4>2 DEF RequestTypes
      <4>4. request' \in [Worker -> Requests]
        BY <1>0, <4>1 DEF Request, RequestTypes, Requests
      <4>5. QED
        BY <1>0, <4>1, <4>3, <4>4 DEF RequestTypes
    <3>2. CASE ~Good(t, i)
      BY <1>0, <1>3, <3>2 DEF OpenWithTicket, RequestTypes
    <3>3. QED
      BY <3>1, <3>2
  <2>4. QED
    BY <2>1, <2>2, <2>3 DEF StreamsInv
<1>4. ASSUME NEW w \in Worker, RejectStream(w) PROVE StreamsInv'
  <2>1. HubInv'
    BY <1>0, <1>4, HubKept DEF RejectStream
  <2>2. \A v \in Worker : request'[v] = IF v = w THEN NoRequest ELSE request[v]
    BY <1>0, <1>4, OneRequest DEF RejectStream
  <2>3. TicketsInv'
    BY <1>0, <1>4, <2>2, TicketsKept DEF RejectStream
  <2>4. RequestTypes'
    BY <1>0, <1>4 DEF RejectStream, Become, RequestTypes, Requests
  <2>5. QED
    BY <2>1, <2>3, <2>4 DEF StreamsInv
<1>5. ASSUME NEW w \in Worker, BeginStream(w) PROVE StreamsInv'
  <2>1. /\ request[w] # NoRequest /\ request[w].item \in Item
        /\ [request[w] EXCEPT !.phase = "stream"] \in Requests
        /\ [request[w] EXCEPT !.phase = "stream"].item = request[w].item
        /\ [request[w] EXCEPT !.phase = "stream"].pass = request[w].pass
    BY <1>0, <1>5, InPhase DEF BeginStream
  <2>2. HubInv'
    <3>1. request[w].item \in Key /\ w \in Subscriber
      BY <2>1, StreamRoutesAssumption DEF Worker
    <3>2. QED
      BY <1>0, <1>5, <3>1, ShareInv, StartInv DEF BeginStream, Subscribe
  <2>3. \A v \in Worker :
          request'[v] = IF v = w THEN [request[w] EXCEPT !.phase = "stream"] ELSE request[v]
    BY <1>0, <1>5, OneRequest DEF BeginStream
  <2>4. TicketsInv'
    BY <1>0, <1>5, <2>1, <2>3, TicketsKept DEF BeginStream
  <2>5. RequestTypes'
    BY <1>0, <1>5, <2>1 DEF BeginStream, Become, RequestTypes
  <2>6. QED
    BY <2>2, <2>4, <2>5 DEF StreamsInv
<1>6. ASSUME NEW w \in Worker, SendChunk(w) PROVE StreamsInv'
  <2>1. CASE WaitNext(w) /\ UNCHANGED <<request, gone>>
    <3>1. HubInv'
      BY <1>0, <2>1, WaitNextInv DEF Worker
    <3>2. TicketsInv' /\ RequestTypes'
      BY <1>0, <1>6, <2>1, TicketsKept DEF SendChunk, RequestTypes
    <3>3. QED
      BY <3>1, <3>2 DEF StreamsInv
  <2>2. CASE Release(w) /\ Become(w, NoRequest) /\ gone' = gone \ {w}
    <3>1. HubInv'
      BY <1>0, <2>2, ReleaseInv DEF Worker
    <3>2. \A v \in Worker : request'[v] = IF v = w THEN NoRequest ELSE request[v]
      BY <1>0, <2>2, OneRequest
    <3>3. TicketsInv'
      BY <1>0, <1>6, <3>2, TicketsKept DEF SendChunk
    <3>4. RequestTypes'
      BY <1>0, <1>6, <2>2 DEF SendChunk, Become, RequestTypes, Requests
    <3>5. QED
      BY <3>1, <3>3, <3>4 DEF StreamsInv
  <2>3. QED
    BY <1>6, <2>1, <2>2 DEF SendChunk
<1>7. ASSUME NEW w \in Worker, EndStream(w) PROVE StreamsInv'
  <2>1. HubInv'
    BY <1>0, <1>7, JoinInv DEF EndStream, Worker
  <2>2. TicketsInv' /\ RequestTypes'
    BY <1>0, <1>7, TicketsKept DEF EndStream, RequestTypes
  <2>3. QED
    BY <2>1, <2>2 DEF StreamsInv
<1>8. ASSUME NEW w \in Worker, Hangup(w) PROVE StreamsInv'
  <2>1. HubInv'
    BY <1>0, <1>8, HubKept DEF Hangup
  <2>2. TicketsInv' /\ RequestTypes'
    BY <1>0, <1>8, TicketsKept DEF Hangup, RequestTypes
  <2>3. QED
    BY <2>1, <2>2 DEF StreamsInv
<1>9. ASSUME NEW p \in Poller, Poll(p) PROVE StreamsInv'
  <2>1. HubInv'
    BY <1>0, <1>9, PollerStepInv DEF Poll
  <2>2. TicketsInv' /\ RequestTypes'
    BY <1>0, <1>9, TicketsKept DEF Poll, RequestTypes
  <2>3. QED
    BY <2>1, <2>2 DEF StreamsInv
<1>10. CASE Tick
  BY <1>0, <1>10, HubKept, TicketsTickInv DEF Tick, RequestTypes, StreamsInv
<1>11. CASE UNCHANGED vars
  BY <1>0, <1>11, HubKept, TicketsKept DEF vars, RequestTypes, StreamsInv
<1>12. QED
  BY <1>1, <1>2, <1>3, <1>4, <1>5, <1>6, <1>7, <1>8, <1>9, <1>10, <1>11 DEF Next

(***************************************************************************)
(* The end of a join.                                                      *)
(***************************************************************************)

\* Who joins a poller has told it to stop.
JoinersStopped == \A s \in Subscriber : Joining(s) => poller[sub[s].poller].stop

\* A joined poller stays as it is, or ends.
JoinedEnds == \A s \in Subscriber : Joining(s) =>
  LET p == sub[s].poller
  IN  Alive(p) => poller'[p] = poller[p] \/ poller'[p].thread = "exited"

LEMMA HubKeepsStopped ==
  ASSUME HubInv, JoinersStopped, UNCHANGED <<sub, poller>>
  PROVE  JoinersStopped' /\ JoinedEnds
BY DEF JoinersStopped, JoinedEnds, Joining

\* A subscriber is counted by a poller of the map, or a new one, and those
\* nobody joins.
LEMMA SubscribeKeepsStopped ==
  ASSUME HubInv, JoinersStopped, NEW s \in Subscriber, NEW k \in Key, sub[s] = NoSub,
         Share(s, k) \/ Start(s, k)
  PROVE  JoinersStopped' /\ JoinedEnds
<1>1. /\ poller \in [Poller -> PollerState] /\ sub \in [Subscriber -> Subscription]
      /\ pollers \in [Key -> Poller \cup {None}]
  BY DEF HubInv, HubTypeOK
<1>2. PICK p \in Poller :
        /\ poller[p] = Unused \/ pollers[k] = p
        /\ sub' = [sub EXCEPT ![s] = [at |-> "streaming", key |-> k, poller |-> p]]
        /\ \A q \in Poller \ {p} : poller'[q] = poller[q]
  <2>1. CASE Share(s, k)
    BY <1>1, <2>1 DEF Share, Hold
  <2>2. CASE Start(s, k)
    BY <1>1, <2>2 DEF Start, Hold
  <2>3. QED
    BY <2>1, <2>2
<1>3. \A t \in Subscriber : Joining(t)' => t # s /\ Joining(t) /\ sub'[t] = sub[t]
  BY <1>1, <1>2 DEF Joining
<1>4. \A t \in Subscriber : Joining(t) => sub[t].poller \in Poller \ {p}
  BY <1>2 DEF HubInv, JoiningAlone
<1>5. \A t \in Subscriber : Joining(t) => poller'[sub[t].poller] = poller[sub[t].poller]
  BY <1>2, <1>4
<1>6. JoinersStopped'
  BY <1>3, <1>5 DEF JoinersStopped
<1>7. JoinedEnds
  BY <1>5 DEF JoinedEnds
<1>8. QED
  BY <1>6, <1>7

\* The poller that is released is in the map, so nobody else joins it.
LEMMA ReleaseKeepsStopped ==
  ASSUME HubInv, JoinersStopped, NEW s \in Subscriber, Release(s)
  PROVE  JoinersStopped' /\ JoinedEnds
<1>1. /\ poller \in [Poller -> PollerState] /\ sub \in [Subscriber -> Subscription]
      /\ pollers \in [Key -> Poller \cup {None}]
  BY DEF HubInv, HubTypeOK
<1>2. Streaming(s) /\ sub[s].key \in Key /\ pollers[sub[s].key] = sub[s].poller
  BY DEF Release, HubInv, StreamingMapped
<1>3. PICK p \in Poller : p = pollers[sub[s].key]
  BY <1>2 DEF HubInv, StreamingMapped
<1>4. \A q \in Poller \ {p} : poller'[q] = poller[q]
  BY <1>1, <1>3 DEF Release
<1>5. /\ \A t \in Subscriber \ {s} : sub'[t] = sub[t]
      /\ sub'[s] = NoSub \/ (sub'[s].poller = p /\ poller'[p].stop)
  <2>1. CASE Last(p)
    <3>1. /\ poller' = [poller EXCEPT ![p].count = @ - 1, ![p].stop = TRUE]
          /\ sub' = [sub EXCEPT ![s].at = "joining", ![s].poller = p]
      BY <1>3, <2>1 DEF Release
    <3>2. poller'[p].stop
      BY <1>1, <3>1 DEF PollerState
    <3>3. sub'[s].poller = p /\ \A t \in Subscriber \ {s} : sub'[t] = sub[t]
      BY <1>1, <3>1 DEF Subscription
    <3>4. QED
      BY <3>2, <3>3
  <2>2. CASE ~Last(p)
    <3>1. sub' = [sub EXCEPT ![s] = NoSub]
      BY <1>3, <2>2 DEF Release
    <3>2. QED
      BY <1>1, <3>1
  <2>3. QED
    BY <2>1, <2>2
<1>6. \A t \in Subscriber : Joining(t) => sub[t].poller \in Poller \ {p}
  BY <1>2, <1>3 DEF HubInv, JoiningAlone
<1>7. \A t \in Subscriber : Joining(t) => poller'[sub[t].poller] = poller[sub[t].poller]
  BY <1>4, <1>6
<1>8. JoinersStopped'
  <2> SUFFICES ASSUME NEW t \in Subscriber, Joining(t)' PROVE poller'[sub'[t].poller].stop
    BY DEF JoinersStopped
  <2>1. CASE t = s
    BY <1>5, <2>1 DEF Joining, NoSub
  <2>2. CASE t # s
    <3>1. Joining(t) /\ sub'[t] = sub[t]
      BY <1>5, <2>2 DEF Joining
    <3>2. QED
      BY <1>7, <3>1 DEF JoinersStopped
  <2>3. QED
    BY <2>1, <2>2
<1>9. JoinedEnds
  BY <1>7 DEF JoinedEnds
<1>10. QED
  BY <1>8, <1>9

\* A poller is freed by the one thread that joins it, once it has ended.
LEMMA JoinKeepsStopped ==
  ASSUME HubInv, JoinersStopped, NEW s \in Subscriber, Join(s)
  PROVE  JoinersStopped' /\ JoinedEnds
<1>1. /\ poller \in [Poller -> PollerState] /\ sub \in [Subscriber -> Subscription]
  BY DEF HubInv, HubTypeOK
<1>2. /\ Joining(s) /\ poller[sub[s].poller].thread = "exited"
      /\ poller' = [poller EXCEPT ![sub[s].poller] = Unused]
      /\ sub' = [sub EXCEPT ![s] = NoSub]
  BY DEF Join
<1>3. \A t \in Subscriber \ {s} : Joining(t) =>
        sub[t].poller \in Poller /\ sub[t].poller # sub[s].poller
  BY <1>2 DEF HubInv, JoiningAlone
<1>4. \A t \in Subscriber \ {s} : Joining(t) => poller'[sub[t].poller] = poller[sub[t].poller]
  BY <1>1, <1>2, <1>3
<1>5. \A t \in Subscriber : Joining(t)' => t # s /\ Joining(t) /\ sub'[t] = sub[t]
  BY <1>1, <1>2 DEF Joining, NoSub
<1>6. JoinersStopped'
  BY <1>4, <1>5 DEF JoinersStopped
<1>7. JoinedEnds
  BY <1>2, <1>4 DEF JoinedEnds, Alive
<1>8. QED
  BY <1>6, <1>7

\* Every step of the thread looks at stop, and it ends if that is set.
LEMMA PollerStepEnds ==
  ASSUME HubInv, JoinersStopped, NEW p \in Poller, PollerStep(p)
  PROVE  JoinersStopped' /\ JoinedEnds
<1>1. poller \in [Poller -> PollerState] /\ sub' = sub
  BY DEF HubInv, HubTypeOK, PollerStep, Check, Publish, Wake
<1>2. /\ \A q \in Poller \ {p} : poller'[q] = poller[q]
      /\ poller'[p].stop = poller[p].stop
      /\ poller[p].stop => poller'[p].thread = "exited"
  <2>1. poller[p] \in PollerState
    BY <1>1
  <2>2. CASE Check(p)
    BY <1>1, <2>1, <2>2 DEF Check, Continue, PollerState
  <2>3. CASE Publish(p)
    BY <1>1, <2>1, <2>3 DEF Publish, Continue, PollerState
  <2>4. CASE Wake(p)
    BY <1>1, <2>1, <2>4 DEF Wake, Continue, PollerState
  <2>5. QED
    BY <2>2, <2>3, <2>4 DEF PollerStep
<1>3. \A t \in Subscriber : Joining(t) => sub[t].poller \in Poller /\ poller[sub[t].poller].stop
  BY DEF HubInv, JoiningAlone, JoinersStopped
<1>4. \A t \in Subscriber : Joining(t) =>
        /\ poller'[sub[t].poller].stop
        /\ \/ poller'[sub[t].poller] = poller[sub[t].poller]
           \/ poller'[sub[t].poller].thread = "exited"
  BY <1>2, <1>3
<1>5. JoinersStopped'
  BY <1>1, <1>4 DEF JoinersStopped, Joining
<1>6. JoinedEnds
  BY <1>4 DEF JoinedEnds
<1>7. QED
  BY <1>5, <1>6

LEMMA NextKeepsStopped ==
  ASSUME StreamsInv, JoinersStopped, [Next]_vars
  PROVE  JoinersStopped' /\ JoinedEnds
<1>1. HubInv
  BY DEF StreamsInv
<1>2. \/ UNCHANGED <<sub, poller>>
      \/ \E s \in Subscriber : (\E k \in Key : sub[s] = NoSub /\ (Share(s, k) \/ Start(s, k)))
                                 \/ Release(s) \/ Join(s)
      \/ \E p \in Poller : PollerStep(p)
  <2>1. ASSUME NEW w \in Worker, BeginStream(w)
        PROVE  \E k \in Key : sub[w] = NoSub /\ (Share(w, k) \/ Start(w, k))
    <3>1. request[w].item \in Key
      BY <2>1, InPhase, StreamRoutesAssumption DEF BeginStream, StreamsInv
    <3>2. QED
      BY <2>1, <3>1 DEF BeginStream, Subscribe
  <2>2. ASSUME NEW w \in Worker, SendChunk(w) PROVE Release(w) \/ UNCHANGED <<sub, poller>>
    BY <2>2 DEF SendChunk, WaitNext
  <2>3. ASSUME NEW w \in Worker, EndStream(w) PROVE Join(w)
    BY <2>3 DEF EndStream
  <2>4. ASSUME NEW p \in Poller, Poll(p) PROVE PollerStep(p)
    BY <2>4 DEF Poll
  <2>5. ASSUME NEW w \in Worker, RejectStream(w) \/ Hangup(w) PROVE UNCHANGED <<sub, poller>>
    BY <2>5 DEF RejectStream, Hangup, hubVars
  <2>6. ASSUME NEW w \in Worker, NEW i \in Item,
               \/ PostStreamTicket(w, i) \/ OpenWithBearer(w, i)
               \/ \E t \in Ticket : OpenWithTicket(w, i, t)
        PROVE  UNCHANGED <<sub, poller>>
    BY <2>6 DEF PostStreamTicket, OpenWithBearer, OpenWithTicket, hubVars
  <2>7. CASE Tick \/ UNCHANGED vars
    BY <2>7 DEF Tick, vars, hubVars
  <2>8. QED
    BY <2>1, <2>2, <2>3, <2>4, <2>5, <2>6, <2>7 DEF Next, Worker
<1>3. QED
  BY <1>1, <1>2, HubKeepsStopped, SubscribeKeepsStopped, ReleaseKeepsStopped, JoinKeepsStopped,
     PollerStepEnds

(***************************************************************************)
(* The theorems.                                                           *)
(***************************************************************************)

LEMMA StreamsAlways == Spec => []StreamsInv
BY StreamsInit, StreamsNext, PTL DEF Spec

\* stream_hub.cpp and stream_ticket.cpp keep their types; a poller's count
\* of subscribers never goes below zero or above the workers there are.
THEOREM StreamTypes == Spec => []TypeOK
<1>1. StreamsInv => TypeOK
  BY HubProperties DEF StreamsInv, TicketsInv, RequestTypes, TypeOK
<1>2. QED
  BY <1>1, StreamsAlways, PTL

\* Whatever subscribes, leaves and joins in between, release (by key) finds
\* the poller its subscriber listens to, and that poller runs and counts its
\* subscribers exactly.
THEOREM SubscribersStayPolled == Spec => []SubscribersPolled
<1>1. StreamsInv => SubscribersPolled
  BY HubProperties DEF StreamsInv
<1>2. QED
  BY <1>1, StreamsAlways, PTL

\* No poller outlives its subscribers without exactly one thread in release
\* that joins it: no thread is leaked, and none is joined twice.
THEOREM OldPollersStayJoined == Spec => []OldPollersAreJoined
<1>1. StreamsInv => OldPollersAreJoined
  BY HubProperties DEF StreamsInv
<1>2. QED
  BY <1>1, StreamsAlways, PTL

\* A join in release ends with the step the poller's thread is in: the thread
\* has been told to stop, no subscriber that came since can change that, and
\* none of its steps goes on without looking.
THEOREM JoinsEndInOneStep == Spec => JoinWaitsOneStep
<1>1. Init => JoinersStopped
  BY DEF Init, HubInit, JoinersStopped, Joining, NoSub
<1>2. StreamsInv /\ JoinersStopped /\ [Next]_vars => JoinersStopped' /\ JoinedEnds
  BY NextKeepsStopped
<1>3. JoinedEnds => [\A s \in Subscriber : Joining(s) =>
                      LET p == sub[s].poller
                      IN  Alive(p) => poller'[p] = poller[p] \/ poller'[p].thread = "exited"]_hubVars
  BY DEF JoinedEnds
<1>4. QED
  BY <1>1, <1>2, <1>3, StreamsAlways, PTL DEF Spec, JoinWaitsOneStep

\* issue sweeps before it counts, so the store never holds more tickets than
\* kMaxOutstandingTickets, the expired ones included.
THEOREM TicketsStayWithinCap == Spec => []TicketsWithinCap
<1>1. StreamsInv => TicketsWithinCap
  BY DEF StreamsInv, TicketsInv
<1>2. QED
  BY <1>1, StreamsAlways, PTL

\* redeem burns the ticket on any attempt: it lets one request in at most,
\* and that one asks for the item the ticket was issued for.
THEOREM TicketsOpenOneStream == Spec => []OneStreamPerTicket
<1>1. StreamsInv => OneStreamPerTicket
  BY DEF StreamsInv, TicketsInv, UnusedUnopened, RequestsIssued, OneStreamPerTicket
<1>2. QED
  BY <1>1, StreamsAlways, PTL

=============================================================================
