----------------------------- MODULE StreamHub -----------------------------
(***************************************************************************)
(* server/src/stream_hub.cpp: subscribers to the same data item at the     *)
(* same interval share one poller thread.  The first one starts it, the    *)
(* last one stops it and joins it.                                         *)
(*                                                                         *)
(* subscribe and the first half of release run under map_mtx_ (and take    *)
(* the poller's own mutex inside it); the join runs with no mutex held, so *)
(* the key may be subscribed to again before the old thread has ended.     *)
(* read_fn, the condition variable's wait and the join are where threads   *)
(* spend their time.                                                       *)
(*                                                                         *)
(* A subscriber compares version numbers only for being equal, so a number *)
(* is replaced by what the comparison says: `seen` holds the subscribers   *)
(* that have nothing new to read.                                          *)
(***************************************************************************)
EXTENDS Naturals, FiniteSets

CONSTANTS Subscriber,   \* the threads that hold subscriptions
          Key,          \* path, id and interval
          Poller,       \* identities of PollerStates; reused when one is freed
          None          \* no poller, no key

ASSUME StreamHubAssumption ==
  /\ IsFiniteSet(Subscriber)
  /\ None \notin Poller \cup Key

VARIABLES
  pollers,    \* pollers_: the poller of each key, or None
  poller,     \* each PollerState and its thread
  sub,        \* each thread's Subscription
  seen        \* the subscribers with last_seen_version_ = version

hubVars == <<pollers, poller, sub, seen>>

\* The thread checks stop, reads, publishes and waits, in a circle.
Threads == {"none", "check", "read", "wait", "exited"}
PollerState == [thread : Threads, key : Key \cup {None},
                count : 0 .. Cardinality(Subscriber), stop : BOOLEAN,
                published : BOOLEAN]
Unused == [thread |-> "none", key |-> None, count |-> 0, stop |-> FALSE,
           published |-> FALSE]

\* "joining" is the second half of release.
Subscription == [at : {"none", "streaming", "joining"}, key : Key \cup {None},
                 poller : Poller \cup {None}]
NoSub == [at |-> "none", key |-> None, poller |-> None]

Streaming(s) == sub[s].at = "streaming"
Joining(s) == sub[s].at = "joining"
Subscribers(p) == {s \in Subscriber : Streaming(s) /\ sub[s].poller = p}
Alive(p) == poller[p].thread \in {"check", "read", "wait"}

HubInit ==
  /\ pollers = [k \in Key |-> None]
  /\ poller = [p \in Poller |-> Unused]
  /\ sub = [s \in Subscriber |-> NoSub]
  /\ seen = {}

(***************************************************************************)
(* subscribe.                                                              *)
(***************************************************************************)

Hold(s, k, p) == sub' = [sub EXCEPT ![s] = [at |-> "streaming", key |-> k, poller |-> p]]

\* The key has a poller: count one more subscriber.  It has not seen the
\* value already published, if there is one.
Share(s, k) ==
  LET p == pollers[k]
  IN  /\ p # None
      /\ poller' = [poller EXCEPT ![p].count = @ + 1]
      /\ Hold(s, k, p)
      /\ seen' = IF poller[p].published THEN seen ELSE seen \cup {s}
      /\ UNCHANGED pollers

\* Mutation: the first subscriber is not counted.
StartUncounted(s, k) ==
  /\ pollers[k] = None
  /\ \E p \in Poller :
       /\ poller[p] = Unused
       /\ poller' = [poller EXCEPT ![p].thread = "check", ![p].key = k]
       /\ pollers' = [pollers EXCEPT ![k] = p]
       /\ Hold(s, k, p)
  /\ seen' = seen \cup {s}

\* The key has none: make one and start its thread.
Start(s, k) ==
  /\ pollers[k] = None
  /\ \E p \in Poller :
       /\ poller[p] = Unused
       /\ poller' = [poller EXCEPT ![p] =
            [thread |-> "check", key |-> k, count |-> 1, stop |-> FALSE,
             published |-> FALSE]]
       /\ pollers' = [pollers EXCEPT ![k] = p]
       /\ Hold(s, k, p)
  /\ seen' = seen \cup {s}

Subscribe(s, k) == sub[s] = NoSub /\ (Share(s, k) \/ Start(s, k))

(***************************************************************************)
(* wait_next and release.                                                  *)
(***************************************************************************)

\* wait_next returning a value; when it times out nothing changes.
WaitNext(s) ==
  /\ Streaming(s)
  /\ s \notin seen
  /\ ~poller[sub[s].poller].stop
  /\ seen' = seen \cup {s}
  /\ UNCHANGED <<pollers, poller, sub>>

\* Mutation: the poller is stopped while one subscriber is left.
LastOrOneLeft(p) == poller[p].count - 1 <= 1

Last(p) == poller[p].count - 1 <= 0

\* Mutation: the poller is dropped from the map, but not told to stop.
ReleaseUnstopped(s) ==
  /\ Streaming(s)
  /\ LET k == sub[s].key
         p == pollers[k]
     IN  IF Last(p)
         THEN /\ poller' = [poller EXCEPT ![p].count = @ - 1]
              /\ pollers' = [pollers EXCEPT ![k] = None]
              /\ sub' = [sub EXCEPT ![s].at = "joining", ![s].poller = p]
         ELSE /\ poller' = [poller EXCEPT ![p].count = @ - 1]
              /\ sub' = [sub EXCEPT ![s] = NoSub]
              /\ UNCHANGED pollers
  /\ seen' = seen \ {s}

\* Mutation: the last subscriber does not join.
ReleaseUnjoined(s) ==
  /\ Streaming(s)
  /\ LET k == sub[s].key
         p == pollers[k]
     IN  /\ poller' = [poller EXCEPT ![p].count = @ - 1, ![p].stop = Last(p)]
         /\ pollers' = IF Last(p) THEN [pollers EXCEPT ![k] = None] ELSE pollers
  /\ sub' = [sub EXCEPT ![s] = NoSub]
  /\ seen' = seen \ {s}

\* release looks its poller up by the key it subscribed under.
Release(s) ==
  /\ Streaming(s)
  /\ LET k == sub[s].key
         p == pollers[k]
     IN  /\ p # None
         /\ \/ /\ Last(p)
               /\ poller' = [poller EXCEPT ![p].count = @ - 1, ![p].stop = TRUE]
               /\ pollers' = [pollers EXCEPT ![k] = None]
               /\ sub' = [sub EXCEPT ![s].at = "joining", ![s].poller = p]
            \/ /\ ~Last(p)
               /\ poller' = [poller EXCEPT ![p].count = @ - 1]
               /\ sub' = [sub EXCEPT ![s] = NoSub]
               /\ UNCHANGED pollers
  /\ seen' = seen \ {s}

\* After the join the last reference goes, and the PollerState with it.
Join(s) ==
  /\ Joining(s)
  /\ poller[sub[s].poller].thread = "exited"
  /\ poller' = [poller EXCEPT ![sub[s].poller] = Unused]
  /\ sub' = [sub EXCEPT ![s] = NoSub]
  /\ UNCHANGED <<pollers, seen>>

(***************************************************************************)
(* The poller thread.                                                      *)
(***************************************************************************)

\* The thread goes on to its next step, or returns when it finds stop set.
Continue(p, next) ==
  [poller EXCEPT ![p].thread = IF poller[p].stop THEN "exited" ELSE next]

Check(p) ==
  /\ poller[p].thread = "check"
  /\ poller' = Continue(p, "read")
  /\ UNCHANGED <<pollers, sub, seen>>

\* Mutation: the version does not move.
PublishSilently(p) ==
  /\ poller[p].thread = "read"
  /\ poller' = Continue(p, "wait")
  /\ UNCHANGED <<pollers, sub, seen>>

\* Mutation: stop is not tested again after the read.
PublishUnchecked(p) ==
  /\ poller[p].thread = "read"
  /\ poller' = [poller EXCEPT ![p].thread = "wait", ![p].published = TRUE]
  /\ seen' = seen \ Subscribers(p)
  /\ UNCHANGED <<pollers, sub>>

\* read_fn has returned, however long that took.
Publish(p) ==
  /\ poller[p].thread = "read"
  /\ poller' = [Continue(p, "wait") EXCEPT ![p].published = @ \/ ~poller[p].stop]
  /\ seen' = IF poller[p].stop THEN seen ELSE seen \ Subscribers(p)
  /\ UNCHANGED <<pollers, sub>>

\* The interval is over, or stop was notified.
Wake(p) ==
  /\ poller[p].thread = "wait"
  /\ poller' = Continue(p, "check")
  /\ UNCHANGED <<pollers, sub, seen>>

PollerStep(p) == Check(p) \/ Publish(p) \/ Wake(p)

(***************************************************************************)
(* Properties.                                                             *)
(***************************************************************************)

HubTypeOK ==
  /\ pollers \in [Key -> Poller \cup {None}]
  /\ poller \in [Poller -> PollerState]
  /\ sub \in [Subscriber -> Subscription]
  /\ seen \in SUBSET Subscriber

\* release finds a poller by key, not by identity, and by then the key could
\* have been dropped and taken again.  It never is: every subscriber's poller
\* is the one in the map, counted exactly, running and not told to stop.
SubscribersPolled ==
  /\ \A s \in Subscriber : Streaming(s) =>
       LET p == sub[s].poller
       IN  pollers[sub[s].key] = p /\ Alive(p) /\ ~poller[p].stop
  /\ \A k \in Key : pollers[k] # None =>
       poller[pollers[k]].count = Cardinality(Subscribers(pollers[k]))

\* "N browser tabs ... share ONE poller": a key has one running poller, and
\* one more for each thread still joining an old one.  No poller is left
\* without a thread that joins it, or destroyed before it is joined.
OldPollersAreJoined ==
  \A p \in Poller : poller[p] # Unused =>
    \/ pollers[poller[p].key] = p /\ \A s \in Subscriber : ~(Joining(s) /\ sub[s].poller = p)
    \/ /\ \A k \in Key : pollers[k] # p
       /\ Cardinality({s \in Subscriber : Joining(s) /\ sub[s].poller = p}) = 1

\* Who joins a poller waits for the step its thread is in, and no more,
\* whatever step that is and whoever has subscribed to the key since.  The
\* code means the last "unsubscribing from a long-interval stream" not to
\* block its HTTP worker.
JoinWaitsOneStep ==
  [][\A s \in Subscriber : Joining(s) =>
       LET p == sub[s].poller
       IN  Alive(p) => poller'[p] = poller[p] \/ poller'[p].thread = "exited"]_hubVars

=============================================================================
