----------------------------- MODULE DataStore -----------------------------
(***************************************************************************)
(* What the data routes promise about the named data items of an entity,   *)
(* with no bytes, no DIDs, no UDS and no connection: each item is a        *)
(* register.  A client is told a value either because it read it or        *)
(* because its write of it was accepted.  While the connection to an       *)
(* entity is punctual, what a client is told of its items is what they     *)
(* hold at that moment; once one of its answers has come late, a client    *)
(* may be told any value the item has held, and an accepted write promises *)
(* nothing.  What the other connections do changes neither.                *)
(***************************************************************************)
CONSTANTS Client, Item, Entity,
          EntityOf(_),         \* whose an item is
          Nothing,             \* in place of a value, of a client that has none
          Input(_),            \* what clients ask an item to be set to
          Writable(_, _)       \* what the item reads as when that is accepted

VARIABLES store,               \* what each item reads as
          past,                \* everything it has read as so far
          told,                \* what each client was told last, or Nothing
          punctual             \* the entities none of whose answers has been late

storeVars == <<store, past, told, punctual>>

Told(i, v) == [j \in {i} |-> v]

Init ==
  /\ DOMAIN store = Item
  /\ past = [i \in Item |-> {store[i]}]
  /\ told = [c \in Client |-> Nothing]
  /\ punctual = Entity

Hold(i, v) ==
  /\ store' = [store EXCEPT ![i] = v]
  /\ past' = [past EXCEPT ![i] = @ \cup {v}]

Tell(c, i, v) == told' = [told EXCEPT ![c] = Told(i, v)]

\* An answer of the entity is late.
Lags(e) == punctual' = punctual \ {e}

\* An accepted write.
Write(c, i, x) ==
  /\ Tell(c, i, Writable(i, x))
  /\ UNCHANGED punctual
  /\ Hold(i, Writable(i, x))

\* A write whose client is told nothing: its answer is late, or lost.
WriteUnseen(i, x) ==
  /\ Lags(EntityOf(i)) \/ UNCHANGED punctual
  /\ UNCHANGED told
  /\ Hold(i, Writable(i, x))

\* A write under the item's raw identifier, which bypasses its type.
WriteRaw(i) ==
  /\ UNCHANGED told
  /\ Lags(EntityOf(i)) \/ UNCHANGED punctual
  /\ Hold(i, store'[i])

Read(c, i) ==
  /\ \E v \in past[i] : (EntityOf(i) \in punctual => v = store[i]) /\ Tell(c, i, v)
  /\ UNCHANGED <<store, past, punctual>>

\* The acceptance that a late answer mistakes for this write's.
WriteMisled(c, i, x) ==
  /\ EntityOf(i) \notin punctual
  /\ Tell(c, i, Writable(i, x))
  /\ UNCHANGED punctual
  /\ Hold(i, Writable(i, x)) \/ UNCHANGED <<store, past>>

\* An operation that ends in an error, or a client that goes away; an
\* answer may come late meanwhile.
Forget(c) ==
  /\ told' = [told EXCEPT ![c] = Nothing]
  /\ (\E e \in Entity : Lags(e)) \/ UNCHANGED punctual
  /\ UNCHANGED <<store, past>>

Next ==
  \/ \E c \in Client : Forget(c)
  \/ \E c \in Client, i \in Item : Read(c, i)
  \/ \E c \in Client, i \in Item : \E x \in Input(i) : Write(c, i, x) \/ WriteMisled(c, i, x)
  \/ \E i \in Item : \E x \in Input(i) : WriteUnseen(i, x)
  \/ \E i \in Item : WriteRaw(i)

Spec == Init /\ [][Next]_storeVars

=============================================================================
