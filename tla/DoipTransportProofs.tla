------------------------ MODULE DoipTransportProofs ------------------------
(***************************************************************************)
(* Proofs about DoipTransport, for any kinds of request, any number of     *)
(* pending attempts and any bounds: answers match their requests as long   *)
(* as no exchange leaves a frame behind, and after that the connection     *)
(* never lags by more than the exchanges that were missed.                 *)
(***************************************************************************)
EXTENDS DoipTransport, SequenceTheorems, TLAPS

(***************************************************************************)
(* The inductive invariant: counting.                                      *)
(***************************************************************************)

Waiting == at \in {"ack", "answer"}
InFlight == IF Waiting THEN 1 ELSE 0

\* An exchange that sent a request is in flight, was missed, or has been
\* answered.
Answered == Sent - missed - InFlight

Counted ==
  /\ TypeOK
  /\ Answered >= 0
  /\ at \in {"connect", "send"} => Sent < MaxSent
  /\ ~Idle => response = NoFrame
  /\ at = "connect" => link = "none"
  /\ link # "up" => gateway = <<>> /\ ecu = <<>>

(***************************************************************************)
(* The lag.  What can still come out as a response (the final answers in   *)
(* the socket, then the ECU's requests, then the gateway's) is in the      *)
(* order of the requests, and none of it is as old as the requests         *)
(* answered are many.                                                      *)
(***************************************************************************)

FinalAt(i) == inbox[i].type \in Final

InOrder ==
  /\ \A i, j \in 1 .. Len(inbox) : i < j /\ FinalAt(i) /\ FinalAt(j) => inbox[i].for < inbox[j].for
  /\ \A i \in 1 .. Len(inbox), j \in 1 .. Len(ecu) : FinalAt(i) => inbox[i].for < ecu[j]
  /\ \A i \in 1 .. Len(inbox), j \in 1 .. Len(gateway) : FinalAt(i) => inbox[i].for < gateway[j]
  /\ \A i, j \in 1 .. Len(ecu) : i < j => ecu[i] < ecu[j]
  /\ \A i \in 1 .. Len(ecu), j \in 1 .. Len(gateway) : ecu[i] < gateway[j]
  /\ \A i, j \in 1 .. Len(gateway) : i < j => gateway[i] < gateway[j]

Ahead ==
  /\ \A i \in 1 .. Len(inbox) : inbox[i].for <= Sent /\ (FinalAt(i) => Answered < inbox[i].for)
  /\ \A i \in 1 .. Len(ecu) : Answered < ecu[i] /\ ecu[i] <= Sent
  /\ \A i \in 1 .. Len(gateway) : Answered < gateway[i] /\ gateway[i] <= Sent

Lag == InOrder /\ Ahead /\ LagBounded

(***************************************************************************)
(* The clean connection carries one request at a time, from the gateway    *)
(* to the ECU to the socket, and nothing of an earlier one.                *)
(***************************************************************************)

OneRequest ==
  /\ ~torn
  /\ Len(gateway) <= 1 /\ Len(ecu) <= 1
  /\ ~Waiting => gateway = <<>> /\ ecu = <<>> /\ inbox = <<>>
  /\ at = "answer" => gateway = <<>>
  /\ gateway # <<>> => ecu = <<>> /\ inbox = <<>>
  /\ \A i \in 1 .. Len(inbox) : inbox[i].for = Sent
  /\ \A i \in 1 .. Len(inbox) : inbox[i].type \in Final \cup {"nack"} => i = Len(inbox) /\ ecu = <<>>
  /\ \A i \in 1 .. Len(ecu) : ecu[i] = Sent
  /\ \A i \in 1 .. Len(gateway) : gateway[i] = Sent
  /\ Idle /\ response.type \in Final => response.for = Sent

TransportInv ==
  /\ Counted
  /\ Lag
  /\ clean => OneRequest

(***************************************************************************)
(* Sequences.                                                              *)
(***************************************************************************)

\* t is what is left of s when some of its first elements are gone.
Suffix(t, s) == \E d \in Nat :
  Len(t) + d = Len(s) /\ \A i \in 1 .. Len(t) : t[i] = s[i + d]

LEMMA SuffixOfSame ==
  ASSUME NEW S, NEW s \in Seq(S)
  PROVE  Suffix(s, s) /\ Suffix(<<>>, s)
<1>1. Suffix(s, s)
  <2>1. 0 \in Nat /\ Len(s) + 0 = Len(s) /\ \A i \in 1 .. Len(s) : s[i] = s[i + 0]
    OBVIOUS
  <2>2. QED
    BY <2>1 DEF Suffix
<1>2. Suffix(<<>>, s)
  <2>1. /\ Len(s) \in Nat /\ Len(<<>>) + Len(s) = Len(s)
        /\ \A i \in 1 .. Len(<<>>) : <<>>[i] = s[i + Len(s)]
    OBVIOUS
  <2>2. QED
    BY <2>1 DEF Suffix
<1>3. QED
  BY <1>1, <1>2

LEMMA SuffixOfTail ==
  ASSUME NEW S, NEW s \in Seq(S), s # <<>>
  PROVE  /\ Tail(s) \in Seq(S) /\ Suffix(Tail(s), s)
         /\ Head(s) \in S /\ Head(s) = s[1] /\ 1 \in 1 .. Len(s)
         /\ Len(Tail(s)) + 1 = Len(s)
         /\ \A i \in 1 .. Len(Tail(s)) : Tail(s)[i] = s[i + 1] /\ i + 1 \in 1 .. Len(s)
<1>1. Len(s) \in Nat /\ Len(s) > 0
  BY EmptySeq
<1>2. /\ Tail(s) \in Seq(S) /\ Len(Tail(s)) = Len(s) - 1
      /\ \A i \in 1 .. Len(Tail(s)) : Tail(s)[i] = s[i + 1]
  BY HeadTailProperties
<1>3. Head(s) \in S /\ Head(s) = s[1]
  BY HeadTailProperties, <1>1
<1>4. Suffix(Tail(s), s)
  <2>1. 1 \in Nat /\ Len(Tail(s)) + 1 = Len(s)
    BY <1>1, <1>2
  <2>2. QED
    BY <1>2, <2>1 DEF Suffix
<1>5. QED
  BY <1>1, <1>2, <1>3, <1>4

LEMMA SuffixOfSubSeq ==
  ASSUME NEW S, NEW s \in Seq(S), NEW i \in 1 .. Len(s) + 1
  PROVE  SubSeq(s, i, Len(s)) \in Seq(S) /\ Suffix(SubSeq(s, i, Len(s)), s)
<1> DEFINE t == SubSeq(s, i, Len(s))
<1>1. Len(s) \in Nat
  OBVIOUS
<1>2. t \in Seq(S) /\ Len(t) = Len(s) - i + 1 /\ \A j \in 1 .. Len(t) : t[j] = s[i + j - 1]
  BY <1>1, SubSeqProperties
<1>3. i - 1 \in Nat /\ Len(t) + (i - 1) = Len(s) /\ \A j \in 1 .. Len(t) : t[j] = s[j + (i - 1)]
  BY <1>1, <1>2
<1>4. QED
  BY <1>2, <1>3 DEF Suffix

LEMMA Appended ==
  ASSUME NEW S, NEW s \in Seq(S), NEW x \in S
  PROVE  /\ Append(s, x) \in Seq(S) /\ Append(s, x) # <<>>
         /\ Len(Append(s, x)) = Len(s) + 1 /\ Len(s) \in Nat
         /\ \A i \in 1 .. Len(s) : Append(s, x)[i] = s[i]
         /\ Append(s, x)[Len(s) + 1] = x
         /\ \A i \in 1 .. Len(Append(s, x)) : i \in 1 .. Len(s) \/ i = Len(s) + 1
<1>1. Len(s) \in Nat
  OBVIOUS
<1>2. QED
  BY <1>1, AppendProperties

(***************************************************************************)
(* What the reading steps have in common: the exchange goes on, or ends    *)
(* without a final answer, or returns the first frame as one.              *)
(***************************************************************************)

Reading == ReadAck \/ ReadAnswer \/ ReadTorn \/ Timeout \/ TimeoutInFrame \/ PeerClosed

GoesOn == Waiting' /\ response' = response /\ missed' = missed
Misses == /\ at' = "idle" /\ missed' = missed + 1
          /\ response' \in Frame \cup {NoFrame} /\ response'.type \notin Final
Returns == /\ at' = "idle" /\ missed' = missed
           /\ inbox # <<>> /\ inbox' = Tail(inbox)
           /\ response' = Head(inbox) /\ response'.type \in Final

LEMMA FailMisses == ASSUME NEW spoils \in BOOLEAN, Fail(spoils) PROVE Misses
BY DEF Fail, Misses, NoFrame, Final

LEMMA ReadingStep ==
  ASSUME Counted, Reading
  PROVE  /\ Waiting /\ UNCHANGED <<link, kind, asked, gateway, ecu>>
         /\ inbox' \in Seq(Frame) /\ Suffix(inbox', inbox)
         /\ attempts' \in 0 .. MaxPending /\ torn' \in BOOLEAN /\ clean' \in BOOLEAN
         /\ GoesOn \/ Misses \/ Returns
<1>1. /\ inbox \in Seq(Frame) /\ torn \in BOOLEAN /\ clean \in BOOLEAN
      /\ attempts \in 0 .. MaxPending /\ MaxPending \in Nat
  BY DoipTransportAssumption DEF Counted, TypeOK
<1>2. Suffix(inbox, inbox)
  BY <1>1, SuffixOfSame
<1>3. inbox # <<>> => Tail(inbox) \in Seq(Frame) /\ Suffix(Tail(inbox), inbox) /\ Head(inbox) \in Frame
  BY <1>1, SuffixOfTail
<1>4. CASE ReadAck
  <2>1. /\ at = "ack" /\ inbox # <<>> /\ inbox' = Tail(inbox)
        /\ UNCHANGED <<link, kind, attempts, asked, gateway, ecu, torn>>
    BY <1>4 DEF ReadAck, outside
  <2>2. \/ at' = "answer" /\ UNCHANGED <<response, missed, clean>>
        \/ \E spoils \in BOOLEAN : Fail(spoils)
    BY <1>4 DEF ReadAck
  <2>3. clean' \in BOOLEAN /\ (GoesOn \/ Misses)
    BY <1>1, <2>2, FailMisses DEF GoesOn, Waiting, Fail
  <2>4. QED
    BY <1>1, <1>3, <2>1, <2>3 DEF Waiting
<1>5. CASE ReadAnswer
  <2>1. /\ at = "answer" /\ inbox # <<>> /\ inbox' = Tail(inbox)
        /\ UNCHANGED <<link, kind, asked, gateway, ecu>>
    BY <1>5 DEF ReadAnswer, outside
  <2>2. Head(inbox) \in Frame
    BY <1>3, <2>1
  <2>3. /\ attempts' \in 0 .. MaxPending /\ torn' \in BOOLEAN /\ clean' \in BOOLEAN
        /\ GoesOn \/ Misses \/ Returns
    <3>1. CASE Head(inbox).type = "pending" /\ PendingLeft /\ attempts' = attempts + 1
               /\ UNCHANGED <<at, torn, response, missed, clean>>
      BY <1>1, <2>1, <3>1 DEF PendingLeft, GoesOn, Waiting
    <3>2. CASE /\ Head(inbox).type = "pending" /\ at' = "idle" /\ response' = Head(inbox)
               /\ missed' = missed + 1 /\ clean' = FALSE /\ UNCHANGED <<attempts, torn>>
      BY <1>1, <2>1, <2>2, <3>2 DEF Misses, Final
    <3>3. CASE /\ Head(inbox).type \in Final /\ at' = "idle" /\ response' = Head(inbox)
               /\ UNCHANGED <<attempts, torn, missed, clean>>
      BY <1>1, <2>1, <3>3 DEF Returns
    <3>4. CASE torn' = TRUE /\ Fail(TRUE) /\ UNCHANGED attempts
      BY <1>1, <3>4, FailMisses DEF Fail
    <3>5. QED
      BY <1>5, <3>1, <3>2, <3>3, <3>4 DEF ReadAnswer
  <2>4. QED
    BY <1>3, <2>1, <2>3 DEF Waiting
<1>6. CASE ReadTorn
  <2>1. /\ at \in {"ack", "answer"} /\ UNCHANGED <<link, kind, attempts, asked, gateway, ecu>>
        /\ Fail(TRUE) /\ torn' \in BOOLEAN
    BY <1>1, <1>6 DEF ReadTorn, outside
  <2>2. inbox' \in Seq(Frame) /\ Suffix(inbox', inbox)
    <3>1. CASE inbox' = inbox
      BY <3>1, <1>1, <1>2
    <3>2. CASE \E i \in 1 .. Len(inbox) + 1 : inbox' = SubSeq(inbox, i, Len(inbox))
      BY <3>2, <1>1, SuffixOfSubSeq
    <3>3. QED
      BY <1>6, <3>1, <3>2 DEF ReadTorn
  <2>3. QED
    BY <1>1, <2>1, <2>2, FailMisses DEF Waiting, Fail
<1>7. CASE Timeout \/ PeerClosed
  <2>1. /\ at \in {"ack", "answer"} /\ UNCHANGED <<link, kind, attempts, asked, gateway, ecu, inbox, torn>>
        /\ Fail(TRUE) \/ Fail(FALSE)
    BY <1>7 DEF Timeout, PeerClosed, outside
  <2>2. clean' \in BOOLEAN /\ Misses
    BY <1>1, <2>1, FailMisses DEF Fail
  <2>3. QED
    BY <1>1, <1>2, <2>1, <2>2 DEF Waiting
<1>8. CASE TimeoutInFrame
  BY <1>1, <1>3, <1>8, FailMisses DEF TimeoutInFrame, Waiting, Fail, outside
<1>9. QED
  BY <1>4, <1>5, <1>6, <1>7, <1>8 DEF Reading

(***************************************************************************)
(* Counting.                                                               *)
(***************************************************************************)

LEMMA SentIsNat == ASSUME Counted PROVE Sent \in Nat /\ missed \in Nat /\ InFlight \in {0, 1}
BY DEF Counted, TypeOK, Sent, InFlight

\* A reading step counts at most one exchange as answered.
LEMMA ReadingCounted ==
  ASSUME Counted, Reading
  PROVE  /\ Counted' /\ Sent' = Sent
         /\ Answered' = IF Returns THEN Answered + 1 ELSE Answered
<1>1. Sent \in Nat /\ missed \in Nat /\ MaxSent \in Nat /\ Sent <= MaxSent
  BY SentIsNat, DoipTransportAssumption DEF Counted, TypeOK
<1>2. Waiting /\ Sent' = Sent /\ asked' = asked
  BY ReadingStep DEF Sent
<1>3. InFlight = 1 /\ Sent - missed - 1 >= 0
  BY <1>2 DEF InFlight, Counted, Answered
<1>4. /\ missed' \in 0 .. MaxSent /\ Answered' >= 0
      /\ Answered' = IF Returns THEN Answered + 1 ELSE Answered
  <2>1. CASE GoesOn
    <3>1. InFlight' = 1 /\ ~Returns
      BY <2>1 DEF GoesOn, Waiting, InFlight, Returns
    <3>2. QED
      BY <1>1, <1>2, <1>3, <2>1, <3>1 DEF GoesOn, Answered
  <2>2. CASE Misses
    <3>1. InFlight' = 0 /\ ~Returns
      BY <1>1, <2>2 DEF Misses, Waiting, InFlight, Returns
    <3>2. QED
      BY <1>1, <1>2, <1>3, <2>2, <3>1 DEF Misses, Answered
  <2>3. CASE Returns
    <3>1. InFlight' = 0
      BY <2>3 DEF Returns, Waiting, InFlight
    <3>2. QED
      BY <1>1, <1>2, <1>3, <2>3, <3>1 DEF Returns, Answered
  <2>4. QED
    BY <2>1, <2>2, <2>3, ReadingStep
<1>5. /\ at' \in {"idle", "ack", "answer"} /\ response' \in Frame \cup {NoFrame}
      /\ ~Idle' => response' = NoFrame
  <2>1. CASE GoesOn
    BY <1>2, <2>1 DEF GoesOn, Waiting, Counted, TypeOK, Idle
  <2>2. CASE Misses
    BY <2>2 DEF Misses, Idle
  <2>3. CASE Returns
    BY <2>3, SuffixOfTail DEF Returns, Idle, Counted, TypeOK
  <2>4. QED
    BY <2>1, <2>2, <2>3, ReadingStep
<1>6. TypeOK'
  BY <1>2, <1>4, <1>5, ReadingStep DEF Counted, TypeOK
<1>7. QED
  BY <1>2, <1>4, <1>5, <1>6, ReadingStep DEF Counted

\* So does no other step count any; a request sent is in flight.
LEMMA BeginCounted ==
  ASSUME Counted, NEW k \in Kind, Begin(k)
  PROVE  Counted' /\ Sent' = Sent /\ Answered' = Answered
<1>1. /\ at = "idle" /\ at' \in {"connect", "send"} /\ Sent < MaxSent /\ response' = NoFrame
      /\ kind' = k /\ attempts' = 0 /\ (at' = "connect" => link = "none")
      /\ UNCHANGED <<link, asked, gateway, ecu, inbox, torn, missed, clean>>
  BY DEF Begin, Idle, IsConnected, outside
<1>2. Sent' = Sent /\ InFlight' = InFlight /\ Answered' = Answered
  BY <1>1 DEF Sent, InFlight, Waiting, Answered
<1>3. 0 \in 0 .. MaxPending
  BY DoipTransportAssumption
<1>4. TypeOK'
  BY <1>1, <1>2, <1>3 DEF Counted, TypeOK
<1>5. QED
  BY <1>1, <1>2, <1>4 DEF Counted, Idle

LEMMA ConnectCounted ==
  ASSUME Counted, Connect
  PROVE  Counted' /\ Sent' = Sent /\ Answered' = Answered
<1>1. /\ at = "connect" /\ at' \in {"send", "idle"} /\ link = "none" /\ link' \in {"up", "none"}
      /\ UNCHANGED <<kind, attempts, asked, gateway, ecu, inbox, torn, response, missed, clean>>
  BY DEF Connect, outside, Counted
<1>2. Sent' = Sent /\ InFlight' = InFlight /\ Answered' = Answered
  BY <1>1 DEF Sent, InFlight, Waiting, Answered
<1>3. TypeOK'
  BY <1>1, <1>2 DEF Counted, TypeOK
<1>4. QED
  BY <1>1, <1>2, <1>3 DEF Counted, Idle

LEMMA CutCounted ==
  ASSUME Counted, Cut
  PROVE  Counted' /\ Sent' = Sent /\ Answered' = Answered
<1>1. /\ link = "up" /\ link' = "cut" /\ gateway' = <<>> /\ ecu' = <<>>
      /\ UNCHANGED <<at, kind, attempts, asked, inbox, torn, response, missed, clean>>
  BY DEF Cut
<1>2. Sent' = Sent /\ InFlight' = InFlight /\ Answered' = Answered
  BY <1>1 DEF Sent, InFlight, Waiting, Answered
<1>3. TypeOK'
  BY <1>1, <1>2 DEF Counted, TypeOK
<1>4. QED
  BY <1>1, <1>2, <1>3 DEF Counted, Idle

\* The other end moves its requests along and adds to the socket.
OtherEnd == Acknowledge \/ Answer

LEMMA OtherEndCounted ==
  ASSUME Counted, OtherEnd
  PROVE  Counted' /\ Sent' = Sent /\ Answered' = Answered
<1>1. /\ UNCHANGED <<link, at, kind, attempts, asked, torn, response, missed, clean>>
      /\ link = "up"
  BY DEF OtherEnd, Acknowledge, Answer, Counted
<1>2. Sent' = Sent /\ InFlight' = InFlight /\ Answered' = Answered
  BY <1>1 DEF Sent, InFlight, Waiting, Answered
<1>3. ASSUME NEW type \in Messages \cup Acks, NEW n \in Requests, Deliver(type, n)
      PROVE  inbox' \in Seq(Frame)
  <2>1. [type |-> type, for |-> n] \in Frame
    BY DEF Frame
  <2>2. QED
    BY <1>3, <2>1, Appended DEF Deliver, Counted, TypeOK
<1>4. gateway' \in Seq(Requests) /\ ecu' \in Seq(Requests) /\ inbox' \in Seq(Frame)
  <2>1. gateway \in Seq(Requests) /\ ecu \in Seq(Requests) /\ inbox \in Seq(Frame)
    BY DEF Counted, TypeOK
  <2>2. CASE Acknowledge
    <3>1. gateway # <<>> /\ gateway' = Tail(gateway)
      BY <2>2 DEF Acknowledge
    <3>2. gateway' \in Seq(Requests) /\ Head(gateway) \in Requests
      BY <2>1, <3>1, SuffixOfTail
    <3>3. Append(ecu, Head(gateway)) \in Seq(Requests)
      BY <2>1, <3>2, Appended
    <3>4. QED
      BY <2>1, <2>2, <3>2, <3>3, <1>3 DEF Acknowledge, Acks
  <2>3. CASE Answer
    <3>1. ecu # <<>> /\ gateway' = gateway
      BY <2>3 DEF Answer
    <3>2. Tail(ecu) \in Seq(Requests) /\ Head(ecu) \in Requests
      BY <2>1, <3>1, SuffixOfTail
    <3>3. QED
      BY <2>1, <2>3, <3>1, <3>2, <1>3 DEF Answer, Messages
  <2>4. QED
    BY <2>2, <2>3 DEF OtherEnd
<1>5. TypeOK'
  BY <1>1, <1>2, <1>4 DEF Counted, TypeOK
<1>6. QED
  BY <1>1, <1>2, <1>5 DEF Counted, Idle

\* A request that was sent, or a send that failed.
Sends == /\ asked' = Append(asked, kind)
         /\ gateway' = IF link = "up" THEN Append(gateway, Sent + 1) ELSE gateway
         /\ at' = "ack"
SendFails == at' = "idle" /\ link = "cut" /\ UNCHANGED <<asked, gateway>>

LEMMA SendCounted ==
  ASSUME Counted, Send
  PROVE  /\ Counted' /\ Answered' = Answered
         /\ (Sends /\ Sent' = Sent + 1) \/ (SendFails /\ Sent' = Sent)
         /\ UNCHANGED <<link, kind, attempts, ecu, inbox, torn, response, missed, clean>>
<1>1. /\ at = "send" /\ Sent < MaxSent /\ response = NoFrame /\ (Sends \/ SendFails)
      /\ UNCHANGED <<link, kind, attempts, ecu, inbox, torn, response, missed, clean>>
  BY DEF Send, Sends, SendFails, Counted, Idle
<1>2. Sent \in Nat /\ missed \in Nat /\ MaxSent \in Nat
  BY SentIsNat, DoipTransportAssumption
<1>3. CASE Sends
  <2>1. asked' \in Seq(Kind) /\ Sent' = Sent + 1
    BY <1>3, Appended DEF Sends, Sent, Counted, TypeOK
  <2>2. gateway' \in Seq(Requests) /\ (link # "up" => gateway' = gateway)
    <3>1. Sent + 1 \in Requests
      BY <1>1, <1>2 DEF Requests
    <3>2. QED
      BY <3>1, <1>3, Appended DEF Sends, Counted, TypeOK
  <2>3. InFlight = 0 /\ InFlight' = 1
    BY <1>1, <1>3 DEF Sends, InFlight, Waiting
  <2>4. Answered' = Answered
    BY <1>1, <1>2, <2>1, <2>3 DEF Answered
  <2>5. TypeOK'
    BY <1>1, <1>2, <1>3, <2>1, <2>2 DEF Sends, Counted, TypeOK
  <2>6. QED
    BY <1>1, <1>3, <2>1, <2>2, <2>4, <2>5 DEF Sends, Counted, Idle
<1>4. CASE SendFails
  <2>1. Sent' = Sent /\ InFlight' = InFlight /\ Answered' = Answered
    BY <1>1, <1>4 DEF SendFails, Sent, InFlight, Waiting, Answered
  <2>2. TypeOK'
    BY <1>1, <1>4, <2>1 DEF SendFails, Counted, TypeOK
  <2>3. QED
    BY <1>1, <1>4, <2>1, <2>2 DEF SendFails, Counted, Idle
<1>5. QED
  BY <1>1, <1>3, <1>4

(***************************************************************************)
(* The lag.                                                                *)
(***************************************************************************)

\* What is lost from the front of the queues upsets no order.
LEMMA SuffixInOrder ==
  ASSUME InOrder, inbox \in Seq(Frame), inbox' \in Seq(Frame), ecu \in Seq(Requests),
         ecu' \in Seq(Requests), gateway \in Seq(Requests), gateway' \in Seq(Requests),
         Suffix(inbox', inbox), Suffix(ecu', ecu), Suffix(gateway', gateway)
  PROVE  InOrder'
<1>1. PICK a \in Nat : /\ Len(inbox') + a = Len(inbox)
                       /\ \A i \in 1 .. Len(inbox') : inbox'[i] = inbox[i + a]
  BY DEF Suffix
<1>2. PICK b \in Nat : /\ Len(ecu') + b = Len(ecu)
                       /\ \A i \in 1 .. Len(ecu') : ecu'[i] = ecu[i + b]
  BY DEF Suffix
<1>3. PICK c \in Nat : /\ Len(gateway') + c = Len(gateway)
                       /\ \A i \in 1 .. Len(gateway') : gateway'[i] = gateway[i + c]
  BY DEF Suffix
<1>4. /\ Len(inbox) \in Nat /\ Len(inbox') \in Nat /\ Len(ecu) \in Nat /\ Len(ecu') \in Nat
      /\ Len(gateway) \in Nat /\ Len(gateway') \in Nat
  OBVIOUS
<1>5. \A i \in 1 .. Len(inbox') : i + a \in 1 .. Len(inbox) /\ (FinalAt(i)' <=> FinalAt(i + a))
  BY <1>1, <1>4 DEF FinalAt
<1>6. /\ \A i \in 1 .. Len(ecu') : i + b \in 1 .. Len(ecu)
      /\ \A i \in 1 .. Len(gateway') : i + c \in 1 .. Len(gateway)
  BY <1>2, <1>3, <1>4
<1>7. ASSUME NEW i \in 1 .. Len(inbox'), NEW j \in 1 .. Len(inbox'), i < j, FinalAt(i)', FinalAt(j)'
      PROVE  inbox'[i].for < inbox'[j].for
  <2>1. i + a < j + a
    BY <1>1, <1>4, <1>7
  <2>2. QED
    BY <2>1, <1>1, <1>5, <1>7 DEF InOrder
<1>8. ASSUME NEW i \in 1 .. Len(inbox'), FinalAt(i)'
      PROVE  /\ \A j \in 1 .. Len(ecu') : inbox'[i].for < ecu'[j]
             /\ \A j \in 1 .. Len(gateway') : inbox'[i].for < gateway'[j]
  BY <1>1, <1>2, <1>3, <1>5, <1>6, <1>8 DEF InOrder
<1>9. ASSUME NEW i \in 1 .. Len(ecu'), NEW j \in 1 .. Len(ecu'), i < j
      PROVE  ecu'[i] < ecu'[j]
  <2>1. i + b < j + b
    BY <1>2, <1>4, <1>9
  <2>2. QED
    BY <2>1, <1>2, <1>6 DEF InOrder
<1>10. ASSUME NEW i \in 1 .. Len(ecu'), NEW j \in 1 .. Len(gateway')
       PROVE  ecu'[i] < gateway'[j]
  BY <1>2, <1>3, <1>6 DEF InOrder
<1>11. ASSUME NEW i \in 1 .. Len(gateway'), NEW j \in 1 .. Len(gateway'), i < j
       PROVE  gateway'[i] < gateway'[j]
  <2>1. i + c < j + c
    BY <1>3, <1>4, <1>11
  <2>2. QED
    BY <2>1, <1>3, <1>6 DEF InOrder
<1>12. QED
  BY <1>7, <1>8, <1>9, <1>10, <1>11 DEF InOrder

\* Nor does it bring anything older forward.
LEMMA SuffixAhead ==
  ASSUME Ahead, inbox \in Seq(Frame), inbox' \in Seq(Frame), ecu \in Seq(Requests),
         ecu' \in Seq(Requests), gateway \in Seq(Requests), gateway' \in Seq(Requests),
         Suffix(inbox', inbox), Suffix(ecu', ecu), Suffix(gateway', gateway),
         Answered' = Answered, Sent' = Sent
  PROVE  Ahead'
<1>1. PICK a \in Nat : /\ Len(inbox') + a = Len(inbox)
                       /\ \A i \in 1 .. Len(inbox') : inbox'[i] = inbox[i + a]
  BY DEF Suffix
<1>2. PICK b \in Nat : /\ Len(ecu') + b = Len(ecu)
                       /\ \A i \in 1 .. Len(ecu') : ecu'[i] = ecu[i + b]
  BY DEF Suffix
<1>3. PICK c \in Nat : /\ Len(gateway') + c = Len(gateway)
                       /\ \A i \in 1 .. Len(gateway') : gateway'[i] = gateway[i + c]
  BY DEF Suffix
<1>4. /\ Len(inbox) \in Nat /\ Len(inbox') \in Nat /\ Len(ecu) \in Nat /\ Len(ecu') \in Nat
      /\ Len(gateway) \in Nat /\ Len(gateway') \in Nat
  OBVIOUS
<1>5. \A i \in 1 .. Len(inbox') : i + a \in 1 .. Len(inbox) /\ (FinalAt(i)' <=> FinalAt(i + a))
  BY <1>1, <1>4 DEF FinalAt
<1>6. /\ \A i \in 1 .. Len(ecu') : i + b \in 1 .. Len(ecu)
      /\ \A i \in 1 .. Len(gateway') : i + c \in 1 .. Len(gateway)
  BY <1>2, <1>3, <1>4
<1>7. \A i \in 1 .. Len(inbox') :
        inbox'[i].for <= Sent' /\ (FinalAt(i)' => Answered' < inbox'[i].for)
  BY <1>1, <1>5 DEF Ahead
<1>8. /\ \A i \in 1 .. Len(ecu') : Answered' < ecu'[i] /\ ecu'[i] <= Sent'
      /\ \A i \in 1 .. Len(gateway') : Answered' < gateway'[i] /\ gateway'[i] <= Sent'
  BY <1>2, <1>3, <1>6 DEF Ahead
<1>9. QED
  BY <1>7, <1>8 DEF Ahead

LEMMA QueueTypes ==
  ASSUME Counted
  PROVE  /\ inbox \in Seq(Frame) /\ ecu \in Seq(Requests) /\ gateway \in Seq(Requests)
         /\ Suffix(inbox, inbox) /\ Suffix(ecu, ecu) /\ Suffix(gateway, gateway)
         /\ Suffix(<<>>, ecu) /\ Suffix(<<>>, gateway)
         /\ <<>> \in Seq(Requests)
BY SuffixOfSame DEF Counted, TypeOK

LEMMA NumbersAreInts ==
  ASSUME inbox \in Seq(Frame), ecu \in Seq(Requests), gateway \in Seq(Requests)
  PROVE  /\ \A i \in 1 .. Len(inbox) : inbox[i] \in Frame /\ inbox[i].for \in Int
         /\ \A i \in 1 .. Len(ecu) : ecu[i] \in Int
         /\ \A i \in 1 .. Len(gateway) : gateway[i] \in Int
<1>1. \A i \in 1 .. Len(inbox) : inbox[i] \in Frame
  OBVIOUS
<1>2. \A i \in 1 .. Len(ecu) : ecu[i] \in Requests
  OBVIOUS
<1>3. \A i \in 1 .. Len(gateway) : gateway[i] \in Requests
  OBVIOUS
<1>4. QED
  BY <1>1, <1>2, <1>3 DEF Frame, Requests

\* A final answer taken off the socket is behind none of what is left.
LEMMA ReadingLag ==
  ASSUME Counted, Lag, Reading
  PROVE  Lag'
<1>1. Counted' /\ Sent' = Sent /\ Answered' = IF Returns THEN Answered + 1 ELSE Answered
  BY ReadingCounted
<1>2. /\ Waiting /\ ecu' = ecu /\ gateway' = gateway
      /\ inbox' \in Seq(Frame) /\ Suffix(inbox', inbox)
      /\ GoesOn \/ Misses \/ Returns
  BY ReadingStep
<1>3. InOrder'
  BY <1>2, QueueTypes, SuffixInOrder DEF Lag
<1>4. CASE ~Returns
  <2>1. Ahead'
    BY <1>1, <1>2, <1>4, QueueTypes, SuffixAhead DEF Lag
  <2>2. LagBounded'
    BY <1>2, <1>4 DEF GoesOn, Misses, LagBounded, Waiting, Idle
  <2>3. QED
    BY <1>3, <2>1, <2>2 DEF Lag
<1>5. CASE Returns
  <2>1. /\ inbox # <<>> /\ inbox' = Tail(inbox) /\ response' = inbox[1] /\ FinalAt(1)
        /\ 1 \in 1 .. Len(inbox) /\ inbox[1] \in Frame
        /\ Len(inbox') + 1 = Len(inbox) /\ Len(inbox') \in Nat
        /\ \A i \in 1 .. Len(inbox') : inbox'[i] = inbox[i + 1] /\ i + 1 \in 1 .. Len(inbox)
    BY <1>2, <1>5, QueueTypes, SuffixOfTail DEF Returns, FinalAt
  <2>2. /\ Answered < inbox[1].for /\ inbox[1].for <= Sent /\ Answered' = Answered + 1
        /\ Answered \in Int /\ inbox[1].for \in Int /\ Sent \in Int
    <3>1. Answered \in Int /\ Sent \in Int
      BY SentIsNat DEF Answered
    <3>2. inbox[1].for \in Int
      BY <2>1 DEF Frame, Requests
    <3>3. QED
      BY <1>1, <1>5, <2>1, <3>1, <3>2 DEF Lag, Ahead
  <2>3. \A i \in 1 .. Len(inbox') :
          inbox'[i].for <= Sent' /\ (FinalAt(i)' => Answered' < inbox'[i].for)
    <3> SUFFICES ASSUME NEW i \in 1 .. Len(inbox')
                 PROVE  inbox'[i].for <= Sent' /\ (FinalAt(i)' => Answered' < inbox'[i].for)
      OBVIOUS
    <3>1. inbox'[i] = inbox[i + 1] /\ i + 1 \in 1 .. Len(inbox) /\ 1 < i + 1 /\ inbox'[i].for \in Int
      <4>1. inbox'[i] = inbox[i + 1] /\ i + 1 \in 1 .. Len(inbox)
        BY <2>1
      <4>2. 1 < i + 1
        BY <2>1
      <4>3. QED
        BY <4>1, <4>2, QueueTypes, NumbersAreInts
    <3>2. inbox'[i].for <= Sent'
      BY <1>1, <3>1 DEF Lag, Ahead
    <3>3. FinalAt(i)' => inbox[1].for < inbox'[i].for
      BY <2>1, <3>1 DEF Lag, InOrder, FinalAt
    <3>4. QED
      BY <2>2, <3>1, <3>2, <3>3
  <2>4. \A i \in 1 .. Len(ecu) : Answered' < ecu[i] /\ ecu[i] <= Sent
    <3> SUFFICES ASSUME NEW i \in 1 .. Len(ecu) PROVE Answered' < ecu[i] /\ ecu[i] <= Sent
      OBVIOUS
    <3>1. ecu[i] \in Int /\ ecu[i] <= Sent /\ inbox[1].for < ecu[i]
      BY <2>1, QueueTypes, NumbersAreInts DEF Lag, Ahead, InOrder
    <3>2. QED
      BY <2>2, <3>1
  <2>5. \A i \in 1 .. Len(gateway) : Answered' < gateway[i] /\ gateway[i] <= Sent
    <3> SUFFICES ASSUME NEW i \in 1 .. Len(gateway) PROVE Answered' < gateway[i] /\ gateway[i] <= Sent
      OBVIOUS
    <3>1. gateway[i] \in Int /\ gateway[i] <= Sent /\ inbox[1].for < gateway[i]
      BY <2>1, QueueTypes, NumbersAreInts DEF Lag, Ahead, InOrder
    <3>2. QED
      BY <2>2, <3>1
  <2>6. Ahead'
    BY <1>1, <1>2, <2>3, <2>4, <2>5 DEF Ahead
  <2>7. LagBounded'
    <3>1. missed' = missed /\ InFlight = 1 /\ missed \in Nat
      BY <1>2, <1>5, SentIsNat DEF Returns, InFlight
    <3>2. QED
      BY <1>1, <2>1, <2>2, <3>1 DEF LagBounded, Answered
  <2>8. QED
    BY <1>3, <2>6, <2>7 DEF Lag
<1>6. QED
  BY <1>4, <1>5

LEMMA BeginLag ==
  ASSUME Counted, Lag, NEW k \in Kind, Begin(k)
  PROVE  Lag'
<1>1. UNCHANGED <<gateway, ecu, inbox>> /\ at' # "idle"
  BY DEF Begin, outside
<1>2. InOrder' /\ Ahead'
  BY <1>1, BeginCounted, QueueTypes, SuffixInOrder, SuffixAhead DEF Lag
<1>3. QED
  BY <1>1, <1>2 DEF Lag, LagBounded, Idle

LEMMA ConnectLag ==
  ASSUME Counted, Lag, Connect
  PROVE  Lag'
<1>1. UNCHANGED <<gateway, ecu, inbox>> /\ response' = NoFrame
  BY DEF Connect, outside, Counted, Idle
<1>2. InOrder' /\ Ahead'
  BY <1>1, ConnectCounted, QueueTypes, SuffixInOrder, SuffixAhead DEF Lag
<1>3. QED
  BY <1>1, <1>2 DEF Lag, LagBounded, NoFrame, Final

LEMMA CutLag ==
  ASSUME Counted, Lag, Cut
  PROVE  Lag'
<1>1. gateway' = <<>> /\ ecu' = <<>> /\ UNCHANGED <<inbox, at, response, missed>>
  BY DEF Cut
<1>2. InOrder' /\ Ahead'
  BY <1>1, CutCounted, QueueTypes, SuffixInOrder, SuffixAhead DEF Lag
<1>3. LagBounded'
  BY <1>1, CutCounted DEF Lag, LagBounded, Idle
<1>4. QED
  BY <1>2, <1>3 DEF Lag

\* A request sent is newer than all that is under way.
LEMMA SendLag ==
  ASSUME Counted, Lag, Send
  PROVE  Lag'
<1>1. /\ Counted' /\ Answered' = Answered
      /\ (Sends /\ Sent' = Sent + 1) \/ (SendFails /\ Sent' = Sent)
      /\ UNCHANGED <<ecu, inbox, response>>
  BY SendCounted
<1>2. response' = NoFrame
  BY <1>1 DEF Send, Counted, Idle
<1>3. LagBounded'
  BY <1>2 DEF LagBounded, NoFrame, Final
<1>4. CASE gateway' = gateway
  <2>1. InOrder'
    BY <1>1, <1>4, QueueTypes, SuffixInOrder DEF Lag
  <2>2. Sent \in Int /\ Sent <= Sent'
    BY <1>1, SentIsNat
  <2>3. Ahead'
    <3>1. /\ \A i \in 1 .. Len(inbox) : inbox[i].for <= Sent'
          /\ \A i \in 1 .. Len(ecu) : ecu[i] <= Sent'
          /\ \A i \in 1 .. Len(gateway) : gateway[i] <= Sent'
      BY <1>1, <2>2, QueueTypes, NumbersAreInts DEF Lag, Ahead
    <3>2. QED
      BY <1>1, <1>4, <3>1 DEF Lag, Ahead, FinalAt
  <2>4. QED
    BY <1>3, <2>1, <2>3 DEF Lag
<1>5. CASE gateway' # gateway
  <2>1. Sent' = Sent + 1 /\ gateway' = Append(gateway, Sent')
    BY <1>1, <1>5 DEF Sends, SendFails
  <2>2. /\ Len(gateway') = Len(gateway) + 1 /\ Len(gateway) \in Nat
        /\ \A i \in 1 .. Len(gateway) : gateway'[i] = gateway[i]
        /\ gateway'[Len(gateway) + 1] = Sent'
        /\ \A i \in 1 .. Len(gateway') : i \in 1 .. Len(gateway) \/ i = Len(gateway) + 1
    <3>1. Sent' \in Requests
      BY <1>1, <2>1, SentIsNat DEF Counted, TypeOK, Requests
    <3>2. QED
      BY <2>1, <3>1, QueueTypes, Appended
  <2>3. /\ Sent \in Int /\ Answered \in Int /\ Answered <= Sent
        /\ \A i \in 1 .. Len(inbox) : inbox[i].for < Sent'
        /\ \A i \in 1 .. Len(ecu) : ecu[i] < Sent'
        /\ \A i \in 1 .. Len(gateway) : gateway[i] < Sent'
    <3>1. Sent \in Int /\ Answered \in Int /\ Answered <= Sent
      BY SentIsNat DEF Answered
    <3>2. QED
      BY <2>1, <3>1, QueueTypes, NumbersAreInts DEF Lag, Ahead
  <2>4. InOrder'
    <3>1. \A i, j \in 1 .. Len(gateway') : i < j => gateway'[i] < gateway'[j]
      BY <2>2, <2>3 DEF Lag, InOrder
    <3>2. /\ \A i \in 1 .. Len(inbox), j \in 1 .. Len(gateway') : FinalAt(i) => inbox[i].for < gateway'[j]
          /\ \A i \in 1 .. Len(ecu), j \in 1 .. Len(gateway') : ecu[i] < gateway'[j]
      BY <2>2, <2>3 DEF Lag, InOrder
    <3>3. QED
      BY <1>1, <3>1, <3>2 DEF Lag, InOrder, FinalAt
  <2>5. Ahead'
    <3>1. /\ \A i \in 1 .. Len(inbox) : inbox[i].for <= Sent'
          /\ \A i \in 1 .. Len(ecu) : ecu[i] <= Sent'
      BY <2>1, <2>3, QueueTypes, NumbersAreInts
    <3>2. \A i \in 1 .. Len(gateway') : Answered < gateway'[i] /\ gateway'[i] <= Sent'
      BY <2>1, <2>2, <2>3, QueueTypes, NumbersAreInts DEF Lag, Ahead
    <3>3. QED
      BY <1>1, <3>1, <3>2 DEF Lag, Ahead, FinalAt
  <2>6. QED
    BY <1>3, <2>4, <2>5 DEF Lag
<1>6. QED
  BY <1>4, <1>5

\* A frame put into the socket.
LEMMA Delivered ==
  ASSUME Counted, NEW type \in Messages \cup Acks, NEW n \in Requests, Deliver(type, n)
  PROVE  /\ Len(inbox') = Len(inbox) + 1 /\ Len(inbox) \in Nat
         /\ \A i \in 1 .. Len(inbox) : inbox'[i] = inbox[i] /\ (FinalAt(i)' <=> FinalAt(i))
         /\ inbox'[Len(inbox) + 1].for = n /\ inbox'[Len(inbox) + 1].type = type
         /\ \A i \in 1 .. Len(inbox') : i \in 1 .. Len(inbox) \/ i = Len(inbox) + 1
<1>1. [type |-> type, for |-> n] \in Frame
  BY DEF Frame
<1>2. QED
  BY <1>1, QueueTypes, Appended DEF Deliver, FinalAt

\* The gateway passes its first request on.
LEMMA AcknowledgeLag ==
  ASSUME Counted, Lag, Acknowledge
  PROVE  Lag'
<1>1. UNCHANGED <<at, response, missed>> /\ Sent' = Sent /\ Answered' = Answered
  BY OtherEndCounted DEF Acknowledge, OtherEnd
<1>2. /\ gateway # <<>> /\ gateway' = Tail(gateway) /\ Head(gateway) = gateway[1]
      /\ 1 \in 1 .. Len(gateway) /\ Head(gateway) \in Requests /\ Len(gateway) \in Nat
      /\ \A i \in 1 .. Len(gateway') : gateway'[i] = gateway[i + 1] /\ i + 1 \in 1 .. Len(gateway)
      /\ Len(gateway') + 1 = Len(gateway)
  BY QueueTypes, SuffixOfTail DEF Acknowledge
<1>3. /\ \A i \in 1 .. Len(inbox') : FinalAt(i)' =>
           i \in 1 .. Len(inbox) /\ FinalAt(i) /\ inbox'[i] = inbox[i]
      /\ \A i \in 1 .. Len(inbox') :
           inbox'[i].for = gateway[1] \/ (i \in 1 .. Len(inbox) /\ inbox'[i] = inbox[i])
  <2>1. CASE \E type \in Acks : Deliver(type, Head(gateway))
    <3>1. PICK type \in Acks : Deliver(type, Head(gateway))
      BY <2>1
    <3>2. \A i \in 1 .. Len(inbox') : i = Len(inbox) + 1 => ~FinalAt(i)'
      BY <1>2, <3>1, Delivered DEF FinalAt, Acks, Final
    <3>3. QED
      BY <1>2, <3>1, <3>2, Delivered
  <2>2. CASE inbox' = inbox
    BY <2>2 DEF FinalAt
  <2>3. QED
    BY <2>1, <2>2 DEF Acknowledge, Acks
<1>4. /\ \A j \in 1 .. Len(ecu') : \/ j \in 1 .. Len(ecu) /\ ecu'[j] = ecu[j]
                                   \/ j = Len(ecu) + 1 /\ ecu'[j] = gateway[1]
      /\ Len(ecu) \in Nat
  <2>1. CASE ecu' = Append(ecu, Head(gateway))
    BY <1>2, <2>1, QueueTypes, Appended
  <2>2. CASE ecu' = ecu
    BY <2>2, QueueTypes
  <2>3. QED
    BY <2>1, <2>2 DEF Acknowledge
<1>5. /\ \A j \in 1 .. Len(gateway') : gateway[1] < gateway'[j]
      /\ \A i \in 1 .. Len(inbox) : FinalAt(i) => inbox[i].for < gateway[1]
      /\ \A i \in 1 .. Len(ecu) : ecu[i] < gateway[1]
      /\ Answered < gateway[1] /\ gateway[1] <= Sent
  <2>1. \A j \in 1 .. Len(gateway') : 1 < j + 1
    BY <1>2
  <2>2. QED
    BY <1>2, <2>1 DEF Lag, InOrder, Ahead
<1>6. InOrder'
  <2>1. \A i, j \in 1 .. Len(inbox') : i < j /\ FinalAt(i)' /\ FinalAt(j)' => inbox'[i].for < inbox'[j].for
    BY <1>3 DEF Lag, InOrder
  <2>2. ASSUME NEW i \in 1 .. Len(inbox'), FinalAt(i)'
        PROVE  /\ \A j \in 1 .. Len(ecu') : inbox'[i].for < ecu'[j]
               /\ \A j \in 1 .. Len(gateway') : inbox'[i].for < gateway'[j]
    BY <1>2, <1>3, <1>4, <1>5, <2>2 DEF Lag, InOrder
  <2>3. \A i, j \in 1 .. Len(ecu') : i < j => ecu'[i] < ecu'[j]
    BY <1>4, <1>5 DEF Lag, InOrder
  <2>4. \A i \in 1 .. Len(ecu'), j \in 1 .. Len(gateway') : ecu'[i] < gateway'[j]
    BY <1>2, <1>4, <1>5 DEF Lag, InOrder
  <2>5. \A i, j \in 1 .. Len(gateway') : i < j => gateway'[i] < gateway'[j]
    <3> SUFFICES ASSUME NEW i \in 1 .. Len(gateway'), NEW j \in 1 .. Len(gateway'), i < j
                 PROVE  gateway'[i] < gateway'[j]
      OBVIOUS
    <3>1. i + 1 < j + 1
      BY <1>2
    <3>2. QED
      BY <1>2, <3>1 DEF Lag, InOrder
  <2>6. QED
    BY <2>1, <2>2, <2>3, <2>4, <2>5 DEF InOrder
<1>7. Ahead'
  <2>1. \A i \in 1 .. Len(inbox') :
          inbox'[i].for <= Sent' /\ (FinalAt(i)' => Answered' < inbox'[i].for)
    BY <1>1, <1>3, <1>5 DEF Lag, Ahead
  <2>2. \A i \in 1 .. Len(ecu') : Answered' < ecu'[i] /\ ecu'[i] <= Sent'
    BY <1>1, <1>4, <1>5 DEF Lag, Ahead
  <2>3. \A i \in 1 .. Len(gateway') : Answered' < gateway'[i] /\ gateway'[i] <= Sent'
    BY <1>1, <1>2 DEF Lag, Ahead
  <2>4. QED
    BY <2>1, <2>2, <2>3 DEF Ahead
<1>8. QED
  BY <1>1, <1>6, <1>7 DEF Lag, LagBounded, Idle

\* The ECU answers its first request, or says it is still at it.
LEMMA AnswerLag ==
  ASSUME Counted, Lag, Answer
  PROVE  Lag'
<1>1. UNCHANGED <<at, response, missed, gateway>> /\ Sent' = Sent /\ Answered' = Answered
  BY OtherEndCounted DEF Answer, OtherEnd
<1>2. /\ ecu # <<>> /\ Head(ecu) = ecu[1] /\ 1 \in 1 .. Len(ecu) /\ Head(ecu) \in Requests
      /\ Len(ecu) \in Nat
      /\ Suffix(Tail(ecu), ecu) /\ Tail(ecu) \in Seq(Requests)
      /\ \A i \in 1 .. Len(Tail(ecu)) : Tail(ecu)[i] = ecu[i + 1] /\ i + 1 \in 1 .. Len(ecu)
  BY QueueTypes, SuffixOfTail DEF Answer
<1>3. CASE inbox' = inbox /\ ecu' = Tail(ecu)
  <2>1. InOrder' /\ Ahead'
    BY <1>1, <1>2, <1>3, QueueTypes, SuffixInOrder, SuffixAhead DEF Lag
  <2>2. QED
    BY <1>1, <2>1 DEF Lag, LagBounded, Idle
<1>4. CASE Deliver("pending", Head(ecu)) /\ ecu' = ecu
  <2>1. /\ \A i \in 1 .. Len(inbox') : FinalAt(i)' =>
             i \in 1 .. Len(inbox) /\ FinalAt(i) /\ inbox'[i] = inbox[i]
        /\ \A i \in 1 .. Len(inbox') :
             inbox'[i].for = ecu[1] \/ (i \in 1 .. Len(inbox) /\ inbox'[i] = inbox[i])
    <3>1. \A i \in 1 .. Len(inbox') : i = Len(inbox) + 1 => ~FinalAt(i)'
      BY <1>2, <1>4, Delivered DEF FinalAt, Messages, Final
    <3>2. QED
      BY <1>2, <1>4, <3>1, Delivered DEF Messages
  <2>2. InOrder'
    BY <1>1, <1>4, <2>1 DEF Lag, InOrder
  <2>3. Ahead'
    BY <1>1, <1>2, <1>4, <2>1 DEF Lag, Ahead
  <2>4. QED
    BY <1>1, <2>2, <2>3 DEF Lag, LagBounded, Idle
<1>5. CASE \E type \in Final : Deliver(type, Head(ecu)) /\ ecu' = Tail(ecu)
  <2>1. /\ \A i \in 1 .. Len(inbox') :
             \/ i \in 1 .. Len(inbox) /\ inbox'[i] = inbox[i] /\ (FinalAt(i)' <=> FinalAt(i))
             \/ i = Len(inbox) + 1 /\ inbox'[i].for = ecu[1]
        /\ Len(inbox) \in Nat
    BY <1>2, <1>5, Delivered DEF Messages
  <2>2. \A j \in 1 .. Len(ecu') : /\ ecu'[j] = ecu[j + 1] /\ j + 1 \in 1 .. Len(ecu)
                                  /\ 1 < j + 1 /\ ecu[1] < ecu'[j]
    <3> SUFFICES ASSUME NEW j \in 1 .. Len(ecu')
                 PROVE  ecu'[j] = ecu[j + 1] /\ j + 1 \in 1 .. Len(ecu) /\ 1 < j + 1 /\ ecu[1] < ecu'[j]
      OBVIOUS
    <3>1. ecu'[j] = ecu[j + 1] /\ j + 1 \in 1 .. Len(ecu)
      BY <1>2, <1>5
    <3>2. 1 < j + 1
      OBVIOUS
    <3>3. QED
      BY <1>2, <3>1, <3>2 DEF Lag, InOrder
  <2>3. InOrder'
    <3>1. \A i, j \in 1 .. Len(inbox') : i < j /\ FinalAt(i)' /\ FinalAt(j)' => inbox'[i].for < inbox'[j].for
      BY <1>2, <2>1 DEF Lag, InOrder
    <3>2. ASSUME NEW i \in 1 .. Len(inbox'), FinalAt(i)'
          PROVE  /\ \A j \in 1 .. Len(ecu') : inbox'[i].for < ecu'[j]
                 /\ \A j \in 1 .. Len(gateway') : inbox'[i].for < gateway'[j]
      BY <1>1, <1>2, <2>1, <2>2, <3>2 DEF Lag, InOrder
    <3>3. \A i, j \in 1 .. Len(ecu') : i < j => ecu'[i] < ecu'[j]
      <4> SUFFICES ASSUME NEW i \in 1 .. Len(ecu'), NEW j \in 1 .. Len(ecu'), i < j
                   PROVE  ecu'[i] < ecu'[j]
        OBVIOUS
      <4>1. i + 1 < j + 1
        OBVIOUS
      <4>2. QED
        BY <2>2, <4>1 DEF Lag, InOrder
    <3>4. \A i \in 1 .. Len(ecu'), j \in 1 .. Len(gateway') : ecu'[i] < gateway'[j]
      BY <1>1, <2>2 DEF Lag, InOrder
    <3>5. QED
      BY <1>1, <3>1, <3>2, <3>3, <3>4 DEF Lag, InOrder
  <2>4. Ahead'
    <3>1. \A i \in 1 .. Len(inbox') :
            inbox'[i].for <= Sent' /\ (FinalAt(i)' => Answered' < inbox'[i].for)
      BY <1>1, <1>2, <2>1 DEF Lag, Ahead
    <3>2. \A i \in 1 .. Len(ecu') : Answered' < ecu'[i] /\ ecu'[i] <= Sent'
      BY <1>1, <2>2 DEF Lag, Ahead
    <3>3. QED
      BY <1>1, <3>1, <3>2 DEF Lag, Ahead
  <2>5. QED
    BY <1>1, <2>3, <2>4 DEF Lag, LagBounded, Idle
<1>6. QED
  BY <1>3, <1>4, <1>5 DEF Answer

(***************************************************************************)
(* The clean connection.                                                   *)
(***************************************************************************)

\* A queue of one loses its only element.
LEMMA TailOfOne ==
  ASSUME NEW S, NEW s \in Seq(S), s # <<>>, Len(s) <= 1
  PROVE  Tail(s) = <<>> /\ Len(s) = 1
<1>1. Len(Tail(s)) = 0 /\ Len(s) = 1 /\ Tail(s) \in Seq(S)
  BY SuffixOfTail, EmptySeq
<1>2. QED
  BY <1>1, EmptySeq

\* A final answer or a negative ack is all there is in the socket, and then
\* no request is under way any more.
LEMMA LastFrame ==
  ASSUME Counted, OneRequest, inbox # <<>>, Head(inbox).type \in Final \cup {"nack"}
  PROVE  Tail(inbox) = <<>> /\ ecu = <<>> /\ gateway = <<>> /\ Head(inbox).for = Sent
<1>1. Head(inbox) = inbox[1] /\ 1 \in 1 .. Len(inbox)
  BY QueueTypes, SuffixOfTail
<1>2. Len(inbox) = 1 /\ ecu = <<>> /\ inbox[1].for = Sent
  BY <1>1 DEF OneRequest
<1>3. gateway = <<>>
  BY DEF OneRequest
<1>4. Tail(inbox) = <<>>
  <2>1. Len(inbox) <= 1 /\ inbox \in Seq(Frame)
    BY <1>2, QueueTypes
  <2>2. QED
    BY <2>1, TailOfOne
<1>5. QED
  BY <1>1, <1>2, <1>3, <1>4

\* A frame that is neither leaves the others as they were.
LEMMA FirstFrame ==
  ASSUME Counted, OneRequest, inbox # <<>>, inbox' = Tail(inbox),
         UNCHANGED <<asked, gateway, ecu, torn>>, at' = "answer", Waiting
  PROVE  OneRequest'
<1>1. /\ \A i \in 1 .. Len(inbox') : inbox'[i] = inbox[i + 1] /\ i + 1 \in 1 .. Len(inbox)
      /\ Len(inbox') + 1 = Len(inbox) /\ Sent' = Sent
  BY QueueTypes, SuffixOfTail DEF Sent
<1>2. gateway = <<>>
  BY DEF OneRequest
<1>3. \A i \in 1 .. Len(inbox') : inbox'[i].for = Sent'
  BY <1>1 DEF OneRequest
<1>4. ASSUME NEW i \in 1 .. Len(inbox'), inbox'[i].type \in Final \cup {"nack"}
      PROVE  i = Len(inbox') /\ ecu' = <<>>
  <2>1. i + 1 = Len(inbox) /\ ecu = <<>>
    BY <1>1, <1>4 DEF OneRequest
  <2>2. QED
    BY <2>1, <1>1, QueueTypes
<1>5. QED
  BY <1>1, <1>2, <1>3, <1>4 DEF OneRequest, Waiting, Idle

LEMMA ReadingClean ==
  ASSUME Counted, OneRequest, clean, Reading, clean'
  PROVE  OneRequest'
<1>1. /\ Waiting /\ UNCHANGED <<asked, gateway, ecu>> /\ Sent' = Sent
  BY ReadingStep DEF Sent
<1>2. ~Fail(TRUE)
  BY DEF Fail
<1>3. ~torn
  BY DEF OneRequest
<1>4. ASSUME inbox' = <<>>, ecu = <<>>, gateway = <<>>, torn' = torn, at' = "idle",
             response'.type \in Final => response'.for = Sent
      PROVE  OneRequest'
  <2>1. Len(<<>>) = 0
    OBVIOUS
  <2>2. QED
    BY <1>1, <1>3, <1>4, <2>1 DEF OneRequest, Waiting, Idle
<1>5. CASE ReadAck
  <2>1. CASE Head(inbox).type = "ack" /\ at' = "answer"
    BY <1>1, <1>5, <2>1, FirstFrame DEF ReadAck
  <2>2. CASE Head(inbox).type = "nack" /\ Fail(FALSE)
    BY <1>4, <1>5, <2>2, LastFrame DEF ReadAck, Fail, NoFrame, Final
  <2>3. QED
    BY <1>2, <1>5, <2>1, <2>2 DEF ReadAck
<1>6. CASE ReadAnswer
  <2>1. CASE Head(inbox).type = "pending" /\ UNCHANGED <<at, torn>>
    BY <1>1, <1>6, <2>1, FirstFrame DEF ReadAnswer
  <2>2. CASE Head(inbox).type \in Final /\ at' = "idle" /\ response' = Head(inbox) /\ torn' = torn
    BY <1>4, <1>6, <2>2, LastFrame DEF ReadAnswer
  <2>3. QED
    BY <1>2, <1>6, <2>1, <2>2 DEF ReadAnswer
<1>7. CASE PeerClosed
  <2>1. /\ inbox' = <<>> /\ link = "cut" /\ torn' = torn /\ at' = "idle" /\ response' = NoFrame
    BY <1>7 DEF PeerClosed, Fail
  <2>2. QED
    BY <1>4, <2>1 DEF Counted, NoFrame, Final
<1>8. QED
  BY <1>2, <1>3, <1>5, <1>6, <1>7 DEF Reading, ReadTorn, Timeout, TimeoutInFrame

\* Nothing is under way when an exchange begins, nor when it has not got as
\* far as its request.
LEMMA StartClean ==
  ASSUME Counted, OneRequest, (\E k \in Kind : Begin(k)) \/ Connect
  PROVE  OneRequest'
<1>1. /\ ~Waiting /\ ~Waiting' /\ UNCHANGED <<asked, gateway, ecu, inbox, torn>> /\ Sent' = Sent
      /\ response' = NoFrame
  BY DEF Begin, Connect, Idle, Waiting, outside, Sent, Counted
<1>2. QED
  BY <1>1 DEF OneRequest, Waiting, NoFrame, Final

LEMMA SendClean ==
  ASSUME Counted, OneRequest, Send
  PROVE  OneRequest'
<1>1. /\ (Sends /\ Sent' = Sent + 1) \/ (SendFails /\ Sent' = Sent)
      /\ UNCHANGED <<link, ecu, inbox, torn, response>>
  BY SendCounted
<1>2. at = "send" /\ response = NoFrame
  BY DEF Send, Counted, Idle
<1>3. gateway = <<>> /\ ecu = <<>> /\ inbox = <<>> /\ ~torn
  BY <1>2 DEF OneRequest, Waiting
<1>4. Len(<<>>) = 0
  OBVIOUS
<1>5. CASE gateway' = <<>>
  BY <1>1, <1>2, <1>3, <1>4, <1>5 DEF OneRequest, Waiting, NoFrame, Final, Sends, SendFails
<1>6. CASE gateway' # <<>>
  <2>1. gateway' = Append(gateway, Sent + 1) /\ at' = "ack" /\ Sent' = Sent + 1
    BY <1>1, <1>3, <1>6 DEF Sends, SendFails
  <2>2. Len(gateway') = 1 /\ \A i \in 1 .. Len(gateway') : gateway'[i] = Sent'
    <3>1. Sent' \in Int
      BY <2>1, SentIsNat
    <3>2. Append(<<>>, Sent') \in Seq(Int) /\ <<>> \in Seq(Int)
      BY <3>1
    <3>3. /\ Len(Append(<<>>, Sent')) = 1 /\ Append(<<>>, Sent')[1] = Sent'
      BY <3>1, <3>2, <1>4, Appended
    <3>4. QED
      BY <1>3, <2>1, <3>3
  <2>3. QED
    BY <1>1, <1>2, <1>3, <1>4, <2>1, <2>2 DEF OneRequest, Waiting, Idle
<1>7. QED
  BY <1>5, <1>6

\* The one request moves from the gateway to the ECU, or is turned down.
LEMMA AcknowledgeClean ==
  ASSUME Counted, OneRequest, Acknowledge
  PROVE  OneRequest'
<1>1. UNCHANGED <<at, response, torn, asked>> /\ Sent' = Sent
  BY DEF Acknowledge, Sent
<1>2. /\ gateway # <<>> /\ ecu = <<>> /\ inbox = <<>> /\ at = "ack"
  BY DEF Acknowledge, OneRequest, Waiting
<1>3. gateway' = <<>> /\ Head(gateway) = Sent /\ Head(gateway) \in Requests
  <2>1. gateway' = Tail(gateway) /\ Len(gateway) <= 1
    BY DEF Acknowledge, OneRequest
  <2>2. QED
    BY <1>2, <2>1, QueueTypes, TailOfOne, SuffixOfTail DEF OneRequest
<1>4. Len(<<>>) = 0
  OBVIOUS
<1>5. CASE UNCHANGED <<inbox, ecu>>
  BY <1>1, <1>2, <1>3, <1>4, <1>5 DEF OneRequest, Waiting, Idle
<1>6. CASE Deliver("nack", Head(gateway)) /\ UNCHANGED ecu
  <2>1. /\ Len(inbox') = 1 /\ \A i \in 1 .. Len(inbox') : i = 1 /\ inbox'[i].for = Sent
    BY <1>2, <1>3, <1>4, <1>6, Delivered DEF Acks
  <2>2. QED
    BY <1>1, <1>2, <1>3, <1>4, <1>6, <2>1 DEF OneRequest, Waiting, Idle
<1>7. CASE Deliver("ack", Head(gateway)) /\ ecu' = Append(ecu, Head(gateway))
  <2>1. /\ Len(inbox') = 1
        /\ \A i \in 1 .. Len(inbox') : i = 1 /\ inbox'[i].for = Sent /\ inbox'[i].type = "ack"
    BY <1>2, <1>3, <1>4, <1>7, Delivered DEF Acks
  <2>2. Len(ecu') = 1 /\ \A i \in 1 .. Len(ecu') : ecu'[i] = Sent
    BY <1>2, <1>3, <1>4, <1>7, QueueTypes, Appended
  <2>3. QED
    BY <1>1, <1>2, <1>3, <1>4, <2>1, <2>2 DEF OneRequest, Waiting, Idle, Final
<1>8. QED
  BY <1>5, <1>6, <1>7 DEF Acknowledge

\* The ECU answers it, once, after as many frames of pending as it likes.
LEMMA AnswerClean ==
  ASSUME Counted, OneRequest, Answer
  PROVE  OneRequest'
<1>1. UNCHANGED <<at, response, torn, asked, gateway>> /\ Sent' = Sent
  BY DEF Answer, Sent
<1>2. /\ ecu # <<>> /\ gateway = <<>> /\ Waiting
      /\ \A i \in 1 .. Len(inbox) : inbox[i].type \notin Final \cup {"nack"} /\ inbox[i].for = Sent
  BY DEF Answer, OneRequest
<1>3. Tail(ecu) = <<>> /\ Head(ecu) = Sent /\ Head(ecu) \in Requests
  <2>1. Len(ecu) <= 1
    BY DEF OneRequest
  <2>2. QED
    BY <1>2, <2>1, QueueTypes, TailOfOne, SuffixOfTail DEF OneRequest
<1>4. Len(<<>>) = 0
  OBVIOUS
<1>5. CASE inbox' = inbox /\ ecu' = Tail(ecu)
  BY <1>1, <1>2, <1>3, <1>4, <1>5 DEF OneRequest, Waiting, Idle
<1>6. CASE \E type \in Final : Deliver(type, Head(ecu)) /\ ecu' = Tail(ecu)
  <2>1. /\ Len(inbox') = Len(inbox) + 1 /\ Len(inbox) \in Nat
        /\ \A i \in 1 .. Len(inbox') : \/ i \in 1 .. Len(inbox) /\ inbox'[i] = inbox[i]
                                       \/ i = Len(inbox') /\ inbox'[i].for = Sent
    BY <1>3, <1>6, Delivered DEF Messages
  <2>2. QED
    BY <1>1, <1>2, <1>3, <1>4, <1>6, <2>1 DEF OneRequest, Waiting, Idle
<1>7. CASE Deliver("pending", Head(ecu)) /\ UNCHANGED ecu
  <2>1. /\ \A i \in 1 .. Len(inbox') : /\ inbox'[i].type \notin Final \cup {"nack"}
                                       /\ inbox'[i].for = Sent
    BY <1>2, <1>3, <1>7, Delivered DEF Messages, Final
  <2>2. QED
    BY <1>1, <1>2, <1>3, <1>4, <1>7, <2>1 DEF OneRequest, Waiting, Idle
<1>8. QED
  BY <1>5, <1>6, <1>7 DEF Answer

LEMMA CutClean ==
  ASSUME Counted, OneRequest, Cut
  PROVE  OneRequest'
<1>1. /\ gateway' = <<>> /\ ecu' = <<>> /\ UNCHANGED <<at, inbox, torn, response>> /\ Sent' = Sent
  BY DEF Cut, Sent
<1>2. Len(<<>>) = 0
  OBVIOUS
<1>3. QED
  BY <1>1, <1>2 DEF OneRequest, Waiting, Idle

(***************************************************************************)
(* The theorems.                                                           *)
(***************************************************************************)

LEMMA TransportInit == Init => TransportInv
<1> SUFFICES ASSUME Init PROVE TransportInv
  OBVIOUS
<1>1. Len(<<>>) = 0 /\ \A S : <<>> \in Seq(S)
  OBVIOUS
<1>2. Sent = 0 /\ InFlight = 0 /\ missed = 0
  BY <1>1 DEF Init, Sent, InFlight, Waiting
<1>3. Counted
  <2>1. TypeOK
    <3>1. 0 \in 0 .. MaxPending /\ 0 \in 0 .. MaxSent /\ 0 <= MaxSent
      BY DoipTransportAssumption
    <3>2. <<>> \in Seq(Kind) /\ <<>> \in Seq(Requests) /\ <<>> \in Seq(Frame)
      BY <1>1
    <3>3. QED
      BY <1>2, <3>1, <3>2 DEF Init, TypeOK
  <2>2. QED
    BY <1>2, <2>1 DEF Init, Counted, Answered, Idle
<1>4. Lag
  BY <1>1 DEF Init, Lag, InOrder, Ahead, LagBounded, NoFrame, Final
<1>5. OneRequest
  BY <1>1 DEF Init, OneRequest, Waiting, NoFrame, Final
<1>6. QED
  BY <1>3, <1>4, <1>5 DEF TransportInv

LEMMA TransportNext == TransportInv /\ [Next]_vars => TransportInv'
<1> SUFFICES ASSUME TransportInv, [Next]_vars PROVE TransportInv'
  OBVIOUS
<1>1. Counted /\ Lag /\ (clean => OneRequest)
  BY DEF TransportInv
<1>2. ASSUME NEW k \in Kind, Begin(k) PROVE TransportInv'
  <2>1. clean' = clean
    BY <1>2 DEF Begin
  <2>2. QED
    BY <1>1, <1>2, <2>1, BeginCounted, BeginLag, StartClean DEF TransportInv
<1>3. CASE Connect
  <2>1. clean' = clean
    BY <1>3 DEF Connect
  <2>2. QED
    BY <1>1, <1>3, <2>1, ConnectCounted, ConnectLag, StartClean DEF TransportInv
<1>4. CASE Send
  <2>1. clean' = clean
    BY <1>4 DEF Send
  <2>2. QED
    BY <1>1, <1>4, <2>1, SendCounted, SendLag, SendClean DEF TransportInv
<1>5. CASE Reading
  <2>1. clean' => clean
    BY <1>5 DEF Reading, ReadAck, ReadAnswer, ReadTorn, Timeout, TimeoutInFrame, PeerClosed, Fail
  <2>2. QED
    BY <1>1, <1>5, <2>1, ReadingCounted, ReadingLag, ReadingClean DEF TransportInv
<1>6. CASE Acknowledge
  <2>1. clean' = clean
    BY <1>6 DEF Acknowledge
  <2>2. QED
    BY <1>1, <1>6, <2>1, OtherEndCounted, AcknowledgeLag, AcknowledgeClean DEF TransportInv, OtherEnd
<1>7. CASE Answer
  <2>1. clean' = clean
    BY <1>7 DEF Answer
  <2>2. QED
    BY <1>1, <1>7, <2>1, OtherEndCounted, AnswerLag, AnswerClean DEF TransportInv, OtherEnd
<1>8. CASE Cut
  <2>1. clean' = clean
    BY <1>8 DEF Cut
  <2>2. QED
    BY <1>1, <1>8, <2>1, CutCounted, CutLag, CutClean DEF TransportInv
<1>9. CASE UNCHANGED vars
  <2>1. UNCHANGED <<link, at, kind, attempts, asked, gateway, ecu, inbox, torn, response, missed, clean>>
    BY <1>9 DEF vars, outside
  <2>2. Sent' = Sent /\ InFlight' = InFlight /\ Answered' = Answered
    BY <2>1 DEF Sent, InFlight, Waiting, Answered
  <2>3. Counted'
    BY <1>1, <2>1, <2>2 DEF Counted, TypeOK, Idle
  <2>4. Lag'
    BY <1>1, <2>1, <2>2 DEF Lag, InOrder, Ahead, FinalAt, LagBounded, Idle
  <2>5. clean' => OneRequest'
    BY <1>1, <2>1, <2>2 DEF OneRequest, Waiting, Idle
  <2>6. QED
    BY <2>3, <2>4, <2>5 DEF TransportInv
<1>10. QED
  BY <1>2, <1>3, <1>4, <1>5, <1>6, <1>7, <1>8, <1>9 DEF Next, Exchange, Reading

(***************************************************************************)
(* The order of the answers.                                               *)
(***************************************************************************)

\* Where the request n is while its answer can still be returned.
Due(n) ==
  \/ \E i \in 1 .. Len(inbox) : FinalAt(i) /\ inbox[i].for = n
  \/ \E i \in 1 .. Len(ecu) : ecu[i] = n
  \/ \E i \in 1 .. Len(gateway) : gateway[i] = n

LEMMA OutstandingAreDue ==
  ASSUME Counted, Counted', NEW n
  PROVE  (n \in Outstanding <=> Due(n)) /\ (n \in Outstanding' <=> Due(n)')
<1>1. /\ DOMAIN inbox = 1 .. Len(inbox) /\ DOMAIN inbox' = 1 .. Len(inbox')
      /\ DOMAIN ecu = 1 .. Len(ecu) /\ DOMAIN ecu' = 1 .. Len(ecu')
      /\ DOMAIN gateway = 1 .. Len(gateway) /\ DOMAIN gateway' = 1 .. Len(gateway')
  BY DEF Counted, TypeOK
<1>2. n \in Outstanding <=> Due(n)
  BY <1>1 DEF Outstanding, Due, FinalAt
<1>3. n \in Outstanding' <=> Due(n)'
  BY <1>1 DEF Outstanding, Due, FinalAt
<1>4. QED
  BY <1>2, <1>3

\* What is lost from the queues is no longer due, and nothing else becomes so.
LEMMA SuffixDue ==
  ASSUME Counted, Counted', NEW n, Due(n)',
         Suffix(inbox', inbox), Suffix(ecu', ecu), Suffix(gateway', gateway)
  PROVE  Due(n)
<1>1. PICK a \in Nat : /\ Len(inbox') + a = Len(inbox)
                       /\ \A i \in 1 .. Len(inbox') : inbox'[i] = inbox[i + a]
  BY DEF Suffix
<1>2. PICK b \in Nat : /\ Len(ecu') + b = Len(ecu)
                       /\ \A i \in 1 .. Len(ecu') : ecu'[i] = ecu[i + b]
  BY DEF Suffix
<1>3. PICK c \in Nat : /\ Len(gateway') + c = Len(gateway)
                       /\ \A i \in 1 .. Len(gateway') : gateway'[i] = gateway[i + c]
  BY DEF Suffix
<1>4. /\ Len(inbox) \in Nat /\ Len(inbox') \in Nat /\ Len(ecu) \in Nat /\ Len(ecu') \in Nat
      /\ Len(gateway) \in Nat /\ Len(gateway') \in Nat
  BY DEF Counted, TypeOK
<1>5. ASSUME NEW i \in 1 .. Len(inbox'), FinalAt(i)', inbox'[i].for = n PROVE Due(n)
  <2>1. i + a \in 1 .. Len(inbox) /\ inbox[i + a] = inbox'[i]
    BY <1>1, <1>4
  <2>2. FinalAt(i + a) /\ inbox[i + a].for = n
    BY <1>5, <2>1 DEF FinalAt
  <2>3. QED
    BY <2>1, <2>2 DEF Due
<1>6. ASSUME NEW i \in 1 .. Len(ecu'), ecu'[i] = n PROVE Due(n)
  <2>1. i + b \in 1 .. Len(ecu) /\ ecu[i + b] = n
    BY <1>2, <1>4, <1>6
  <2>2. QED
    BY <2>1 DEF Due
<1>7. ASSUME NEW i \in 1 .. Len(gateway'), gateway'[i] = n PROVE Due(n)
  <2>1. i + c \in 1 .. Len(gateway) /\ gateway[i + c] = n
    BY <1>3, <1>4, <1>7
  <2>2. QED
    BY <2>1 DEF Due
<1>8. QED
  BY <1>5, <1>6, <1>7 DEF Due

\* An answer that is returned was first in the socket: all that is due after
\* it is newer.
LEMMA ReadingOrder ==
  ASSUME TransportInv, Counted', Reading, NEW n, Due(n)'
  PROVE  Due(n) /\ (response' # response /\ response'.type \in Final => response'.for < n)
<1>1. Counted /\ InOrder
  BY DEF TransportInv, Lag
<1>2. /\ Waiting /\ ecu' = ecu /\ gateway' = gateway
      /\ inbox' \in Seq(Frame) /\ Suffix(inbox', inbox)
      /\ GoesOn \/ Misses \/ Returns
  BY <1>1, ReadingStep
<1>3. Due(n)
  BY <1>1, <1>2, QueueTypes, SuffixDue
<1>4. ASSUME response' # response, response'.type \in Final PROVE response'.for < n
  <2>1. Returns
    BY <1>2, <1>4 DEF GoesOn, Misses
  <2>2. /\ response' = inbox[1] /\ FinalAt(1) /\ 1 \in 1 .. Len(inbox)
        /\ Len(inbox') \in Nat
        /\ \A i \in 1 .. Len(inbox') : inbox'[i] = inbox[i + 1] /\ i + 1 \in 1 .. Len(inbox)
    BY <1>1, <2>1, QueueTypes, SuffixOfTail DEF Returns, FinalAt
  <2>3. ASSUME NEW i \in 1 .. Len(inbox'), FinalAt(i)', inbox'[i].for = n PROVE inbox[1].for < n
    <3>1. inbox'[i] = inbox[i + 1] /\ i + 1 \in 1 .. Len(inbox) /\ 1 < i + 1
      BY <2>2
    <3>2. FinalAt(i + 1) /\ inbox[i + 1].for = n
      BY <2>3, <3>1 DEF FinalAt
    <3>3. QED
      BY <1>1, <2>2, <3>1, <3>2 DEF InOrder
  <2>4. ASSUME NEW i \in 1 .. Len(ecu), ecu[i] = n PROVE inbox[1].for < n
    BY <1>1, <2>2, <2>4 DEF InOrder
  <2>5. ASSUME NEW i \in 1 .. Len(gateway), gateway[i] = n PROVE inbox[1].for < n
    BY <1>1, <2>2, <2>5 DEF InOrder
  <2>6. QED
    BY <1>2, <2>2, <2>3, <2>4, <2>5 DEF Due
<1>5. QED
  BY <1>3, <1>4

\* All that Send makes due is its own request.
LEMMA SendOrder ==
  ASSUME Counted, Counted', Send, NEW n, Due(n)'
  PROVE  (Due(n) \/ n \in Sent + 1 .. Sent') /\ response' = response
<1>1. /\ (Sends /\ Sent' = Sent + 1) \/ (SendFails /\ Sent' = Sent)
      /\ UNCHANGED <<ecu, inbox, response>>
  BY SendCounted
<1>2. CASE gateway' = gateway
  <2>1. Due(n)
    BY <1>1, <1>2 DEF Due, FinalAt
  <2>2. QED
    BY <1>1, <2>1
<1>3. CASE gateway' # gateway
  <2>1. Sent' = Sent + 1 /\ gateway' = Append(gateway, Sent') /\ Sent \in Nat
    BY <1>1, <1>3, SentIsNat DEF Sends, SendFails
  <2>2. Sent' \in Requests
    BY <2>1 DEF Counted, TypeOK, Requests
  <2>3. \A i \in 1 .. Len(gateway') :
          gateway'[i] = Sent' \/ (i \in 1 .. Len(gateway) /\ gateway'[i] = gateway[i])
    BY <2>1, <2>2, QueueTypes, Appended
  <2>4. Due(n) \/ n = Sent'
    BY <1>1, <2>3 DEF Due, FinalAt
  <2>5. QED
    BY <1>1, <2>1, <2>4
<1>4. QED
  BY <1>2, <1>3

\* The gateway passes its first request on, to the ECU only.
LEMMA AcknowledgeOrder ==
  ASSUME Counted, Counted', Acknowledge, NEW n, Due(n)'
  PROVE  Due(n)
<1>1. /\ gateway' = Tail(gateway) /\ Head(gateway) = gateway[1]
      /\ 1 \in 1 .. Len(gateway) /\ Head(gateway) \in Requests
      /\ \A i \in 1 .. Len(gateway') : gateway'[i] = gateway[i + 1] /\ i + 1 \in 1 .. Len(gateway)
  BY QueueTypes, SuffixOfTail DEF Acknowledge
<1>2. \A i \in 1 .. Len(inbox') : FinalAt(i)' =>
        i \in 1 .. Len(inbox) /\ FinalAt(i) /\ inbox'[i] = inbox[i]
  <2>1. CASE \E type \in Acks : Deliver(type, Head(gateway))
    <3>1. PICK type \in Acks : Deliver(type, Head(gateway))
      BY <2>1
    <3>2. \A i \in 1 .. Len(inbox') : i = Len(inbox) + 1 => ~FinalAt(i)'
      BY <1>1, <3>1, Delivered DEF FinalAt, Acks, Final
    <3>3. QED
      BY <1>1, <3>1, <3>2, Delivered
  <2>2. CASE inbox' = inbox
    BY <2>2 DEF FinalAt
  <2>3. QED
    BY <2>1, <2>2 DEF Acknowledge, Acks
<1>3. \A j \in 1 .. Len(ecu') : ecu'[j] = gateway[1] \/ (j \in 1 .. Len(ecu) /\ ecu'[j] = ecu[j])
  <2>1. CASE ecu' = Append(ecu, Head(gateway))
    BY <1>1, <2>1, QueueTypes, Appended
  <2>2. CASE ecu' = ecu
    BY <2>2
  <2>3. QED
    BY <2>1, <2>2 DEF Acknowledge
<1>4. QED
  BY <1>1, <1>2, <1>3 DEF Due

\* The ECU answers its first request, once.
LEMMA AnswerOrder ==
  ASSUME Counted, Counted', Answer, NEW n, Due(n)'
  PROVE  Due(n)
<1>1. /\ gateway' = gateway /\ Head(ecu) = ecu[1] /\ 1 \in 1 .. Len(ecu) /\ Head(ecu) \in Requests
      /\ ecu' = Tail(ecu) \/ ecu' = ecu
      /\ \A i \in 1 .. Len(Tail(ecu)) : Tail(ecu)[i] = ecu[i + 1] /\ i + 1 \in 1 .. Len(ecu)
  BY QueueTypes, SuffixOfTail DEF Answer
<1>2. \A i \in 1 .. Len(inbox') : FinalAt(i)' =>
        \/ i \in 1 .. Len(inbox) /\ FinalAt(i) /\ inbox'[i] = inbox[i]
        \/ inbox'[i].for = ecu[1]
  <2>1. CASE \E type \in Messages : Deliver(type, Head(ecu))
    BY <1>1, <2>1, Delivered
  <2>2. CASE inbox' = inbox
    BY <2>2 DEF FinalAt
  <2>3. QED
    BY <2>1, <2>2 DEF Answer, Messages
<1>3. \A j \in 1 .. Len(ecu') : \E i \in 1 .. Len(ecu) : ecu'[j] = ecu[i]
  BY <1>1
<1>4. ASSUME NEW i \in 1 .. Len(inbox'), FinalAt(i)', inbox'[i].for = n PROVE Due(n)
  <2>1. CASE i \in 1 .. Len(inbox) /\ FinalAt(i) /\ inbox'[i] = inbox[i]
    BY <1>4, <2>1 DEF Due
  <2>2. CASE inbox'[i].for = ecu[1]
    BY <1>1, <1>4, <2>2 DEF Due
  <2>3. QED
    BY <1>2, <1>4, <2>1, <2>2
<1>5. ASSUME NEW j \in 1 .. Len(ecu'), ecu'[j] = n PROVE Due(n)
  BY <1>3, <1>5 DEF Due
<1>6. ASSUME NEW j \in 1 .. Len(gateway'), gateway'[j] = n PROVE Due(n)
  BY <1>1, <1>6 DEF Due
<1>7. QED
  BY <1>4, <1>5, <1>6 DEF Due

\* So a step makes nothing due but the request it sends, and the answer it
\* returns is to an older request than all that stay due.
LEMMA StepOrder ==
  ASSUME TransportInv, TransportInv', Next, NEW n, Due(n)'
  PROVE  /\ Due(n) \/ n \in Sent + 1 .. Sent'
         /\ response' # response /\ response'.type \in Final => response'.for < n
<1>1. Counted /\ Counted'
  BY DEF TransportInv
<1>2. CASE (\E k \in Kind : Begin(k)) \/ Connect
  <2>1. UNCHANGED <<inbox, ecu, gateway>> /\ (response' = NoFrame \/ response' = response)
    BY <1>2 DEF Begin, Connect, outside
  <2>2. Due(n)
    BY <2>1 DEF Due, FinalAt
  <2>3. QED
    BY <2>1, <2>2 DEF NoFrame, Final
<1>3. CASE Send
  <2>1. (Due(n) \/ n \in Sent + 1 .. Sent') /\ response' = response
    BY <1>1, <1>3, SendOrder
  <2>2. QED
    BY <2>1
<1>4. CASE Reading
  <2>1. Due(n) /\ (response' # response /\ response'.type \in Final => response'.for < n)
    BY <1>1, <1>4, ReadingOrder
  <2>2. QED
    BY <2>1
<1>5. CASE Acknowledge
  <2>1. response' = response
    BY <1>5 DEF Acknowledge
  <2>2. Due(n)
    BY <1>1, <1>5, AcknowledgeOrder
  <2>3. QED
    BY <2>1, <2>2
<1>6. CASE Answer
  <2>1. response' = response
    BY <1>6 DEF Answer
  <2>2. Due(n)
    BY <1>1, <1>6, AnswerOrder
  <2>3. QED
    BY <2>1, <2>2
<1>7. CASE Cut
  <2>1. response' = response /\ inbox' = inbox /\ ecu' = <<>> /\ gateway' = <<>>
    BY <1>7 DEF Cut
  <2>2. Due(n)
    BY <2>1 DEF Due, FinalAt
  <2>3. QED
    BY <2>1, <2>2
<1>8. QED
  BY <1>2, <1>3, <1>4, <1>5, <1>6, <1>7 DEF Next, Exchange, Reading

LEMMA TransportAlways == Spec => []TransportInv
BY TransportInit, TransportNext, PTL DEF Spec

\* An exchange of doip_transport.cpp waits out kMaxPendingAttempts at most,
\* and misses no more answers than it sent requests.
THEOREM TransportTypes == Spec => []TypeOK
<1>1. TransportInv => TypeOK
  BY DEF TransportInv, Counted
<1>2. QED
  BY <1>1, TransportAlways, PTL

\* While every exchange of send_and_receive read its answer to the end, a
\* response is the one to the request just sent, although nothing in the
\* frames that are read says so.
THEOREM CleanConnectionMatches == Spec => []CleanAnswersMatch
<1>1. TransportInv => CleanAnswersMatch
  BY DEF TransportInv, OneRequest, CleanAnswersMatch
<1>2. QED
  BY <1>1, TransportAlways, PTL

\* A connection that is never resynchronised lags, but by no more requests
\* than exchanges were missed: timeouts, torn frames and lost answers never
\* add up to more.
THEOREM LagStaysBounded == Spec => []LagBounded
<1>1. TransportInv => LagBounded
  BY DEF TransportInv, Lag
<1>2. QED
  BY <1>1, TransportAlways, PTL

\* However the connection lags, it never goes back: no exchange of
\* send_and_resolve is given an answer that an earlier one has had, or one
\* older than that (doip_transport.cpp reads the stream in order, and the
\* adapter sends every request once).
THEOREM AnswersAlwaysInOrder == Spec => AnswersComeInOrder
<1> DEFINE OnlySentAdded == Outstanding' \subseteq Outstanding \cup (Sent + 1 .. Sent')
           OthersNewer == response' # response /\ response'.type \in Final =>
                            \A n \in Outstanding' : response'.for < n
<1>1. ASSUME TransportInv, TransportInv', Next PROVE OnlySentAdded /\ OthersNewer
  <2>1. Counted /\ Counted'
    BY <1>1 DEF TransportInv
  <2>2. ASSUME NEW n \in Outstanding'
        PROVE  /\ n \in Outstanding \/ n \in Sent + 1 .. Sent'
               /\ response' # response /\ response'.type \in Final => response'.for < n
    <3>1. Due(n)'
      BY <2>1, <2>2, OutstandingAreDue
    <3>2. /\ Due(n) \/ n \in Sent + 1 .. Sent'
          /\ response' # response /\ response'.type \in Final => response'.for < n
      BY <1>1, <3>1, StepOrder
    <3>3. QED
      BY <2>1, <3>2, OutstandingAreDue
  <2>3. OnlySentAdded
    BY <2>2
  <2>4. OthersNewer
    BY <2>2
  <2>5. QED
    BY <2>3, <2>4
<1>2. TransportInv /\ TransportInv' /\ [Next]_vars => [OnlySentAdded /\ OthersNewer]_vars
  BY <1>1
<1>3. QED
  BY <1>2, TransportAlways, PTL DEF Spec, AnswersComeInOrder

=============================================================================
