--------------------------- MODULE MessagePumpProofs ---------------------------
(***************************************************************************)
(* The pump's byte count is bounded and the pump implements the channel,   *)
(* for all limits, sizes and numbers of messages.                          *)
(***************************************************************************)
EXTENDS MessagePump, TLAPS

\* What #drain does to the queue and the send in flight, by cases.
LEMMA TailFacts ==
    ASSUME NEW q \in Seq(Message), q # <<>>
    PROVE  /\ Head(q) \in Message
           /\ Head(q) = q[1]
           /\ Tail(q) \in Seq(Message)
           /\ Len(q) \in Nat \ {0}
           /\ Len(Tail(q)) = Len(q) - 1
           /\ \A i \in 1..Len(Tail(q)) : Tail(q)[i] = q[i + 1]
OBVIOUS

\* A queue with one more message.
LEMMA AppendFacts ==
    ASSUME NEW q \in Seq(Message), NEW m \in Message
    PROVE  /\ Append(q, m) \in Seq(Message)
           /\ Append(q, m) # <<>>
           /\ Len(Append(q, m)) = Len(q) + 1
           /\ \A i \in 1..Len(q) : Append(q, m)[i] = q[i]
           /\ Append(q, m)[Len(q) + 1] = m
OBVIOUS

\* A queue is empty when its length is 0.
LEMMA EmptyFacts ==
    ASSUME NEW q \in Seq(Message)
    PROVE  /\ Len(q) \in Nat
           /\ q = <<>> <=> Len(q) = 0
           /\ \A i \in 1..Len(q) : q[i] \in Message
OBVIOUS

USE MessagePumpAssumption

\* The value of no message in hand is typed like one.
LEMMA NoneType == None \in Message
BY Zenon DEF None, Message

\* A message that is accepted goes to the end of the queue, or is handed over
\* at once.
LEMMA AcceptStep ==
    ASSUME PumpInv, NEW n \in Size, ~closed, Fits(n), Accept(n),
           emitted' = emitted + 1, burst' \in Int
    PROVE  PumpInv'
<1> DEFINE m == [id |-> emitted + 1, bytes |-> n, upto |-> inBytes + n]
           q == Append(queue, m)
<1>i. TypeOK /\ BytesBounded /\ BytesExact /\ InOrder /\ Stamped /\ AfterClose
  BY Zenon DEF PumpInv
<1>t. /\ emitted \in Nat /\ received \in Nat /\ inBytes \in Nat /\ outBytes \in Nat
      /\ queuedBytes \in Int
      /\ sending.id \in Nat /\ sending.bytes \in Nat /\ sending.upto \in Nat
      /\ \A i \in 1..Len(queue) : /\ queue[i].id \in Nat
                                 /\ queue[i].bytes \in Nat
                                 /\ queue[i].upto \in Nat
  BY Zenon, <1>i, EmptyFacts DEF TypeOK, Message
<1>1. n \in Nat /\ m \in Message /\ m # None
  BY <1>t DEF Message, None
<1>2. queue \in Seq(Message)
  BY Zenon, <1>i DEF TypeOK
<1>3. /\ q \in Seq(Message)
      /\ q # <<>>
      /\ Len(q) = Len(queue) + 1
      /\ \A i \in 1..Len(queue) : q[i] = queue[i]
      /\ q[Len(queue) + 1] = m
      /\ Len(queue) \in Nat
  BY <1>1, <1>2, AppendFacts, EmptyFacts
<1>4. /\ queuedBytes' = queuedBytes + n
      /\ inBytes' = inBytes + n
      /\ UNCHANGED <<closed, link, received, outBytes>>
  BY Zenon DEF Accept
<1>a. sending # None => queue' = q /\ UNCHANGED <<sending, doomed>>
  BY Zenon DEF Accept
<1>b. sending = None => /\ queue' = Tail(q)
                        /\ sending' = Head(q)
                        /\ doomed' = (link # "open")
  BY <1>3, Zenon DEF Accept, Drain
<1>c. paused' \in BOOLEAN
  BY <1>3, Zenon, <1>i, <1>t DEF Accept, Drain, TypeOK
<1>d. m.id = emitted + 1 /\ m.bytes = n /\ m.upto = inBytes + n
  BY Zenon
<1> HIDE DEF m, q
<1>5. CASE sending # None
  <2>1. queue' = q /\ UNCHANGED <<sending, doomed>>
    BY Zenon, <1>5, <1>a
  <2>2. TypeOK'
    BY <1>1, <1>3, <1>4, <1>c, <2>1, <1>i, <1>t DEF TypeOK
  <2>3. BytesBounded' /\ BytesExact'
    BY <1>1, <1>4, <1>i, <1>t DEF BytesBounded, BytesExact, Fits
  <2>4. InOrder'
    <3>1. \A i \in 1..Len(q) : q[i].id \in 1..(emitted + 1)
      <4> SUFFICES ASSUME NEW i \in 1..Len(q) PROVE q[i].id \in 1..(emitted + 1)
        BY Zenon
      <4>1. CASE i \in 1..Len(queue)
        <5>1. queue[i].id \in 1..emitted
          BY <4>1, <1>i, Zenon DEF InOrder
        <5> QED
          BY SMTT(60), <4>1, <5>1, <1>3, <1>t
      <4>2. CASE i = Len(queue) + 1
        BY <4>2, <1>3, <1>d, <1>t
      <4> QED
        BY <4>1, <4>2, <1>3
    <3>2. ASSUME link = "open"
          PROVE  /\ ~doomed
                 /\ \A i \in 1..Len(q) : q[i].id = received + i + 1
                 /\ emitted + 1 = received + Len(q) + 1
      <4>1. /\ ~doomed
            /\ \A i \in 1..Len(queue) : queue[i].id = received + i + 1
            /\ emitted = received + Len(queue) + 1
        BY Zenon, <3>2, <1>5, <1>i, <1>t DEF InOrder
      <4>2. ASSUME NEW i \in 1..Len(q) PROVE q[i].id = received + i + 1
        <5>1. CASE i \in 1..Len(queue)
          BY Zenon, <5>1, <4>1, <1>3
        <5>2. CASE i = Len(queue) + 1
          BY <5>2, <4>1, <1>3, <1>d, <1>t
        <5> QED
          BY <5>1, <5>2, <1>3
      <4> QED
        BY <4>1, <4>2, <1>3, <1>t
    <3>3. /\ sending # None /\ ~doomed => sending.id = received + 1
          /\ sending.id <= emitted + 1
      BY <1>5, <1>i, <1>t DEF InOrder
    <3> QED
      BY Zenon, <3>1, <3>2, <3>3, <1>4, <1>5, <2>1, <1>i, <1>t DEF InOrder
  <2>5. Stamped'
    <3>1. \A i \in 1..Len(queue') :
            /\ queue'[i].upto <= inBytes'
            /\ queue'[i].upto = queue'[i].bytes
                 + (IF i = 1 THEN sending'.upto ELSE queue'[i - 1].upto)
      <4> SUFFICES ASSUME NEW i \in 1..Len(q)
                   PROVE  /\ q[i].upto <= inBytes + n
                          /\ q[i].upto = q[i].bytes
                               + (IF i = 1 THEN sending.upto ELSE q[i - 1].upto)
        BY Zenon, <1>4, <2>1
      <4>1. CASE i \in 1..Len(queue)
        <5>1. q[i] = queue[i] /\ (i # 1 => q[i - 1] = queue[i - 1])
          BY SMTT(60), <4>1, <1>3
        <5>2. queue[i] \in Message
          BY Zenon, <4>1, <1>2, EmptyFacts
        <5>3. /\ queue[i].upto <= inBytes
              /\ queue[i].upto = queue[i].bytes
                   + (IF i = 1 THEN sending.upto ELSE queue[i - 1].upto)
          BY <4>1, <1>i, Zenon DEF Stamped
        <5>4. queue[i].upto \in Nat
          BY Zenon, <4>1, <1>t
        <5>5. queue[i].upto <= inBytes + n
          BY <5>3, <5>4, <1>1, <1>t
        <5>6. q[i].upto = q[i].bytes + (IF i = 1 THEN sending.upto ELSE q[i - 1].upto)
          BY <5>1, <5>3, Zenon
        <5> QED
          BY <5>1, <5>5, <5>6, Zenon
      <4>2. CASE i = Len(queue) + 1
        <5>1. q[i].upto = inBytes + n /\ q[i].bytes = n
          BY Zenon, <4>2, <1>3, <1>d
        <5>2. CASE Len(queue) = 0
          BY <4>2, <5>1, <5>2, <1>1, <1>2, <1>5, EmptyFacts, <1>i, <1>t DEF Stamped
        <5>3. CASE Len(queue) # 0
          <6>1. i # 1 /\ q[i - 1] = queue[Len(queue)]
            BY <4>2, <5>3, <1>3
          <6> QED
            BY SMTT(60), <4>2, <5>1, <5>3, <6>1, <1>1, <1>2, <1>5, EmptyFacts, <1>i, <1>t DEF Stamped
        <5> QED
          BY Zenon, <5>2, <5>3
      <4> QED
        BY <4>1, <4>2, <1>3
    <3>2. inBytes' = queue'[Len(queue')].upto /\ queue' # <<>>
      BY Zenon, <1>3, <1>4, <1>d, <2>1
    <3> QED
      BY <3>1, <3>2, <1>1, <1>4, <1>5, <2>1, <1>i, <1>t DEF Stamped
  <2>6. AfterClose'
    BY Zenon, <1>4, <1>i, <1>t DEF AfterClose
  <2> QED
    BY Zenon, <2>2, <2>3, <2>4, <2>5, <2>6 DEF PumpInv
<1>6. CASE sending = None
  <2>1. queue = <<>> /\ inBytes = outBytes
    BY Zenon, <1>6, <1>i, <1>t DEF Stamped
  <2>2. Tail(q) = <<>> /\ Head(q) = m
    BY <1>3, <2>1, TailFacts, EmptyFacts
  <2>3. /\ queue' = <<>>
        /\ sending' = m
        /\ doomed' = (link # "open")
    BY Zenon, <1>6, <1>b, <2>2
  <2>4. TypeOK'
    BY <1>1, <1>4, <1>c, <2>3, <1>i, <1>t DEF TypeOK
  <2>5. BytesBounded' /\ BytesExact'
    BY <1>1, <1>4, <1>i, <1>t DEF BytesBounded, BytesExact, Fits
  <2>6. InOrder'
    <3>1. /\ link = "open" => emitted = received
          /\ Len(queue) = 0 /\ Len(queue') = 0
      BY <1>6, <2>1, <2>3, <1>i, <1>t DEF InOrder
    <3>2. ~doomed' => link = "open"
      BY Zenon, <2>3
    <3>3. link = "open" => ~doomed'
      BY Zenon, <2>3
    <3> QED
      BY <3>1, <3>2, <3>3, <1>1, <1>4, <1>d, <1>t, <2>3 DEF InOrder
  <2>7. Stamped'
    BY <1>1, <1>4, <1>d, <2>1, <2>3, <1>i, <1>t DEF Stamped
  <2>8. AfterClose'
    BY <1>4, <1>i, <1>t DEF AfterClose
  <2> QED
    BY <2>4, <2>5, <2>6, <2>7, <2>8 DEF PumpInv
<1> QED
  BY Zenon, <1>5, <1>6

\* After a message was handed on, the next one follows it.
LEMMA DeliveredStep ==
    ASSUME PumpInv, Delivered
    PROVE  /\ PumpInv'
           /\ received' = received + 1 /\ received < emitted /\ queuedBytes' \in 0..MaxQueuedBytes
<1>i. TypeOK /\ BytesBounded /\ BytesExact /\ InOrder /\ Stamped /\ AfterClose
  BY Zenon DEF PumpInv
<1>t. /\ emitted \in Nat /\ received \in Nat /\ inBytes \in Nat /\ outBytes \in Nat
      /\ queuedBytes \in Int
      /\ sending.id \in Nat /\ sending.bytes \in Nat /\ sending.upto \in Nat
      /\ queue \in Seq(Message)
      /\ \A i \in 1..Len(queue) : /\ queue[i].id \in Nat
                                 /\ queue[i].bytes \in Nat
                                 /\ queue[i].upto \in Nat
  BY Zenon, <1>i, EmptyFacts DEF TypeOK, Message
<1>1. /\ sending # None /\ ~doomed
      /\ received' = sending.id
      /\ outBytes' = sending.upto
      /\ UNCHANGED <<closed, link, emitted, burst, inBytes>>
  BY Zenon DEF Delivered
<1>2. received' = received + 1 /\ received < emitted
  BY <1>1, <1>i, <1>t DEF InOrder
<1>3. CASE closed
  <2>1. queuedBytes' = 0 /\ queue = <<>> /\ link = "closing" /\ ~paused
    BY Zenon, <1>3, <1>i DEF Delivered, Remaining, BytesExact, AfterClose
  <2>2. sending' = None /\ queue' = queue /\ doomed' = doomed /\ paused' = paused
    BY Zenon, <1>3 DEF Delivered
  <2>3. TypeOK'
    BY <1>1, <1>2, <1>i, <1>t, <2>1, <2>2, NoneType DEF TypeOK
  <2>4. BytesBounded' /\ BytesExact'
    BY <1>1, <1>3, <2>1 DEF BytesBounded, BytesExact
  <2>5. InOrder' /\ Stamped' /\ AfterClose'
    BY <1>1, <1>3, <2>1, <2>2 DEF InOrder, Stamped, AfterClose
  <2> QED
    BY <2>3, <2>4, <2>5, <1>2, <2>1 DEF PumpInv
<1>4. CASE ~closed
  <2>0. /\ queuedBytes' = queuedBytes - sending.bytes
        /\ queuedBytes = inBytes - outBytes
        /\ sending.upto = outBytes + sending.bytes
        /\ sending.upto <= inBytes
        /\ queuedBytes \in 0..MaxQueuedBytes
    BY <1>4, <1>1, <1>i, Zenon DEF Delivered, Remaining, BytesExact, Stamped, BytesBounded
  <2>1. queuedBytes' = inBytes - sending.upto
    BY <2>0, <1>t
  <2>2. queuedBytes' \in Int /\ queuedBytes' >= 0 /\ queuedBytes' <= MaxQueuedBytes
    BY SMTT(60), <2>0, <1>t
  <2>3. BytesBounded' /\ BytesExact'
    BY <1>1, <1>4, <1>t, <2>1, <2>2 DEF BytesBounded, BytesExact
  <2>4. AfterClose'
    BY Zenon, <1>1, <1>4 DEF AfterClose
  <2>5. Drain(queue, paused)
    BY Zenon, <1>4 DEF Delivered
  <2>6. CASE queue = <<>>
    <3>1. queue' = <<>> /\ sending' = None /\ ~doomed' /\ ~paused'
      BY Zenon, <2>5, <2>6 DEF Drain
    <3>2. doomed' \in BOOLEAN /\ paused' \in BOOLEAN
      BY <2>5, <2>6, Zenon DEF Drain
    <3>3. TypeOK'
      BY <1>1, <1>2, <1>i, <1>t, <2>1, <3>1, <3>2, NoneType DEF TypeOK
    <3>4. inBytes = sending.upto
      BY Zenon, <1>1, <1>4, <1>i, <2>6 DEF Stamped
    <3>5. Stamped'
      BY <1>1, <3>1, <3>4 DEF Stamped
    <3>6. Len(queue) = 0 /\ Len(queue') = 0
      BY Zenon, <2>6, <3>1
    <3>7. link = "open" => emitted = received + 1
      BY <1>1, <1>4, <1>i, <1>t, <3>6 DEF InOrder
    <3>8. InOrder'
      BY <1>1, <1>2, <1>t, <3>1, <3>6, <3>7 DEF InOrder
    <3> QED
      BY Zenon, <2>3, <2>4, <3>3, <3>5, <3>8, <1>2 DEF PumpInv, BytesBounded
  <2>7. CASE queue # <<>>
    <3>1. queue' = Tail(queue) /\ sending' = Head(queue) /\ paused' = paused
      BY Zenon, <2>5, <2>7 DEF Drain
    <3>2. doomed' = (link # "open")
      BY <2>5, <2>7, Zenon DEF Drain
    <3>3. /\ queue' \in Seq(Message)
          /\ sending' = queue[1] /\ sending' \in Message
          /\ Len(queue) \in Nat \ {0}
          /\ Len(queue') = Len(queue) - 1
          /\ \A i \in 1..Len(queue') : queue'[i] = queue[i + 1]
      BY Zenon, <1>t, <2>7, <3>1, TailFacts
    <3>4. TypeOK'
      <4>1. doomed' \in BOOLEAN
        BY <3>2, Zenon
      <4> QED
        BY <1>1, <1>2, <1>i, <1>t, <2>1, <3>1, <3>3, <4>1 DEF TypeOK
    <3>5. sending'.id \in 1..emitted /\ sending' # None
      <4>1. queue[1].id \in 1..emitted
        BY <1>i, <3>3 DEF InOrder
      <4> QED
        BY <4>1, <3>3, <1>t DEF None
    <3>6. ASSUME link = "open"
          PROVE  /\ ~doomed'
                 /\ sending'.id = received' + 1
                 /\ \A i \in 1..Len(queue') : queue'[i].id = received' + i + 1
                 /\ emitted' = received' + Len(queue') + 1
      <4>1. /\ \A i \in 1..Len(queue) : queue[i].id = received + i + 1
            /\ emitted = received + Len(queue) + 1
        BY Zenon, <1>1, <1>4, <3>6, <1>i DEF InOrder
      <4>2. ~doomed'
        BY Zenon, <3>2, <3>6
      <4>3. sending'.id = received' + 1
        BY <4>1, <1>2, <1>t, <3>3
      <4>4. emitted' = received' + Len(queue') + 1
        BY <4>1, <1>1, <1>2, <1>t, <3>3
      <4>5. ASSUME NEW i \in 1..Len(queue') PROVE queue'[i].id = received' + i + 1
        <5>1. i + 1 \in 1..Len(queue) /\ queue'[i] = queue[i + 1]
          BY <3>3
        <5>2. queue[i + 1].id = received + (i + 1) + 1
          BY Zenon, <5>1, <4>1
        <5> QED
          BY <5>1, <5>2, <1>2, <1>t
      <4> QED
        BY Zenon, <4>2, <4>3, <4>4, <4>5
    <3>7. InOrder'
      <4>1. ASSUME NEW i \in 1..Len(queue') PROVE queue'[i].id \in 1..emitted
        <5>1. queue'[i] = queue[i + 1] /\ i + 1 \in 1..Len(queue)
          BY <4>1, <3>3
        <5> QED
          BY Zenon, <5>1, <1>i DEF InOrder
      <4>2. ~doomed' => link = "open"
        BY Zenon, <3>2
      <4> QED
        BY <4>1, <4>2, <1>1, <1>t, <3>5, <3>6 DEF InOrder
    <3>8. Stamped'
      <4>1. /\ sending'.upto = outBytes' + sending'.bytes
            /\ sending'.upto <= inBytes'
        <5>1. queue[1].upto <= inBytes /\ queue[1].upto = queue[1].bytes + sending.upto
          BY <1>4, <1>i, <3>3 DEF Stamped
        <5> QED
          BY SMTT(60), <5>1, <3>3, <1>1, <1>t
      <4>2. ASSUME NEW i \in 1..Len(queue')
            PROVE  /\ queue'[i].upto <= inBytes'
                   /\ queue'[i].upto = queue'[i].bytes
                        + (IF i = 1 THEN sending'.upto ELSE queue'[i - 1].upto)
        <5>1. queue'[i] = queue[i + 1] /\ i + 1 \in 1..Len(queue) /\ i + 1 # 1 /\ i + 1 - 1 = i
          BY <4>2, <3>3
        <5>2. /\ queue[i + 1].upto <= inBytes
              /\ queue[i + 1].upto = queue[i + 1].bytes + queue[i].upto
          BY <5>1, <1>4, <1>i DEF Stamped
        <5>3. i # 1 => queue'[i - 1] = queue[i]
          BY <4>2, <3>3
        <5> QED
          BY Zenon, <5>1, <5>2, <5>3, <3>3, <1>1
      <4>3. inBytes' = (IF queue' = <<>> THEN sending'.upto ELSE queue'[Len(queue')].upto)
        <5>1. inBytes = queue[Len(queue)].upto
          BY Zenon, <1>1, <1>4, <1>i, <2>7 DEF Stamped
        <5>2. CASE queue' = <<>>
          <6>1. Len(queue) = 1
            BY <5>2, <3>3, EmptyFacts
          <6> QED
            BY Zenon, <5>1, <5>2, <6>1, <3>3, <1>1
        <5>3. CASE queue' # <<>>
          BY <5>1, <5>3, <3>3, <1>1, EmptyFacts
        <5> QED
          BY Zenon, <5>2, <5>3
      <4> QED
        BY Zenon, <4>1, <4>2, <4>3, <3>5 DEF Stamped
    <3> QED
      BY Zenon, <2>3, <2>4, <3>4, <3>7, <3>8, <1>2 DEF PumpInv, BytesBounded
  <2> QED
    BY Zenon, <2>6, <2>7
<1> QED
  BY Zenon, <1>3, <1>4

\* Nothing but the link and the byte counts changes otherwise.
LEMMA CloseStep ==
    ASSUME PumpInv, Close, link' = "closing", UNCHANGED <<emitted, burst, received, inBytes>>,
           \/ sending' = None /\ ~doomed' /\ outBytes' = sending.upto
           \/ UNCHANGED <<sending, doomed, outBytes>>,
           doomed' \in BOOLEAN
    PROVE  PumpInv' /\ queuedBytes' = 0
<1>i. TypeOK /\ InOrder
  BY Zenon DEF PumpInv
<1>1. closed' = TRUE /\ queue' = <<>> /\ queuedBytes' = 0 /\ paused' = FALSE
  BY Zenon DEF Close
<1>2. sending' \in Message /\ outBytes' \in Nat
  BY Zenon, <1>i, NoneType DEF TypeOK, Message
<1>b. {doomed', closed', paused'} \subseteq BOOLEAN
  <2>1. closed' \in BOOLEAN /\ paused' \in BOOLEAN
    BY <1>1, Zenon
  <2> QED
    BY Zenon, <2>1
<1>3. TypeOK'
  BY <1>i, <1>1, <1>2, <1>b DEF TypeOK
<1>4. BytesBounded' /\ BytesExact' /\ Stamped' /\ AfterClose'
  BY <1>1 DEF BytesBounded, BytesExact, Stamped, AfterClose
<1>5. InOrder'
  <2>1. Len(queue') = 0
    BY Zenon, <1>1
  <2>2. CASE sending' = None
    BY <1>1, <2>1, <2>2 DEF InOrder
  <2>3. CASE UNCHANGED <<sending, doomed, outBytes>>
    BY <1>1, <1>i, <2>1, <2>3 DEF InOrder
  <2> QED
    BY Zenon, <2>2, <2>3
<1> QED
  BY Zenon, <1>1, <1>3, <1>4, <1>5 DEF PumpInv

\* The link begins to close, or a message is refused or ignored.
LEMMA LinkStep ==
    ASSUME PumpInv, UNCHANGED <<pump, received, inBytes, outBytes>>,
           emitted' \in {emitted, emitted + 1}, burst' \in Int,
           link' = "closing" \/ (link' = link /\ (emitted' = emitted \/ closed))
    PROVE  PumpInv'
<1>i. TypeOK /\ BytesBounded /\ BytesExact /\ InOrder /\ Stamped /\ AfterClose
  BY Zenon DEF PumpInv
<1>u. UNCHANGED <<queue, queuedBytes, sending, doomed, closed, paused>>
  BY Zenon DEF pump
<1>1. TypeOK'
  BY <1>i, <1>u DEF TypeOK
<1>2. BytesBounded' /\ BytesExact' /\ Stamped' /\ AfterClose'
  BY Zenon, <1>i, <1>u DEF BytesBounded, BytesExact, Stamped, AfterClose
<1>3. InOrder'
  <2>1. emitted \in Nat /\ emitted' \in Nat /\ emitted <= emitted' /\ sending.id \in Nat
    BY <1>i DEF TypeOK, Message
  <2>2. sending' # None => sending'.id <= emitted'
    BY <2>1, <1>i, <1>u DEF InOrder
  <2>3. ASSUME NEW i \in 1..Len(queue') PROVE queue'[i].id \in 1..emitted'
    <3>1. queue[i].id \in 1..emitted
      BY Zenon, <1>i, <1>u DEF InOrder
    <3> QED
      BY <3>1, <2>1, <1>u
  <2>4. ~closed' /\ link' = "open" => link = "open" /\ emitted' = emitted
    BY Zenon, <1>u
  <2> QED
    BY Zenon, <2>2, <2>3, <2>4, <1>i, <1>u DEF InOrder
<1> QED
  BY Zenon, <1>1, <1>2, <1>3 DEF PumpInv

\* Every step of the pump keeps the invariant, and is a step of the channel.
LEMMA StepKeeps ==
    ASSUME PumpInv, [Next]_vars
    PROVE  PumpInv' /\ [Channel!ChNext]_(Channel!chvars)
<1>i. TypeOK /\ BytesBounded /\ AfterClose
  BY Zenon DEF PumpInv
<1>t. emitted \in Nat /\ received \in Nat /\ queuedBytes \in 0..MaxQueuedBytes /\ burst \in Int
  BY Zenon, <1>i DEF TypeOK, BytesBounded
<1> USE DEF Channel!chvars, Channel!ChNext, Channel!Bytes
<1>1. CASE Enqueue
  <2>1. emitted' = emitted + 1 /\ received' = received
    BY Zenon, <1>1 DEF Enqueue, Accept
  <2>2. burst' \in Int
    BY <1>1, <1>t DEF Enqueue
  <2>3. PumpInv'
    <3>1. PICK n \in Size :
            \/ closed /\ UNCHANGED <<pump, link, received, inBytes, outBytes>>
            \/ Reject /\ UNCHANGED <<pump, received, inBytes, outBytes>>
            \/ ~closed /\ n <= MaxMessageBytes /\ Fits(n) /\ Accept(n)
      BY Zenon, <1>1 DEF Enqueue
    <3>2. CASE closed /\ UNCHANGED <<pump, link, received, inBytes, outBytes>>
      BY Zenon, <3>2, <2>1, <2>2, LinkStep
    <3>3. CASE Reject /\ UNCHANGED <<pump, received, inBytes, outBytes>>
      BY Zenon, <3>3, <2>1, <2>2, LinkStep DEF Reject
    <3>4. CASE ~closed /\ n <= MaxMessageBytes /\ Fits(n) /\ Accept(n)
      BY Zenon, <3>4, <2>1, <2>2, AcceptStep
    <3> QED
      BY Zenon, <3>1, <3>2, <3>3, <3>4
  <2>4. queuedBytes' \in 0..MaxQueuedBytes
    BY Zenon, <2>3 DEF PumpInv, BytesBounded
  <2>5. Channel!Send
    BY Zenon, <2>1, <2>4 DEF Channel!Send
  <2> QED
    BY Zenon, <2>3, <2>5
<1>2. CASE Delivered
  <2>1. emitted' = emitted
    BY Zenon, <1>2 DEF Delivered
  <2> QED
    BY Zenon, <1>2, <2>1, DeliveredStep DEF Channel!Receive
<1>3. CASE SendFailed
  <2>1. PumpInv' /\ queuedBytes' = 0
    BY Zenon, <1>3, CloseStep DEF SendFailed, Reject
  <2>2. UNCHANGED <<emitted, received>>
    BY Zenon, <1>3 DEF SendFailed
  <2> QED
    BY <2>1, <2>2, <1>t DEF Channel!Drop
<1>4. CASE LinkCloses
  <2>1. PumpInv'
    BY Zenon, <1>4, <1>t, LinkStep DEF LinkCloses
  <2>2. UNCHANGED <<emitted, received, queuedBytes>>
    BY Zenon, <1>4 DEF LinkCloses, pump
  <2> QED
    BY Zenon, <2>1, <2>2
<1>5. CASE Finalized
  <2>1. PumpInv' /\ queuedBytes' = 0
    <3>1. doomed' \in BOOLEAN
      BY Zenon, <1>5, <1>i DEF Finalized, TypeOK
    <3> QED
      BY Zenon, <1>5, <3>1, CloseStep DEF Finalized
  <2>2. UNCHANGED <<emitted, received>>
    BY Zenon, <1>5 DEF Finalized
  <2> QED
    BY <2>1, <2>2, <1>t DEF Channel!Drop
<1>6. CASE UNCHANGED vars
  <2>1. PumpInv'
    BY Zenon, <1>6, <1>t, LinkStep DEF vars
  <2>2. UNCHANGED <<emitted, received, queuedBytes>>
    BY Zenon, <1>6 DEF vars, pump
  <2> QED
    BY <2>1, <2>2
<1> QED
  BY Zenon, <1>1, <1>2, <1>3, <1>4, <1>5, <1>6 DEF Next

\* Before the first message the invariant and the channel's initial state hold.
LEMMA InitKeeps ==
    ASSUME Init
    PROVE  PumpInv /\ Channel!ChInit
<1>1. TypeOK
  <2>1. closed \in BOOLEAN /\ paused \in BOOLEAN /\ doomed \in BOOLEAN
    BY Zenon DEF Init
  <2> QED
    BY <2>1, NoneType DEF Init, TypeOK
<1>2. BytesBounded /\ BytesExact /\ Stamped /\ AfterClose
  BY DEF Init, BytesBounded, BytesExact, Stamped, AfterClose
<1>3. InOrder
  BY DEF Init, InOrder
<1> QED
  BY Zenon, <1>1, <1>2, <1>3 DEF PumpInv, Init, Channel!ChInit

\* The byte count of the pump stays between zero and its limit, for all limits
\* and sizes: a callback after close() takes nothing off it.
THEOREM PumpBytes == Spec => [](PumpInv /\ BytesBounded)
<1>1. Init => PumpInv
  BY Zenon, InitKeeps
<1>2. PumpInv /\ [Next]_vars => PumpInv'
  BY Zenon, StepKeeps
<1>3. PumpInv => BytesBounded
  BY Zenon DEF PumpInv
<1> QED
  BY <1>1, <1>2, <1>3, PTL DEF Spec

\* The pump implements the channel: messages arrive in order, without a gap or
\* a repetition, whatever fails.
THEOREM PumpImplementsChannel == Spec => ChannelKept
<1>1. Init => PumpInv /\ Channel!ChInit
  BY Zenon, InitKeeps
<1>2. PumpInv /\ [Next]_vars => PumpInv' /\ [Channel!ChNext]_(Channel!chvars)
  BY Zenon, StepKeeps
<1> QED
  BY <1>1, <1>2, PTL DEF Spec, ChannelKept, Channel!ChSpec
================================================================================
