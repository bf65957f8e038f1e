-------------------------- MODULE TransportProofs --------------------------
(***************************************************************************)
(* Proofs about the packet transports: the byte stream of a USB session    *)
(* (UsbRing) for any request size, ring depth and transfer lengths, and    *)
(* the UDP transport (UdpLink) as a reliable link each way.                *)
(***************************************************************************)
EXTENDS UsbRing, UdpLink, TLAPS

\* The requests of this transfer that the kernel has carried out.
Done == completed + Len(cq)

\* The units up to the end of the k-th request.
Limit(k) == Smaller(k * IoSize, want)

\* The counters count: every request prepared is counted, completed, with the
\* kernel or still queued.
Counted ==
  /\ want \in Nat \ {0} /\ prepared \in Nat /\ completed \in Nat
  /\ sq \in Seq([at : Int, len : Int]) /\ cq \in Seq(Int)
  /\ prepared <= total_requests
  /\ \/ chains = <<>> /\ prepared = Done + Len(sq)
     \/ Len(chains) = 1 /\ prepared = Done + Len(chains[1]) + Len(sq)

\* The kernel has one chain at most, of the requests that come next.
OneChain ==
  \/ chains = <<>>
  \/ /\ chains \in Seq(Seq([at : Int, len : Int]))
     /\ Len(chains) = 1 /\ Len(chains[1]) > 0
     /\ \A j \in 1 .. Len(chains[1]) : chains[1][j] = Request(Done + j)

\* What has been moved is what was counted, or will be: u[j] is where the stream
\* was after the j-th completion still in the queue.
Accounted ==
  /\ res \in Nat /\ at \in Nat
  /\ \E u \in [0 .. Len(cq) -> 0 .. at] :
       /\ u[0] = res /\ u[Len(cq)] = at
       /\ \A j \in 1 .. Len(cq) : u[j] = IF cq[j] < 0 THEN u[j - 1] ELSE u[j - 1] + cq[j]

\* No unit is moved twice, and while none is missing each is in its place.
Placed ==
  /\ buf \in [1 .. want -> Int]
  /\ at <= Limit(Done)
  /\ at = Limit(Done) => \A i \in 1 .. at : buf[i] = i

TransferInv == Counted /\ OneChain /\ Accounted /\ Placed

UsbInv ==
  /\ xfer \in {"idle", "loop", "wait", "drain"}
  /\ xfer # "idle" => session = "up" /\ TransferInv
  /\ StreamIntact

\* total_requests is the least number of requests that covers the transfer.
LEMMA RequestsCover ==
  ASSUME NEW w \in Nat, NEW s \in Nat \ {0}, NEW k \in Nat
  PROVE  /\ (w + s - 1) \div s \in Nat
         /\ k < (w + s - 1) \div s <=> k * s < w
<1> DEFINE q == (w + s - 1) \div s
<1>1. q \in Nat /\ q * s <= w + s - 1 /\ w + s - 1 < q * s + s
  OBVIOUS
<1> HIDE DEF q
<1>2. k < q => k * s < w
  <2> SUFFICES ASSUME k < q PROVE k * s < w
    OBVIOUS
  <2>1. PICK d \in Nat : q = k + 1 + d
    <3>1. q - k - 1 \in Nat /\ q = k + 1 + (q - k - 1)
      BY <1>1
    <3> QED BY <3>1
  <2>2. q * s = k * s + s + d * s /\ d * s >= 0
    BY <2>1
  <2> QED BY <1>1, <2>2
<1>3. k >= q => k * s >= w
  <2> SUFFICES ASSUME k >= q PROVE k * s >= w
    OBVIOUS
  <2>1. PICK d \in Nat : k = q + d
    <3>1. k - q \in Nat /\ k = q + (k - q)
      BY <1>1
    <3> QED BY <3>1
  <2>2. k * s = q * s + d * s /\ d * s >= 0
    BY <1>1, <2>1
  <2> QED BY <1>1, <2>2
<1> QED BY <1>1, <1>2, <1>3 DEF q

Requests == [at : Int, len : Int]

\* A request covers the stream from where the one before it ended; the last one
\* ends with the transfer.
LEMMA Limits ==
  ASSUME want \in Nat, NEW k \in Nat
  PROVE  /\ total_requests \in Nat /\ Limit(k) \in Nat /\ Limit(k) <= want
         /\ Request(k + 1) \in Requests
         /\ Request(k + 1).at = k * IoSize
         /\ k < total_requests =>
              /\ Limit(k) = k * IoSize
              /\ Request(k + 1).len \in Nat
              /\ Limit(k + 1) = k * IoSize + Request(k + 1).len
         /\ k >= total_requests => Limit(k) = want
<1>1. IoSize \in Nat \ {0}
  BY UsbRingAssumption
<1>2. total_requests \in Nat /\ (k < total_requests <=> k * IoSize < want)
  BY <1>1, RequestsCover DEF total_requests
<1> HIDE DEF total_requests
<1>3. k * IoSize \in Nat /\ (k + 1) * IoSize = k * IoSize + IoSize /\ (k + 1) - 1 = k
  BY <1>1
<1>4. Request(k + 1) = [at |-> k * IoSize, len |-> Smaller(want - k * IoSize, IoSize)]
  BY <1>3 DEF Request
<1> QED BY <1>1, <1>2, <1>3, <1>4 DEF Limit, Smaller, Requests

\* Nothing in flight is nothing prepared: the ring is empty.
LEMMA NoneInFlight ==
  ASSUME Counted, OneChain, in_flight = 0
  PROVE  sq = <<>> /\ chains = <<>> /\ cq = <<>> /\ Done = completed
<1>1. Len(sq) \in Nat /\ Len(cq) \in Nat
  BY DEF Counted
<1>0. prepared = completed /\ completed \in Nat
  BY DEF Counted, in_flight
<1>2. Len(sq) = 0 /\ Len(cq) = 0 /\ chains = <<>>
  <2>1. CASE chains = <<>>
    <3>1. prepared = Done + Len(sq)
      BY <2>1 DEF Counted
    <3> QED BY <1>0, <1>1, <2>1, <3>1 DEF Counted, Done
  <2>2. CASE chains # <<>>
    <3>1. Len(chains[1]) \in Nat /\ Len(chains[1]) > 0
      BY <2>2 DEF OneChain
    <3>2. prepared = Done + Len(chains[1]) + Len(sq)
      BY <2>2 DEF Counted
    <3> DEFINE m == Len(cq)
               l == Len(chains[1])
               k == Len(sq)
    <3>3. completed = completed + m + l + k
      BY <1>0, <3>2 DEF Done
    <3>4. m \in Nat /\ k \in Nat /\ l \in Nat /\ l > 0
      BY <1>1, <3>1
    <3> HIDE DEF m, l, k
    <3> QED BY <1>0, <3>3, <3>4
  <2> QED BY <2>1, <2>2
<1> QED BY <1>1, <1>2 DEF Counted, Done

\* A transfer starts with an empty ring, none of its units in place.
LEMMA StartStep ==
  ASSUME UsbInv, NEW n \in Lengths, StartTransfer(n)
  PROVE  TransferInv'
<1>1. n \in Nat \ {0} /\ want' = n /\ prepared' = 0 /\ completed' = 0 /\ res' = 0 /\ at' = 0
      /\ buf' = [i \in 1 .. n |-> -1] /\ cq' = <<>> /\ sq' = <<>> /\ chains' = <<>>
  BY UsbRingAssumption DEF StartTransfer, UsbInv, StreamIntact, RingQuiet
<1>2. Len(cq') = 0 /\ Len(sq') = 0 /\ Done' = 0
  BY <1>1 DEF Done
<1>3. total_requests' \in Nat
  BY <1>1, UsbRingAssumption, RequestsCover DEF total_requests
<1>4. Counted'
  BY <1>1, <1>2, <1>3 DEF Counted
<1>5. OneChain'
  BY <1>1 DEF OneChain
<1>6. Accounted'
  <2>1. [j \in 0 .. 0 |-> 0] \in [0 .. 0 -> 0 .. 0] /\ [j \in 0 .. 0 |-> 0][0] = 0
    OBVIOUS
  <2>2. \A j \in 1 .. 0 : FALSE
    OBVIOUS
  <2> QED BY <1>1, <1>2, <2>1, <2>2 DEF Accounted
<1>7. Placed'
  <2>1. Limit(Done)' = 0
    BY <1>1, <1>2, UsbRingAssumption DEF Limit, Smaller
  <2> QED BY <1>1, <2>1 DEF Placed
<1> QED BY <1>4, <1>5, <1>6, <1>7 DEF TransferInv
\* A batch is queued into an empty ring: what the kernel takes of it is the one
\* chain, and something is always in flight afterwards.
LEMMA QueueStep ==
  ASSUME xfer # "idle", session = "up", TransferInv, QueueRequests
  PROVE  TransferInv' /\ session' = "up" /\ xfer' = "wait"
<1>0. Counted /\ OneChain /\ completed < total_requests /\ in_flight = 0
  BY DEF TransferInv, QueueRequests
<1>1. sq = <<>> /\ chains = <<>> /\ cq = <<>> /\ Done = completed /\ prepared = completed
      /\ completed \in Nat /\ want \in Nat \ {0}
  BY <1>0, NoneInFlight DEF Counted, in_flight
<1>2. total_requests \in Nat
  BY <1>1, Limits
<1> DEFINE n == Smaller(total_requests - prepared, QueueDepth - Len(sq))
           b == [i \in 1 .. n |-> Request(prepared + i)]
           batch == sq \o b
<1>3. n \in Nat /\ n > 0 /\ prepared + n <= total_requests
  BY <1>0, <1>1, <1>2, UsbRingAssumption DEF Smaller
<1>4. b \in Seq(Requests) /\ Len(b) = n
  <2>1. \A i \in 1 .. n : Request(prepared + i) \in Requests
    <3> SUFFICES ASSUME NEW i \in 1 .. n PROVE Request(prepared + i) \in Requests
      OBVIOUS
    <3>1. prepared + (i - 1) \in Nat /\ prepared + (i - 1) + 1 = prepared + i
      BY <1>1, <1>3
    <3>2. Request(prepared + (i - 1) + 1) \in Requests
      BY <1>1, <3>1, Limits
    <3> QED BY <3>1, <3>2
  <2> HIDE DEF n
  <2> QED BY <1>3, <2>1
<1>5. batch = b
  <2> HIDE DEF b
  <2> QED BY <1>1, <1>4
<1>6. PICK k \in 0 .. n, tk \in -1 .. n :
        /\ k = IF tk < 0 THEN 0 ELSE tk
        /\ prepared' = prepared + n
        /\ sq' = SubSeq(b, k + 1, n)
        /\ chains' = IF k = 0 THEN chains ELSE Append(chains, SubSeq(b, 1, k))
        /\ IF tk <= 0 /\ prepared + n = completed
             THEN Return(-1)
             ELSE xfer' = "wait" /\ UNCHANGED <<session, result>>
        /\ UNCHANGED <<want, completed, res, cq, at, buf>>
  <2>1. PICK tk \in -1 .. Len(batch) :
          LET k == IF tk < 0 THEN 0 ELSE tk
          IN  /\ prepared' = prepared + n
              /\ sq' = SubSeq(batch, k + 1, Len(batch))
              /\ chains' = IF k = 0 THEN chains ELSE Append(chains, SubSeq(batch, 1, k))
              /\ IF tk <= 0 /\ prepared + n = completed
                   THEN Return(-1)
                   ELSE xfer' = "wait" /\ UNCHANGED <<session, result>>
              /\ UNCHANGED <<want, completed, res, cq, at, buf>>
    BY DEF QueueRequests, SubmitBatch
  <2> HIDE DEF n, b, batch
  <2>2. tk \in -1 .. n /\ (IF tk < 0 THEN 0 ELSE tk) \in 0 .. n
    BY <1>3, <1>4, <1>5, <2>1
  <2> QED BY <1>4, <1>5, <2>1, <2>2
<1> HIDE DEF n
<1>7. xfer' = "wait" /\ session' = "up"
  BY <1>1, <1>3, <1>6
<1>8. Done' = Done /\ Len(cq') = 0 /\ Len(sq') = n - k /\ sq' \in Seq(Requests)
  <2> HIDE DEF b
  <2> QED BY <1>1, <1>3, <1>4, <1>6, SMTT(40) DEF Done
<1>9. \/ k = 0 /\ chains' = <<>>
      \/ k > 0 /\ chains' = <<SubSeq(b, 1, k)>>
  <2> HIDE DEF b
  <2> QED BY <1>1, <1>6
<1>10. k > 0 => SubSeq(b, 1, k) \in Seq(Requests) /\ Len(SubSeq(b, 1, k)) = k
  <2> HIDE DEF b
  <2> QED BY <1>3, <1>4, <1>6
<1>11. \A j \in 1 .. k : SubSeq(b, 1, k)[j] = Request(Done + j)
  <2>1. \A j \in 1 .. k : SubSeq(b, 1, k)[j] = b[j]
    <3> HIDE DEF b
    <3> QED BY <1>3, <1>4, <1>6
  <2> QED BY <1>1, <1>3, <1>6, <2>1
<1>12. total_requests' = total_requests /\ \A j : Request(j)' = Request(j)
  BY <1>6 DEF total_requests, Request
<1> HIDE DEF b
<1>13. Counted'
  <2>1. prepared' = prepared + n /\ UNCHANGED <<want, completed, cq>>
    BY <1>6
  <2>2. \/ chains' = <<>> /\ prepared' = Done' + Len(sq')
        \/ Len(chains') = 1 /\ prepared' = Done' + Len(chains'[1]) + Len(sq')
    BY <1>1, <1>3, <1>8, <1>9, <1>10, <2>1, SMTT(40)
  <2> QED BY <1>0, <1>1, <1>3, <1>8, <1>12, <2>1, <2>2 DEF Counted, Requests
<1>14. OneChain'
  <2>1. CASE k = 0
    BY <1>9, <2>1 DEF OneChain
  <2>2. CASE k > 0
    <3>1. chains' = <<SubSeq(b, 1, k)>> /\ chains'[1] = SubSeq(b, 1, k) /\ Len(chains') = 1
      BY <1>9, <2>2
    <3>2. chains' \in Seq(Seq(Requests))
      BY <1>10, <2>2, <3>1
    <3>3. \A j \in 1 .. Len(chains'[1]) : chains'[1][j] = Request(Done + j)'
      BY <1>8, <1>10, <1>11, <1>12, <2>2, <3>1
    <3> QED BY <1>10, <2>2, <3>1, <3>2, <3>3 DEF OneChain, Requests
  <2> QED BY <1>6, <2>1, <2>2
<1>15. Accounted'
  BY <1>6 DEF TransferInv, Accounted
<1>16. Placed'
  BY <1>6, <1>8 DEF TransferInv, Placed, Limit
<1> QED BY <1>7, <1>13, <1>14, <1>15, <1>16 DEF TransferInv

\* The kernel carries out the next request in order, so what it moves goes where
\* it belongs unless an earlier request came up short.
LEMMA KernelStep ==
  ASSUME TransferInv, KernelCompletes
  PROVE  TransferInv'
<1>0. Counted /\ OneChain /\ Accounted /\ Placed
  BY DEF TransferInv
<1> DEFINE ch == chains[1]
<1>c. PICK c \in 1 .. Len(chains) : \E n \in -1 .. chains[c][1].len :
        LET r == chains[c][1]
            got == IF n < 0 THEN 0 ELSE n
        IN  /\ chains' = IF Len(chains[c]) = 1
                         THEN SubSeq(chains, 1, c - 1) \o SubSeq(chains, c + 1, Len(chains))
                         ELSE [chains EXCEPT ![c] = Tail(@)]
            /\ cq' = Append(cq, n) /\ at' = at + got
            /\ buf' = [i \in DOMAIN buf |->
                         IF i - r.at \in 1 .. got THEN at + (i - r.at) ELSE buf[i]]
            /\ UNCHANGED <<want, prepared, completed, res, sq>>
  BY DEF KernelCompletes, counters
<1>1. PICK n \in -1 .. chains[c][1].len :
        LET r == chains[c][1]
            got == IF n < 0 THEN 0 ELSE n
        IN  /\ chains' = IF Len(chains[c]) = 1
                         THEN SubSeq(chains, 1, c - 1) \o SubSeq(chains, c + 1, Len(chains))
                         ELSE [chains EXCEPT ![c] = Tail(@)]
            /\ cq' = Append(cq, n) /\ at' = at + got
            /\ buf' = [i \in DOMAIN buf |->
                         IF i - r.at \in 1 .. got THEN at + (i - r.at) ELSE buf[i]]
            /\ UNCHANGED <<want, prepared, completed, res, sq>>
  BY <1>c
<1>n. chains # <<>>
  <2>1. c \in 1 .. Len(chains)
    BY <1>c
  <2> QED BY <2>1
<1>2. /\ chains \in Seq(Seq(Requests)) /\ Len(chains) = 1 /\ ch \in Seq(Requests)
      /\ Len(ch) \in Nat /\ Len(ch) > 0
      /\ \A j \in 1 .. Len(ch) : ch[j] = Request(Done + j)
  <2>2. chains # <<>>
    BY <1>n
  <2>3. /\ chains \in Seq(Seq(Requests)) /\ Len(chains) = 1 /\ Len(ch) > 0
        /\ \A j \in 1 .. Len(ch) : ch[j] = Request(Done + j)
    BY <1>0, <2>2 DEF OneChain, Requests
  <2>4. ch \in Seq(Requests)
    <3>1. chains \in Seq(Seq(Requests)) /\ Len(chains) = 1
      BY <2>3
    <3> QED BY <3>1, SMTT(40)
  <2> HIDE DEF ch
  <2>5. Len(ch) \in Nat
    BY <2>4
  <2> QED BY <2>3, <2>4, <2>5
<1>3. c = 1
  BY <1>c, <1>2
<1>4. /\ Len(cq) \in Nat /\ Len(sq) \in Nat /\ want \in Nat /\ completed \in Nat
      /\ Done \in Nat /\ Done = completed + Len(cq)
  <2>1. sq \in Seq(Requests) /\ cq \in Seq(Int) /\ want \in Nat /\ completed \in Nat
    BY <1>0 DEF Counted, Requests
  <2>2. Len(cq) \in Nat /\ Len(sq) \in Nat
    BY <2>1
  <2> QED BY <2>1, <2>2 DEF Done
<1>5. prepared = Done + Len(ch) + Len(sq) /\ prepared <= total_requests
  BY <1>0, <1>n DEF Counted
<1>6. total_requests \in Nat /\ Done < total_requests
  <2> DEFINE l == Len(ch)
             m == Len(sq)
  <2>1. total_requests \in Nat
    BY <1>4, Limits
  <2>2. l \in Nat /\ l > 0 /\ m \in Nat /\ prepared = Done + l + m
    BY <1>2, <1>4, <1>5
  <2>3. Done \in Nat /\ prepared <= total_requests
    BY <1>4, <1>5
  <2> HIDE DEF l, m, total_requests, Done
  <2> QED BY <2>1, <2>2, <2>3
<1> DEFINE r == Request(Done + 1)
           got == IF n < 0 THEN 0 ELSE n
<1>7. ch[1] = r
  BY <1>2
<1>8. /\ r.at = Limit(Done) /\ r.len \in Nat
      /\ Limit(Done + 1) = Limit(Done) + r.len
      /\ Limit(Done) \in Nat /\ Limit(Done + 1) \in Nat /\ Limit(Done + 1) <= want
  BY <1>4, <1>6, Limits, SMTT(40)
<1>9. n \in -1 .. r.len /\ got \in 0 .. r.len
  BY <1>1, <1>3, <1>7, <1>8, SMTT(40)
<1>10. cq' = Append(cq, n) /\ cq' \in Seq(Int) /\ Len(cq') = Len(cq) + 1 /\ Done' = Done + 1
  <2>1. cq' = Append(cq, n) /\ cq \in Seq(Int) /\ n \in Int /\ UNCHANGED completed
    BY <1>0, <1>1, <1>9 DEF Counted
  <2>2. cq' \in Seq(Int) /\ Len(cq') = Len(cq) + 1
    BY <2>1
  <2> QED BY <1>4, <2>1, <2>2 DEF Done
<1>11. /\ total_requests' = total_requests /\ (\A j : Request(j)' = Request(j))
       /\ Limit(Done)' = Limit(Done + 1)
  BY <1>1, <1>10 DEF total_requests, Request, Limit
<1>12. /\ Len(ch) = 1 => chains' = <<>>
       /\ Len(ch) > 1 => /\ chains' \in Seq(Seq(Requests)) /\ Len(chains') = 1
                         /\ chains'[1] = Tail(ch)
  <2>1. chains' = IF Len(ch) = 1 THEN SubSeq(chains, 1, 0) \o SubSeq(chains, 2, 1)
                  ELSE [chains EXCEPT ![1] = Tail(@)]
    BY <1>1, <1>2, <1>3
  <2>2. SubSeq(chains, 1, 0) = <<>> /\ SubSeq(chains, 2, 1) = <<>>
    BY <1>2
  <2>3. <<>> \o <<>> = <<>>
    OBVIOUS
  <2>4. Tail(ch) \in Seq(Requests)
    BY <1>2
  <2>5. [chains EXCEPT ![1] = Tail(@)] = <<Tail(ch)>>
    <3>1. chains = <<ch>>
      BY <1>2
    <3> QED BY <3>1
  <2>6. CASE Len(ch) = 1
    BY <2>1, <2>2, <2>3, <2>6
  <2>7. CASE Len(ch) # 1
    <3>1. chains' = <<Tail(ch)>>
      BY <2>1, <2>5, <2>7
    <3> HIDE DEF ch
    <3> QED BY <2>4, <2>7, <3>1
  <2> QED BY <2>6, <2>7
<1>13. Len(ch) > 1 => /\ Len(Tail(ch)) = Len(ch) - 1
                      /\ \A j \in 1 .. Len(ch) - 1 : Tail(ch)[j] = Request(Done + 1 + j)
  <2> SUFFICES ASSUME Len(ch) > 1
               PROVE  /\ Len(Tail(ch)) = Len(ch) - 1
                      /\ \A j \in 1 .. Len(ch) - 1 : Tail(ch)[j] = Request(Done + 1 + j)
    OBVIOUS
  <2> HIDE DEF ch
  <2>1. Len(Tail(ch)) = Len(ch) - 1 /\ \A j \in 1 .. Len(ch) - 1 : Tail(ch)[j] = ch[j + 1]
    BY <1>2
  <2>2. \A j \in 1 .. Len(ch) - 1 : j + 1 \in 1 .. Len(ch) /\ Done + (j + 1) = Done + 1 + j
    BY <1>2, <1>4
  <2> QED BY <1>2, <2>1, <2>2
<1>14. Counted'
  <2>1. \/ chains' = <<>> /\ prepared' = Done' + Len(sq')
        \/ Len(chains') = 1 /\ prepared' = Done' + Len(chains'[1]) + Len(sq')
    <3>1. CASE Len(ch) = 1
      BY <1>1, <1>4, <1>5, <1>10, <1>12, <3>1
    <3>2. CASE Len(ch) > 1
      <4> DEFINE l == Len(ch)
             m == Len(sq)
             l1 == Len(chains'[1])
      <4>1. l \in Nat /\ prepared = Done + l + m /\ l1 = l - 1 /\ m \in Nat
        BY <1>2, <1>4, <1>5, <1>12, <1>13, <3>2
      <4>2. prepared' = prepared /\ Len(sq') = m /\ Len(chains') = 1
        BY <1>1, <1>12, <3>2
      <4>3. prepared' = Done' + l1 + m
        <5> HIDE DEF l, m, l1
        <5> QED BY <1>4, <1>10, <4>1, <4>2
      <4> QED BY <4>2, <4>3
    <3> QED BY <1>2, <3>1, <3>2
  <2>2. UNCHANGED <<want, prepared, completed, sq>>
    BY <1>1
  <2> QED BY <1>0, <1>10, <1>11, <2>1, <2>2 DEF Counted
<1>15. OneChain'
  <2>1. CASE Len(ch) = 1
    BY <1>12, <2>1 DEF OneChain
  <2>2. CASE Len(ch) > 1
    <3>1. \A j \in 1 .. Len(chains'[1]) : chains'[1][j] = Request(Done + j)'
      BY <1>10, <1>11, <1>12, <1>13, <2>2
    <3> QED BY <1>2, <1>12, <1>13, <2>2, <3>1 DEF OneChain, Requests
  <2> QED BY <1>2, <2>1, <2>2
<1>16. Accounted'
  <2>1. PICK u \in [0 .. Len(cq) -> 0 .. at] :
          /\ u[0] = res /\ u[Len(cq)] = at
          /\ \A j \in 1 .. Len(cq) : u[j] = IF cq[j] < 0 THEN u[j - 1] ELSE u[j - 1] + cq[j]
    BY <1>0 DEF Accounted
  <2>2. at' = at + got /\ at \in Nat /\ at' \in Nat /\ at <= at' /\ res' = res /\ res \in Nat
    BY <1>0, <1>1, <1>8, <1>9 DEF Accounted
  <2> DEFINE m == Len(cq)
             v == [j \in 0 .. m + 1 |-> IF j = m + 1 THEN at' ELSE u[j]]
  <2>3. v \in [0 .. Len(cq') -> 0 .. at']
    <3>1. m \in Nat /\ Len(cq') = m + 1 /\ u \in [0 .. m -> 0 .. at]
      BY <1>4, <1>10, <2>1
    <3> HIDE DEF m
    <3> QED BY <2>2, <3>1, SMTT(40)
  <2>4. v[0] = res' /\ v[Len(cq')] = at'
    BY <1>4, <1>10, <2>1, <2>2, SMTT(40)
  <2>5. \A j \in 1 .. Len(cq') : cq'[j] = IF j = m + 1 THEN n ELSE cq[j]
    BY <1>0, <1>4, <1>10, SMTT(40) DEF Counted
  <2>6. \A j \in 1 .. Len(cq') : v[j] = IF cq'[j] < 0 THEN v[j - 1] ELSE v[j - 1] + cq'[j]
    <3> SUFFICES ASSUME NEW j \in 1 .. Len(cq')
                 PROVE  v[j] = IF cq'[j] < 0 THEN v[j - 1] ELSE v[j - 1] + cq'[j]
      OBVIOUS
    <3>1. CASE j = m + 1
      <4>1. v[j] = at' /\ v[j - 1] = at /\ cq'[j] = n
        BY <1>4, <1>10, <2>1, <2>5, <3>1, SMTT(40)
      <4> HIDE DEF v, m, r
      <4> QED BY <1>8, <1>9, <2>2, <4>1
    <3>2. CASE j # m + 1
      <4>1. j \in 1 .. m /\ v[j] = u[j] /\ v[j - 1] = u[j - 1] /\ cq'[j] = cq[j]
        BY <1>4, <1>10, <2>5, <3>2, SMTT(40)
      <4> QED BY <2>1, <4>1
    <3> QED BY <3>1, <3>2
  <2> HIDE DEF v
  <2> QED BY <2>2, <2>3, <2>4, <2>6 DEF Accounted
<1>17. Placed'
  <2>1. /\ buf \in [1 .. want -> Int] /\ at \in Nat /\ at <= Limit(Done)
        /\ at = Limit(Done) => \A i \in 1 .. at : buf[i] = i
    BY <1>0 DEF Placed, Accounted
  <2>2. buf' = [i \in 1 .. want |-> IF i - r.at \in 1 .. got THEN at + (i - r.at) ELSE buf[i]]
        /\ at' = at + got /\ want' = want
    BY <1>1, <1>3, <1>7, <2>1
  <2> HIDE DEF r, got
  <2>3. r.at \in Int
    BY <1>8
  <2>4. buf' \in [1 .. want' -> Int]
    BY <2>1, <2>2, <2>3, SMTT(40)
  <2>5. at' <= Limit(Done)'
    BY <1>8, <1>9, <1>11, <2>1, <2>2, SMTT(40)
  <2>6. ASSUME at' = Limit(Done)', NEW i \in 1 .. at' PROVE buf'[i] = i
    <3>1. at = r.at /\ got = r.len /\ at = Limit(Done) /\ at' = at + got /\ i \in 1 .. want
      <4> DEFINE l == Limit(Done)
                 l1 == Limit(Done + 1)
                 ra == r.at
                 rl == r.len
      <4>1. l \in Nat /\ rl \in Nat /\ l1 = l + rl /\ l1 <= want /\ ra = l /\ at \in Nat
            /\ at <= l /\ got \in 0 .. rl /\ at' = at + got /\ at' = l1 /\ want \in Nat
        BY <1>4, <1>8, <1>9, <1>11, <2>1, <2>2, <2>6
      <4> HIDE DEF l, l1, ra, rl
      <4>2. at = ra /\ got = rl /\ at = l /\ i \in 1 .. want
        BY <2>6, <4>1
      <4> QED BY <4>1, <4>2 DEF ra, rl, l
    <3>2. CASE i <= at
      BY <2>1, <2>2, <3>1, <3>2
    <3>3. CASE i > at
      BY <1>8, <2>1, <2>2, <3>1, <3>3, <2>6, SMTT(40)
    <3> QED BY <2>1, <3>2, <3>3
  <2> QED BY <2>4, <2>5, <2>6 DEF Placed
<1> QED BY <1>14, <1>15, <1>16, <1>17 DEF TransferInv

\* A completion that is counted moves from the queue to res and completed.
LEMMA CountStep ==
  ASSUME TransferInv, CountCompletion
  PROVE  TransferInv'
<1>0. Counted /\ OneChain /\ Accounted /\ Placed
  BY DEF TransferInv
<1>1. /\ cq # <<>> /\ cq' = Tail(cq) /\ completed' = completed + 1
      /\ res' = IF cq[1] < 0 THEN res ELSE res + cq[1]
      /\ UNCHANGED <<want, prepared, sq, chains, at, buf>>
  BY DEF CountCompletion
<1>2. cq \in Seq(Int) /\ completed \in Nat /\ sq \in Seq(Requests)
  BY <1>0 DEF Counted, Requests
<1>3. /\ Len(cq) \in Nat /\ Len(cq) > 0 /\ cq' \in Seq(Int) /\ Len(cq') = Len(cq) - 1
      /\ \A j \in 1 .. Len(cq') : cq'[j] = cq[j + 1]
  BY <1>1, <1>2
<1>4. Done' = Done
  BY <1>1, <1>2, <1>3 DEF Done
<1>5. Counted'
  <2>1. total_requests' = total_requests /\ completed' \in Nat
    BY <1>1, <1>2 DEF total_requests
  <2> QED BY <1>0, <1>1, <1>3, <1>4, <2>1 DEF Counted
<1>6. OneChain'
  <2>1. \A j : Request(j)' = Request(j)
    BY <1>1 DEF Request
  <2> QED BY <1>0, <1>1, <1>4, <2>1 DEF OneChain
<1>7. Placed'
  <2>1. Limit(Done)' = Limit(Done)
    BY <1>1, <1>4 DEF Limit
  <2> QED BY <1>0, <1>1, <2>1 DEF Placed
<1>8. Accounted'
  <2>1. PICK u \in [0 .. Len(cq) -> 0 .. at] :
          /\ u[0] = res /\ u[Len(cq)] = at
          /\ \A j \in 1 .. Len(cq) : u[j] = IF cq[j] < 0 THEN u[j - 1] ELSE u[j - 1] + cq[j]
    BY <1>0 DEF Accounted
  <2> DEFINE v == [j \in 0 .. Len(cq') |-> u[j + 1]]
  <2>2. \A j \in 0 .. Len(cq') : j + 1 \in 0 .. Len(cq)
    BY <1>3
  <2>3. v \in [0 .. Len(cq') -> 0 .. at']
    BY <1>1, <2>1, <2>2
  <2>4. u[1] = IF cq[1] < 0 THEN res ELSE res + cq[1]
    <3>1. 1 \in 1 .. Len(cq) /\ 1 - 1 = 0
      BY <1>3
    <3> QED BY <2>1, <3>1
  <2>5. v[0] = res' /\ v[Len(cq')] = at' /\ res' \in 0 .. at'
    BY <1>1, <1>3, <2>1, <2>2, <2>3, <2>4, SMTT(40)
  <2>6. ASSUME NEW j \in 1 .. Len(cq')
        PROVE  v[j] = IF cq'[j] < 0 THEN v[j - 1] ELSE v[j - 1] + cq'[j]
    <3>1. j + 1 \in 1 .. Len(cq) /\ (j + 1) - 1 = j /\ (j - 1) + 1 = j
          /\ j \in 0 .. Len(cq') /\ j - 1 \in 0 .. Len(cq') /\ cq'[j] = cq[j + 1]
      BY <1>3, SMTT(40)
    <3> QED BY <2>1, <3>1
  <2>7. at' \in Nat /\ res' \in Nat
    BY <1>0, <1>1, <2>5 DEF Accounted
  <2> HIDE DEF v
  <2> QED BY <2>3, <2>5, <2>6, <2>7 DEF Accounted
<1> QED BY <1>5, <1>6, <1>7, <1>8 DEF TransferInv

\* A transfer that returns while its session goes on leaves the ring empty, and
\* if it returns its whole length every unit is in its place.
LEMMA FinishStep ==
  ASSUME TransferInv, FinishTransfer
  PROVE  xfer' = "idle" /\ StreamIntact'
<1>0. Counted /\ OneChain /\ Accounted /\ Placed
  BY DEF TransferInv
<1>1. xfer' = "idle" /\ UNCHANGED <<want, sq, chains, cq, at, buf>>
  BY DEF FinishTransfer, Return, kernel
<1>2. want \in Nat \ {0} /\ prepared \in Nat /\ completed \in Nat /\ prepared <= total_requests
  BY <1>0 DEF Counted
<1>3. total_requests \in Nat
  BY <1>2, Limits
<1>4. in_flight = prepared - completed /\ in_flight >= 0
  <2> DEFINE l == Len(chains[1])
             m == Len(sq)
             n == Len(cq)
  <2>1. m \in Nat /\ n \in Nat
    BY <1>0 DEF Counted
  <2>2. CASE chains = <<>>
    <3>1. prepared = completed + n + m
      BY <1>0, <2>2 DEF Counted, Done
    <3> HIDE DEF m, n
    <3> QED BY <1>2, <2>1, <3>1 DEF in_flight
  <2>3. CASE chains # <<>>
    <3>1. prepared = completed + n + l + m
      BY <1>0, <2>3 DEF Counted, Done
    <3>2. l \in Nat
      BY <1>0, <2>3 DEF OneChain
    <3> HIDE DEF m, n, l
    <3> QED BY <1>2, <2>1, <3>1, <3>2 DEF in_flight
  <2> QED BY <2>2, <2>3
<1>5. in_flight = 0
  BY <1>2, <1>3, <1>4 DEF FinishTransfer
<1>6. sq = <<>> /\ chains = <<>> /\ cq = <<>> /\ Done = completed
  BY <1>0, <1>5, NoneInFlight
<1>7. RingQuiet'
  BY <1>1, <1>6 DEF RingQuiet
<1>8. ExactTransfer'
  <2> SUFFICES ASSUME result' = want PROVE \A i \in 1 .. want : buf[i] = i
    BY <1>0, <1>1 DEF ExactTransfer, Placed
  <2>1. success /\ completed >= total_requests /\ res = want
    <3>1. result' = IF success THEN res ELSE -1
      BY DEF FinishTransfer, Return
    <3>2. CASE success
      BY <3>1, <3>2 DEF FinishTransfer
    <3>3. CASE ~success
      BY <1>2, <3>1, <3>3
    <3> QED BY <3>2, <3>3
  <2>2. at = res
    BY <1>0, <1>6 DEF Accounted
  <2>3. Limit(Done) = want
    BY <1>2, <1>6, <2>1, Limits
  <2> QED BY <1>0, <2>1, <2>2, <2>3 DEF Placed
<1> QED BY <1>1, <1>7, <1>8 DEF StreamIntact

\* Every action keeps UsbInv.
LEMMA UsbStep == UsbInv /\ [UsbNext]_usbVars => UsbInv'
<1> SUFFICES ASSUME UsbInv, [UsbNext]_usbVars PROVE UsbInv'
  OBVIOUS
<1>0. /\ xfer \in {"idle", "loop", "wait", "drain"}
      /\ xfer # "idle" => session = "up" /\ TransferInv
      /\ StreamIntact
  BY DEF UsbInv
\* The session is not up: it promises nothing.
<1>1. ASSUME xfer' = "idle", session' # "up" PROVE UsbInv'
  BY <1>1 DEF UsbInv, StreamIntact, ExactTransfer, RingQuiet
\* A transfer is under way: it promises TransferInv only.
<1>2. ASSUME xfer' \in {"loop", "wait", "drain"}, session' = "up", TransferInv' PROVE UsbInv'
  BY <1>2 DEF UsbInv, StreamIntact, ExactTransfer, RingQuiet
<1>3. ASSUME UNCHANGED <<want, counters, kernel>>, TransferInv PROVE TransferInv'
  BY <1>3, ZenonT(60) DEF counters, kernel, TransferInv, Counted, OneChain, Accounted, Placed,
     Done, Limit, Request, total_requests
<1>4. CASE InitFunctionFs
  <2>1. xfer' = "idle"
    BY <1>0, <1>4 DEF InitFunctionFs
  <2>2. buf' = <<>> /\ sq' = <<>> /\ chains' = <<>> /\ cq' = <<>>
    BY <1>4 DEF InitFunctionFs
  <2> QED BY <2>1, <2>2 DEF UsbInv, StreamIntact, ExactTransfer, RingQuiet
<1>5. CASE CloseFunctionFs
  BY <1>0, <1>1, <1>5 DEF CloseFunctionFs
<1>6. CASE QueueRequests
  BY <1>0, <1>2, <1>6, QueueStep DEF QueueRequests
<1>7. CASE FinishTransfer
  BY <1>0, <1>7, FinishStep DEF FinishTransfer, UsbInv
<1>8. CASE AwaitMore
  BY <1>0, <1>2, <1>3, <1>8 DEF AwaitMore
<1>9. CASE CountCompletion
  BY <1>0, <1>2, <1>9, CountStep DEF CountCompletion
<1>10. CASE NothingReady
  BY <1>0, <1>2, <1>3, <1>10 DEF NothingReady
<1>11. CASE KernelCompletes
  <2>1. UNCHANGED <<session, xfer>>
    BY <1>11 DEF KernelCompletes
  <2>2. CASE xfer = "idle" /\ session = "up"
    <3>1. chains = <<>>
      BY <1>0, <2>2 DEF StreamIntact, RingQuiet
    <3> QED BY <1>11, <3>1 DEF KernelCompletes
  <2>3. CASE xfer = "idle" /\ session # "up"
    BY <1>1, <2>1, <2>3
  <2>4. CASE xfer # "idle"
    BY <1>0, <1>2, <1>11, <2>1, <2>4, KernelStep
  <2> QED BY <2>2, <2>3, <2>4
<1>12. CASE WaitFails
  BY <1>1, <1>12 DEF WaitFails, Return
<1>13. ASSUME NEW n \in Lengths, StartTransfer(n) PROVE UsbInv'
  <2>1. xfer' = "loop" /\ session' = "up"
    BY <1>13 DEF StartTransfer
  <2> QED BY <1>2, <1>13, <2>1, StartStep
<1>14. CASE UNCHANGED usbVars
  <2>1. UNCHANGED <<session, xfer, want, result, counters, kernel>>
    BY <1>14 DEF usbVars
  <2>2. StreamIntact'
    BY <1>0, <2>1 DEF StreamIntact, ExactTransfer, RingQuiet, kernel
  <2>3. xfer # "idle" => TransferInv'
    BY <1>0, <1>3, <2>1
  <2> QED BY <1>0, <2>1, <2>2, <2>3 DEF UsbInv
<1> QED
  BY <1>4, <1>5, <1>6, <1>7, <1>8, <1>9, <1>10, <1>11, <1>12, <1>13, <1>14
     DEF UsbNext, UsbThread

\* The byte stream of a USB session is intact, whatever the request size, the depth
\* of the ring and the lengths of the transfers: a transfer that returns its whole
\* length has every unit in its place, and leaves nothing in the ring for the next.
THEOREM StreamAlwaysIntact == UsbSpec => []StreamIntact
<1>1. UsbInit => UsbInv
  BY DEF UsbInit, UsbInv, StreamIntact, ExactTransfer, RingQuiet
<1>2. UsbInv => StreamIntact
  BY DEF UsbInv
<1> QED BY <1>1, <1>2, UsbStep, PTL DEF UsbSpec

----------------------------------------------------------------------------
\* Numbers less than SeqMod apart are told apart by their sequence numbers, and
\* Plus1 goes from one to the next.
LEMMA Remainders ==
  ASSUME NEW m \in Nat \ {0}, NEW x \in Nat
  PROVE  /\ x % m \in 0 .. m - 1
         /\ \A y \in Nat : (x <= y /\ y - x < m /\ x % m = y % m) => x = y
         /\ ((x % m) + 1) % m = (x + 1) % m
         /\ x < m => x % m = x
<1>1. \A z \in Nat : z \div m \in Nat /\ z % m \in 0 .. m - 1 /\ z = m * (z \div m) + (z % m)
  OBVIOUS
<1>2. ASSUME NEW q \in Nat, NEW r \in 0 .. m - 1, NEW u \in Nat, u = m * q + r
      PROVE  u % m = r
  <2> DEFINE d == u \div m
             s == u % m
  <2>1. d \in Nat /\ s \in 0 .. m - 1 /\ m * q + r = m * d + s
    BY <1>1, <1>2
  <2> HIDE DEF d, s
  <2>2. CASE q = d
    <3>1. r = s
      BY <2>1, <2>2
    <3> QED BY <3>1 DEF s
  <2>3. CASE q > d
    <3>1. PICK e \in Nat : q = d + 1 + e
      <4>1. q - d - 1 \in Nat /\ q = d + 1 + (q - d - 1)
        BY <2>1, <2>3
      <4> QED BY <4>1
    <3>2. m * q = m * d + m + m * e /\ m * e >= 0 /\ m * d \in Nat
      BY <2>1, <3>1
    <3> QED BY <2>1, <3>2
  <2>4. CASE q < d
    <3>1. PICK e \in Nat : d = q + 1 + e
      <4>1. d - q - 1 \in Nat /\ d = q + 1 + (d - q - 1)
        BY <2>1, <2>4
      <4> QED BY <4>1
    <3>2. m * d = m * q + m + m * e /\ m * e >= 0 /\ m * q \in Nat
      BY <2>1, <3>1
    <3> QED BY <2>1, <3>2
  <2> QED BY <2>1, <2>2, <2>3, <2>4
<1>3. ASSUME NEW y \in Nat, x <= y, y - x < m, x % m = y % m PROVE x = y
  <2> DEFINE q == x \div m
             d == y \div m
  <2>1. q \in Nat /\ d \in Nat /\ x = m * q + (x % m) /\ y = m * d + (x % m) /\ x % m \in Nat
    BY <1>1, <1>3
  <2> HIDE DEF q, d
  <2>2. CASE d <= q
    <3>1. PICK e \in Nat : q = d + e
      <4>1. q - d \in Nat /\ q = d + (q - d)
        BY <2>1, <2>2
      <4> QED BY <4>1
    <3>2. m * q = m * d + m * e /\ m * e >= 0 /\ m * d \in Nat
      BY <2>1, <3>1
    <3> QED BY <1>3, <2>1, <3>2
  <2>3. CASE d > q
    <3>1. PICK e \in Nat : d = q + 1 + e
      <4>1. d - q - 1 \in Nat /\ d = q + 1 + (d - q - 1)
        BY <2>1, <2>3
      <4> QED BY <4>1
    <3>2. m * d = m * q + m + m * e /\ m * e >= 0 /\ m * q \in Nat
      BY <2>1, <3>1
    <3> QED BY <1>3, <2>1, <3>2
  <2> QED BY <2>1, <2>2, <2>3
<1>4. ((x % m) + 1) % m = (x + 1) % m
  <2> DEFINE q == x \div m
             r == x % m
  <2>1. q \in Nat /\ r \in 0 .. m - 1 /\ x = m * q + r
    BY <1>1
  <2> HIDE DEF q, r
  <2>2. CASE r < m - 1
    <3>1. r + 1 \in 0 .. m - 1 /\ r + 1 \in Nat /\ x + 1 = m * q + (r + 1) /\ r + 1 = m * 0 + (r + 1)
      BY <2>1, <2>2
    <3>2. (x + 1) % m = r + 1
      BY <1>2, <2>1, <3>1
    <3>3. (r + 1) % m = r + 1
      BY <1>2, <3>1
    <3> QED BY <3>2, <3>3 DEF r
  <2>3. CASE r = m - 1
    <3>1. x + 1 = m * (q + 1) + 0 /\ r + 1 = m * 1 + 0 /\ q + 1 \in Nat /\ 0 \in 0 .. m - 1
          /\ r + 1 \in Nat
      BY <2>1, <2>3
    <3>2. (x + 1) % m = 0 /\ (r + 1) % m = 0
      BY <1>2, <3>1
    <3> QED BY <3>2 DEF r
  <2> QED BY <2>1, <2>2, <2>3
<1>5. x < m => x % m = x
  <2>1. x = m * 0 + x
    OBVIOUS
  <2> QED BY <1>2, <2>1
<1> QED BY <1>1, <1>3, <1>4, <1>5

\* The query is the only packet so far, and the target has acted on none.
QueryPhase ==
  /\ sequence \in {-1, 0} /\ udp \in {"idle", "query", "failed"}
  /\ udp = "idle" <=> sequence = -1
  /\ udp = "query" => header.id = "query"
  /\ \A p \in toTarget : p.id = "query"
  /\ \A r \in toHost : r.id = "query" /\ r.data = expected
  /\ expected \in 0 .. SeqMod - 1 /\ pending = 0 /\ lastReply = NoPacket
  /\ transfers = 0 /\ txLeft = 0 /\ rxGot = 0
  /\ posted = <<>> /\ delivered = <<>> /\ offered = <<>> /\ taken = <<>>

\* From then on the packets have consecutive numbers, f for the first, l for the
\* last, and t for the one the target will act on: the last, or the one after it.
\* Of what is in the network only the last packet and its answer are news.
Numbered(f, l, t) ==
  /\ header.seq = l % SeqMod /\ expected = t % SeqMod
  /\ \A p \in toTarget : p.id # "query" =>
       \E j \in f .. l : p.seq = j % SeqMod /\ (j = l => p = header)
  /\ \A r \in toHost : r.id # "query" =>
       \E j \in f .. t - 1 : r.seq = j % SeqMod /\ (j = l => r = lastReply)
  /\ lastReply = NoPacket \/ lastReply \in toHost

\* What the host is doing, and with which packet.
HostAt(l, t) ==
  /\ udp \in {"initialize", "write", "read", "idle", "failed"}
  /\ header.id \in {"init", "fastboot"} /\ (header.id = "init" => header.data = 0)
  /\ txLeft \in Nat /\ rxGot \in Nat
  /\ Waiting => sequence = l % SeqMod
  /\ udp = "idle" => t = l + 1 /\ sequence = t % SeqMod /\ pending = 0
  /\ udp = "initialize" => header.id = "init" /\ txLeft = 0 /\ rxGot = 0 /\ pending = 0
  /\ udp = "write" => header.id = "fastboot" /\ header.data # 0 /\ pending = 0
  /\ udp = "read" => header.id = "fastboot" /\ header.data = 0 /\ txLeft = 0

\* What the target's answer to the last packet says.
AnswerAt(l, t) ==
  /\ pending \in Nat
  /\ t = l + 1 =>
       /\ lastReply.id \in {header.id, "error"} /\ lastReply.more \in BOOLEAN
       /\ lastReply.data # 0 =>
            /\ lastReply.id = "fastboot" /\ header.id = "fastboot" /\ header.data = 0
            /\ lastReply.data = Len(offered)
       /\ (lastReply.id # "error" /\ header.id = "fastboot" /\ header.data = 0) =>
            lastReply.data # 0
       /\ lastReply.more = TRUE => lastReply.data # 0 /\ pending > 0
       /\ (lastReply.more = FALSE /\ lastReply.data # 0) => pending = 0

Counting(s) == s \in Seq(Nat) /\ \A i \in 1 .. Len(s) : s[i] = i

\* Down: all that was posted is delivered but for the packet not yet acted on.
DownAt(l, t) ==
  /\ Counting(posted) /\ Counting(delivered)
  /\ (t = l /\ header.data # 0) =>
       Len(posted) = Len(delivered) + 1 /\ header.data = Len(posted)
  /\ (t = l + 1 \/ header.data = 0) => Len(posted) = Len(delivered)

\* Up: all that was offered is taken but for the answer not yet received, until
\* the buffer is full.
UpAt(l, t) ==
  /\ Counting(offered) /\ Counting(taken)
  /\ udp = "idle" => Len(offered) = Len(taken)
  /\ (Waiting /\ rxGot <= RoomChunks /\ t = l + 1 /\ lastReply.data # 0) =>
       Len(offered) = Len(taken) + 1
  /\ (Waiting /\ rxGot <= RoomChunks /\ (t = l \/ lastReply.data = 0)) =>
       Len(offered) = Len(taken)

\* The packets that this transfer will still need.
StillToSend(l, t) ==
  CASE udp = "write" -> txLeft
    [] udp = "read" /\ t = l + 1 -> IF lastReply.id = "error" THEN 0 ELSE pending
    [] udp = "read" /\ t = l -> IF pending = 0 THEN MaxChunks - 1 ELSE pending - 1
    [] OTHER -> 0

BoundedAt(f, l, t) ==
  transfers \in 0 .. MaxTransfers /\ l - f + StillToSend(l, t) <= transfers * MaxChunks

Linked(f, l, t) ==
  /\ Numbered(f, l, t) /\ HostAt(l, t) /\ AnswerAt(l, t)
  /\ DownAt(l, t) /\ UpAt(l, t) /\ BoundedAt(f, l, t)

UdpInv ==
  \/ QueryPhase
  \/ \E f \in 0 .. SeqMod - 1, n \in 0 .. MaxTransfers * MaxChunks, a \in {0, 1} :
       Linked(f, f + n, f + n + a)

\* The steps of the abstract link, each way.
DownStep == [Down!LinkSend \/ Down!LinkReceive]_<<posted, delivered>>
UpStep == [Up!LinkSend \/ Up!LinkReceive]_<<offered, taken>>

\* A packet with the number the target expects is the last one, not acted on yet.
LEMMA OnlyHeaderIsNews ==
  ASSUME NEW f \in Nat, NEW l \in Nat, f <= l, l - f + 1 < SeqMod, NEW t \in {l, l + 1},
         Numbered(f, l, t), NEW p \in toTarget, p.id # "query", p.seq = expected
  PROVE  p = header /\ t = l
<1>1. PICK j \in f .. l : p.seq = j % SeqMod /\ (j = l => p = header)
  BY DEF Numbered
<1>2. j \in Nat /\ j <= t /\ t - j < SeqMod /\ j % SeqMod = t % SeqMod /\ t \in Nat
  BY <1>1, UdpLinkAssumption DEF Numbered
<1>3. j = t
  BY <1>2, Remainders, UdpLinkAssumption
<1> QED BY <1>1, <1>3

\* An answer that matches the packet being sent is the target's last one.
LEMMA OnlyLastReplyMatches ==
  ASSUME NEW f \in Nat, NEW l \in Nat, f <= l, l - f + 1 < SeqMod, NEW t \in {l, l + 1},
         Numbered(f, l, t), HostAt(l, t), NEW r \in toHost, Matches(r)
  PROVE  r = lastReply /\ t = l + 1 /\ r.id # "query"
<1>1. r.id # "query" /\ r.seq = l % SeqMod
  BY DEF Matches, HostAt, Numbered
<1>2. PICK j \in f .. t - 1 : r.seq = j % SeqMod /\ (j = l => r = lastReply)
  BY <1>1 DEF Numbered
<1>3. j \in Nat /\ j <= l /\ l - j < SeqMod /\ j % SeqMod = l % SeqMod
  BY <1>1, <1>2, UdpLinkAssumption
<1>4. j = l
  BY <1>3, Remainders, UdpLinkAssumption
<1> QED BY <1>1, <1>2, <1>4

\* The next packet takes the next number.
LEMMA SendNumbered ==
  ASSUME NEW f \in Nat, NEW l \in Nat, f <= l, Numbered(f, l, l + 1),
         NEW id, NEW data, NEW more, SendPacket(id, (l + 1) % SeqMod, data, more),
         UNCHANGED <<toHost, expected, lastReply>>
  PROVE  Numbered(f, l + 1, l + 1)'
<1>1. header'.seq = (l + 1) % SeqMod /\ toTarget' = toTarget \cup {header'}
  BY DEF SendPacket
<1>2. ASSUME NEW p \in toTarget', p.id # "query"
      PROVE  \E j \in f .. l + 1 : p.seq = j % SeqMod /\ (j = l + 1 => p = header')
  <2>1. CASE p = header'
    <3>1. l + 1 \in f .. l + 1
      OBVIOUS
    <3> QED BY <1>1, <2>1, <3>1
  <2>2. CASE p \in toTarget
    <3>1. PICK j \in f .. l : p.seq = j % SeqMod
      BY <1>2, <2>2 DEF Numbered
    <3>2. j \in f .. l + 1 /\ j # l + 1
      BY <3>1
    <3> QED BY <3>1, <3>2
  <2> QED BY <1>1, <1>2, <2>1, <2>2
<1>3. ASSUME NEW r \in toHost', r.id # "query"
      PROVE  \E j \in f .. (l + 1) - 1 : r.seq = j % SeqMod /\ (j = l + 1 => r = lastReply')
  <2>1. PICK j \in f .. (l + 1) - 1 : r.seq = j % SeqMod
    BY <1>3 DEF Numbered
  <2>2. j # l + 1
    BY <2>1
  <2> QED BY <2>1, <2>2
<1> QED BY <1>1, <1>2, <1>3 DEF Numbered

\* The target acts on the last packet: its answer is the one to wait for.
LEMMA ActNumbered ==
  ASSUME NEW f \in Nat, NEW l \in Nat, f <= l, Numbered(f, l, l),
         NEW p, NEW reply, reply.seq = l % SeqMod, Answer(p, reply),
         UNCHANGED <<header, toTarget>>
  PROVE  Numbered(f, l, l + 1)'
<1>1. lastReply' = reply /\ toHost' = toHost \cup {reply}
  BY DEF Answer
<1>2. expected' = (l + 1) % SeqMod
  BY Remainders, UdpLinkAssumption DEF Answer, Numbered, Plus1
<1>3. ASSUME NEW r \in toHost', r.id # "query"
      PROVE  \E j \in f .. (l + 1) - 1 : r.seq = j % SeqMod /\ (j = l => r = lastReply')
  <2>1. CASE r = reply
    <3>1. l \in f .. (l + 1) - 1
      OBVIOUS
    <3> QED BY <1>1, <2>1, <3>1
  <2>2. CASE r \in toHost
    <3>1. PICK j \in f .. l - 1 : r.seq = j % SeqMod
      BY <1>3, <2>2 DEF Numbered
    <3>2. j \in f .. (l + 1) - 1 /\ j # l
      BY <3>1
    <3> QED BY <3>1, <3>2
  <2> QED BY <1>1, <1>3, <2>1, <2>2
<1>4. header'.seq = l % SeqMod /\
        \A q \in toTarget' : q.id # "query" =>
          \E j \in f .. l : q.seq = j % SeqMod /\ (j = l => q = header')
  BY DEF Numbered
<1> QED BY <1>1, <1>2, <1>3, <1>4 DEF Numbered

\* A sequence that counts goes on counting.
LEMMA CountOn ==
  ASSUME NEW s, Counting(s), NEW x, x = Len(s) + 1
  PROVE  Counting(Append(s, x)) /\ Len(Append(s, x)) = Len(s) + 1 /\ Len(s) \in Nat
<1>1. s \in Seq(Nat) /\ Len(s) \in Nat /\ x \in Nat
  BY DEF Counting
<1>2. Append(s, x) \in Seq(Nat) /\ Len(Append(s, x)) = Len(s) + 1
  BY <1>1
<1>3. \A i \in 1 .. Len(s) + 1 : Append(s, x)[i] = IF i = Len(s) + 1 THEN x ELSE s[i]
  BY <1>1
<1> QED BY <1>1, <1>2, <1>3 DEF Counting

\* Two that count equally far are equal.
LEMMA CountEqual ==
  ASSUME NEW s, Counting(s), NEW r, Counting(r), Len(s) = Len(r)
  PROVE  s = r
BY SMTT(40) DEF Counting

\* The parts of the invariant that a step leaves alone.
LEMMA HostKept ==
  ASSUME NEW l \in Nat, HostAt(l, l), UNCHANGED hostVars, pending' = pending \/ udp \in {"read", "failed"}
  PROVE  HostAt(l, l + 1)'
BY DEF HostAt, hostVars, Waiting

\* What is delivered when the target acts on the last packet is what was posted
\* with it.
LEMMA Delivered ==
  ASSUME NEW l \in Nat, DownAt(l, l), header.data \in Nat, UNCHANGED <<posted, header>>,
         NEW reply, Answer(header, reply)
  PROVE  DownAt(l, l + 1)' /\ DownStep
<1>1. CASE header.data = 0
  <2>1. UNCHANGED delivered
    BY <1>1 DEF Answer
  <2> QED BY <1>1, <2>1 DEF DownAt, DownStep
<1>2. CASE header.data # 0
  <2>1. /\ Counting(posted) /\ Counting(delivered) /\ Len(posted) = Len(delivered) + 1
        /\ header.data = Len(posted) /\ delivered' = Append(delivered, header.data)
    BY <1>2 DEF DownAt, Answer
  <2>2. Counting(delivered') /\ Len(delivered') = Len(posted) /\ Len(delivered) \in Nat
    BY <2>1, CountOn
  <2>3. posted[Len(delivered) + 1] = header.data
    BY <2>1, <2>2 DEF Counting
  <2>4. Down!LinkReceive
    BY <2>1, <2>2, <2>3 DEF Down!LinkReceive
  <2>5. DownAt(l, l + 1)'
    BY <2>1, <2>2 DEF DownAt
  <2> QED BY <2>4, <2>5 DEF DownStep
<1> QED BY <1>1, <1>2

\* The target acts on the last packet.
LEMMA ActStep ==
  ASSUME NEW f \in Nat, NEW l \in Nat, f <= l, Linked(f, l, l), TargetActs(header),
         UNCHANGED <<hostVars, toTarget, posted, taken>>
  PROVE  Linked(f, l, l + 1)' /\ DownStep /\ UpStep
<1>0. /\ Numbered(f, l, l) /\ HostAt(l, l) /\ AnswerAt(l, l)
      /\ DownAt(l, l) /\ UpAt(l, l) /\ BoundedAt(f, l, l)
  BY DEF Linked
<1>h. /\ udp \in {"initialize", "write", "read", "failed"}
      /\ header.id \in {"init", "fastboot"} /\ header.seq = l % SeqMod
      /\ header.data # 0 => header.data \in Nat
      /\ pending \in Nat /\ l + 1 # l
  BY <1>0 DEF HostAt, Numbered, AnswerAt, DownAt, Counting
<1>u. UNCHANGED <<udp, sequence, header, txLeft, rxGot, transfers>>
  BY DEF hostVars
<1>d. ASSUME NEW reply, reply.seq = l % SeqMod, Answer(header, reply)
      PROVE  Numbered(f, l, l + 1)' /\ DownAt(l, l + 1)' /\ DownStep
  <2>1. header.data \in Nat
    BY <1>h
  <2> QED BY <1>0, <1>u, <1>d, <2>1, ActNumbered, Delivered
\* An acknowledgement, or an error: no data comes back.
<1>1. ASSUME NEW i \in {header.id, "error"},
             Answer(header, [id |-> i, seq |-> header.seq, data |-> 0, more |-> FALSE]),
             UNCHANGED <<pending, offered>>,
             i = "error" \/ header.id = "init" \/ header.data # 0
      PROVE  Linked(f, l, l + 1)' /\ DownStep /\ UpStep
  <2>1. Numbered(f, l, l + 1)' /\ DownAt(l, l + 1)' /\ DownStep
    BY <1>d, <1>h, <1>1
  <2>2. lastReply' = [id |-> i, seq |-> header.seq, data |-> 0, more |-> FALSE]
    BY <1>1 DEF Answer
  <2>3. HostAt(l, l + 1)'
    BY <1>0, <1>1, HostKept
  <2>4. AnswerAt(l, l + 1)'
    BY <1>h, <1>u, <1>1, <2>2 DEF AnswerAt
  <2>5. UpAt(l, l + 1)'
    BY <1>0, <1>h, <1>u, <1>1, <2>2 DEF UpAt, Waiting
  <2>6. BoundedAt(f, l, l + 1)'
    <3>1. StillToSend(l, l + 1)' <= StillToSend(l, l) /\ StillToSend(l, l + 1)' \in Nat
          /\ StillToSend(l, l) \in Nat
      BY <1>0, <1>h, <1>u, <1>1, <2>2, UdpLinkAssumption DEF StillToSend, HostAt
    <3>2. transfers * MaxChunks \in Nat
      BY <1>0, UdpLinkAssumption DEF BoundedAt
    <3> QED BY <1>0, <1>u, <3>1, <3>2, UdpLinkAssumption DEF BoundedAt
  <2>7. UpStep
    BY <1>1 DEF UpStep
  <2> QED BY <2>1, <2>3, <2>4, <2>5, <2>6, <2>7 DEF Linked
\* A read is answered with the next of what the target has to say.
<1>2. ASSUME header.id = "fastboot", header.data = 0,
             NEW n \in (IF pending > 0 THEN {pending} ELSE 1 .. MaxChunks),
             pending' = n - 1, offered' = Append(offered, Len(offered) + 1),
             Answer(header, [id |-> "fastboot", seq |-> header.seq, data |-> Len(offered) + 1,
                             more |-> n > 1])
      PROVE  Linked(f, l, l + 1)' /\ DownStep /\ UpStep
  <2>1. Numbered(f, l, l + 1)' /\ DownAt(l, l + 1)' /\ DownStep
    BY <1>d, <1>h, <1>2
  <2>2. lastReply' = [id |-> "fastboot", seq |-> header.seq, data |-> Len(offered) + 1,
                      more |-> n > 1]
    BY <1>2 DEF Answer
  <2>3. Counting(offered') /\ Len(offered') = Len(offered) + 1 /\ Len(offered) \in Nat
    BY <1>0, <1>2, CountOn DEF UpAt
  <2>4. n \in Nat \ {0} /\ n - 1 \in Nat /\ (pending > 0 => n = pending)
        /\ (pending = 0 => n <= MaxChunks) /\ MaxChunks \in Nat \ {0}
    BY <1>h, <1>2, UdpLinkAssumption
  <2>5. udp \in {"read", "failed"}
    BY <1>0, <1>h, <1>2 DEF HostAt
  <2>6. HostAt(l, l + 1)'
    BY <1>0, <2>5, HostKept
  <2>7. lastReply'.id = "fastboot" /\ lastReply'.data = Len(offered) + 1
        /\ lastReply'.more = (n > 1)
    BY <2>2
  <2>8. AnswerAt(l, l + 1)'
    <3>1. lastReply'.more \in BOOLEAN
      BY <2>7
    <3>a. lastReply'.more = TRUE => n > 1
      BY <2>7, Zenon
    <3>b. lastReply'.more = FALSE => ~(n > 1)
      BY <2>7, Zenon
    <3>2. lastReply'.more = TRUE => pending' > 0
      BY <1>2, <2>4, <3>a
    <3>3. lastReply'.more = FALSE => pending' = 0
      BY <1>2, <2>4, <3>b
    <3> QED BY <1>u, <1>2, <2>3, <2>4, <2>7, <3>1, <3>2, <3>3 DEF AnswerAt
  <2>9. UpAt(l, l + 1)'
    BY <1>0, <1>h, <1>u, <2>3, <2>7 DEF UpAt, Waiting
  <2>10. BoundedAt(f, l, l + 1)'
    <3>1. StillToSend(l, l + 1)' <= StillToSend(l, l) /\ StillToSend(l, l + 1)' \in Nat
          /\ StillToSend(l, l) \in Nat
      BY <1>h, <1>u, <1>2, <2>4, <2>5, <2>7, SMTT(40) DEF StillToSend
    <3>2. transfers * MaxChunks \in Nat
      BY <1>0, UdpLinkAssumption DEF BoundedAt
    <3> QED BY <1>0, <1>u, <3>1, <3>2, UdpLinkAssumption DEF BoundedAt
  <2>11. UpStep
    <3>1. Len(offered) + 1 \in 1 .. Len(offered) + 1
      BY <2>3
    <3> QED BY <1>2, <3>1 DEF UpStep, Up!LinkSend
  <2> QED BY <2>1, <2>6, <2>8, <2>9, <2>10, <2>11 DEF Linked
<1> QED BY <1>1, <1>2 DEF TargetActs

\* The target takes a packet from the network: the last one, or one it has
\* answered, whose answer is in the network already.
LEMMA TargetStep ==
  ASSUME NEW f \in Nat, NEW l \in Nat, f <= l, l - f + 1 < SeqMod, NEW t \in {l, l + 1},
         Linked(f, l, t), TargetReceives
  PROVE  (Linked(f, l, t)' \/ Linked(f, l, l + 1)') /\ DownStep /\ UpStep
<1>0. /\ Numbered(f, l, t) /\ HostAt(l, t) /\ AnswerAt(l, t)
      /\ DownAt(l, t) /\ UpAt(l, t) /\ BoundedAt(f, l, t)
  BY DEF Linked
<1>u. UNCHANGED <<hostVars, toTarget, posted, taken>>
  BY DEF TargetReceives
<1>1. ASSUME NEW p \in toTarget, TargetActs(p)
      PROVE  (Linked(f, l, t)' \/ Linked(f, l, l + 1)') /\ DownStep /\ UpStep
  <2>1. p = header /\ t = l
    BY <1>0, <1>1, OnlyHeaderIsNews DEF TargetActs
  <2> QED BY <1>u, <1>1, <2>1, ActStep
<1>2. ASSUME NEW r, toHost' = toHost \cup {r}, r \in toHost \/ r.id = "query",
             UNCHANGED <<targetVars, delivered, offered>>
      PROVE  (Linked(f, l, t)' \/ Linked(f, l, l + 1)') /\ DownStep /\ UpStep
  <2>1. UNCHANGED <<udp, sequence, header, txLeft, rxGot, transfers, toTarget, expected,
                    lastReply, pending, posted, delivered, offered, taken>>
    BY <1>u, <1>2 DEF hostVars, targetVars
  <2>2. Numbered(f, l, t)'
    BY <1>0, <1>2, <2>1 DEF Numbered
  <2>3. HostAt(l, t)' /\ AnswerAt(l, t)' /\ DownAt(l, t)'
    BY <1>0, <2>1 DEF HostAt, AnswerAt, DownAt, Waiting
  <2>4. UpAt(l, t)' /\ BoundedAt(f, l, t)'
    BY <1>0, <2>1 DEF UpAt, BoundedAt, StillToSend, Waiting
  <2>5. DownStep /\ UpStep
    BY <2>1 DEF DownStep, UpStep
  <2> QED BY <2>2, <2>3, <2>4, <2>5 DEF Linked
<1>3. PICK p \in toTarget :
       \/ TargetActs(p)
       \/ /\ p.id # "query" /\ Plus1(p.seq) = expected /\ lastReply # NoPacket
          /\ toHost' = toHost \union {lastReply}
          /\ UNCHANGED <<targetVars, delivered, offered>>
       \/ /\ p.id = "query"
          /\ toHost' = toHost \union {[id |-> "query", seq |-> p.seq, data |-> expected,
                                       more |-> FALSE]}
          /\ UNCHANGED <<targetVars, delivered, offered>>
  BY DEF TargetReceives
<1>4. CASE TargetActs(p)
  BY <1>1, <1>4
<1>5. CASE lastReply # NoPacket /\ toHost' = toHost \union {lastReply}
           /\ UNCHANGED <<targetVars, delivered, offered>>
  <2>1. lastReply \in toHost
    BY <1>0, <1>5 DEF Numbered
  <2> QED BY <1>2, <1>5, <2>1
<1>6. CASE toHost' = toHost \union {[id |-> "query", seq |-> p.seq, data |-> expected,
                                     more |-> FALSE]}
           /\ UNCHANGED <<targetVars, delivered, offered>>
  <2>1. [id |-> "query", seq |-> p.seq, data |-> expected, more |-> FALSE].id = "query"
    OBVIOUS
  <2> QED BY <1>2, <1>6, <2>1
<1> QED BY <1>3, <1>4, <1>5, <1>6

\* A packet that carries no data posts none.
LEMMA SentEmpty ==
  ASSUME NEW l \in Nat, DownAt(l, l + 1), NEW id, NEW seq,
         SendPacket(id, seq, 0, FALSE), UNCHANGED delivered
  PROVE  DownAt(l + 1, l + 1)' /\ DownStep /\ header'.data = 0 /\ header'.id = id
BY DEF SendPacket, DownAt, DownStep

\* A packet of a Write posts what it carries.
LEMMA SentData ==
  ASSUME NEW l \in Nat, DownAt(l, l + 1), NEW id, NEW seq, NEW more,
         SendPacket(id, seq, Len(posted) + 1, more), UNCHANGED delivered
  PROVE  DownAt(l + 1, l + 1)' /\ DownStep /\ header'.data # 0 /\ header'.id = id
<1>1. Counting(posted) /\ Counting(delivered) /\ Len(posted) = Len(delivered)
  BY DEF DownAt
<1>2. Len(posted) \in Nat
  BY <1>1 DEF Counting
<1>3. posted' = Append(posted, Len(posted) + 1) /\ header'.data = Len(posted) + 1
      /\ header'.id = id
  BY <1>2 DEF SendPacket
<1>4. Counting(posted') /\ Len(posted') = Len(posted) + 1
  BY <1>1, <1>3, CountOn
<1>5. DownAt(l + 1, l + 1)'
  BY <1>1, <1>2, <1>3, <1>4 DEF DownAt
<1>6. Down!LinkSend
  <2>1. Len(posted) + 1 \in 1 .. Len(posted) + 1
    BY <1>2
  <2> QED BY <1>3, <2>1 DEF Down!LinkSend
<1> QED BY <1>2, <1>3, <1>5, <1>6 DEF DownStep

\* A Write or a Read starts with the next packet; there is room for all that it
\* may need.
LEMMA TransferStep ==
  ASSUME NEW f \in Nat, NEW l \in Nat, f <= l, NEW t \in {l, l + 1}, Linked(f, l, t),
         UdpRead \/ \E n \in 1 .. MaxChunks : UdpWrite(n)
  PROVE  Linked(f, l + 1, l + 1)' /\ DownStep /\ UpStep
<1>0. /\ Numbered(f, l, t) /\ HostAt(l, t) /\ AnswerAt(l, t)
      /\ DownAt(l, t) /\ UpAt(l, t) /\ BoundedAt(f, l, t)
  BY DEF Linked
<1>1. /\ udp = "idle" /\ transfers < MaxTransfers /\ transfers' = transfers + 1 /\ rxGot' = 0
      /\ UNCHANGED <<sequence, toHost, targetVars, delivered, offered, taken>>
  BY DEF UdpRead, UdpWrite
<1>2. t = l + 1 /\ sequence = (l + 1) % SeqMod /\ pending = 0 /\ Len(offered) = Len(taken)
  BY <1>0, <1>1 DEF HostAt, UpAt
<1>3. UNCHANGED <<expected, lastReply, pending>>
  BY <1>1 DEF targetVars
<1>4. /\ transfers' \in 0 .. MaxTransfers /\ l - f <= transfers * MaxChunks
      /\ transfers' * MaxChunks = transfers * MaxChunks + MaxChunks
      /\ transfers * MaxChunks \in Nat /\ MaxChunks \in Nat \ {0}
  <2>1. transfers \in Nat /\ transfers < MaxTransfers /\ MaxTransfers \in Nat
        /\ l - f + StillToSend(l, t) <= transfers * MaxChunks
    BY <1>0, <1>1, UdpLinkAssumption DEF BoundedAt
  <2>2. StillToSend(l, t) = 0
    BY <1>1 DEF StillToSend
  <2> QED BY <1>1, <2>1, <2>2, UdpLinkAssumption
<1>5. UpStep
  BY <1>1 DEF UpStep
<1>6. UpAt(l + 1, l + 1)'
  BY <1>0, <1>1, <1>2 DEF UpAt
<1>7. AnswerAt(l + 1, l + 1)'
  BY <1>2, <1>3 DEF AnswerAt
<1>8. CASE UdpRead
  <2>1. SendPacket("fastboot", (l + 1) % SeqMod, 0, FALSE) /\ udp' = "read" /\ txLeft' = 0
    BY <1>2, <1>8 DEF UdpRead
  <2>2. Numbered(f, l + 1, l + 1)'
    BY <1>0, <1>1, <1>2, <1>3, <2>1, SendNumbered
  <2>3. DownAt(l + 1, l + 1)' /\ DownStep /\ header'.data = 0 /\ header'.id = "fastboot"
    <3>1. DownAt(l, l + 1) /\ UNCHANGED delivered
      BY <1>0, <1>1, <1>2
    <3>2. header'.id = "fastboot" /\ header'.data = 0 /\ posted' = posted
      BY <2>1 DEF SendPacket
    <3> QED BY <3>1, <3>2 DEF DownAt, DownStep
  <2>4. HostAt(l + 1, l + 1)'
    BY <1>1, <1>2, <2>1, <2>3 DEF HostAt, Waiting
  <2>5. StillToSend(l + 1, l + 1)' = MaxChunks - 1
    BY <1>2, <1>3, <2>1 DEF StillToSend
  <2>6. BoundedAt(f, l + 1, l + 1)'
    <3> DEFINE c == transfers * MaxChunks
               d == transfers' * MaxChunks
    <3>1. c \in Nat /\ d = c + MaxChunks /\ l - f <= c
      BY <1>4
    <3> HIDE DEF c, d
    <3>2. (l + 1) - f + (MaxChunks - 1) <= d
      BY <1>4, <3>1
    <3> QED BY <1>4, <2>5, <3>2 DEF BoundedAt, d
  <2> QED BY <1>5, <1>6, <1>7, <2>2, <2>3, <2>4, <2>6 DEF Linked
<1>9. ASSUME NEW n \in 1 .. MaxChunks, UdpWrite(n)
      PROVE  Linked(f, l + 1, l + 1)' /\ DownStep /\ UpStep
  <2>1. SendPacket("fastboot", (l + 1) % SeqMod, Len(posted) + 1, n > 1)
        /\ udp' = "write" /\ txLeft' = n - 1
    BY <1>2, <1>9 DEF UdpWrite
  <2>2. Numbered(f, l + 1, l + 1)'
    BY <1>0, <1>1, <1>2, <1>3, <2>1, SendNumbered
  <2>3. DownAt(l + 1, l + 1)' /\ DownStep /\ header'.data # 0 /\ header'.id = "fastboot"
    BY <1>0, <1>1, <1>2, <2>1, SentData
  <2>4. HostAt(l + 1, l + 1)'
    BY <1>1, <1>2, <1>3, <2>1, <2>3, UdpLinkAssumption DEF HostAt, Waiting
  <2>5. StillToSend(l + 1, l + 1)' = n - 1
    BY <2>1 DEF StillToSend
  <2>6. BoundedAt(f, l + 1, l + 1)'
    <3> DEFINE c == transfers * MaxChunks
               d == transfers' * MaxChunks
    <3>1. c \in Nat /\ d = c + MaxChunks /\ l - f <= c
      BY <1>4
    <3> HIDE DEF c, d
    <3>2. (l + 1) - f + (n - 1) <= d
      BY <1>4, <3>1
    <3> QED BY <1>4, <2>5, <3>2 DEF BoundedAt, d
  <2> QED BY <1>5, <1>6, <1>7, <2>2, <2>3, <2>4, <2>6 DEF Linked
<1> QED BY <1>8, <1>9

\* A matching answer: its data is taken if there was room for all that came
\* before, and the next packet goes out or the transfer ends.
LEMMA AcceptStep ==
  ASSUME NEW f \in Nat, NEW l \in Nat, f <= l, l - f + 1 < SeqMod, NEW t \in {l, l + 1},
         Linked(f, l, t), HostReceives
  PROVE  (Linked(f, l, l + 1)' \/ Linked(f, l + 1, l + 1)') /\ DownStep /\ UpStep
<1>0. /\ Numbered(f, l, t) /\ HostAt(l, t) /\ AnswerAt(l, t)
      /\ DownAt(l, t) /\ UpAt(l, t) /\ BoundedAt(f, l, t)
  BY DEF Linked
<1>1. Accept(lastReply) /\ t = l + 1 /\ lastReply.id # "query" /\ Waiting
      /\ UNCHANGED <<transfers, toHost, targetVars, delivered, offered>>
  BY <1>0, OnlyLastReplyMatches DEF HostReceives
<1>2. /\ udp \in {"initialize", "write", "read"} /\ txLeft \in Nat /\ rxGot \in Nat
      /\ sequence = l % SeqMod /\ Plus1(sequence) = (l + 1) % SeqMod
      /\ header.id \in {"init", "fastboot"}
  BY <1>0, <1>1, Remainders, UdpLinkAssumption DEF HostAt, Waiting, Plus1
<1>3. UNCHANGED <<expected, lastReply, pending>> /\ pending \in Nat
  BY <1>0, <1>1 DEF targetVars, AnswerAt
<1> DEFINE p == lastReply
           got == rxGot + (IF p.id = "fastboot" /\ p.data # 0 THEN 1 ELSE 0)
           stored == p.id = "fastboot" /\ p.data # 0 /\ udp = "read" /\ got <= RoomChunks
<1>4. /\ sequence' = (l + 1) % SeqMod /\ rxGot' = got /\ got \in Nat
      /\ taken' = IF stored THEN Append(taken, p.data) ELSE taken
  BY <1>1, <1>2 DEF Accept
<1>5. /\ p.id \in {header.id, "error"} /\ p.more \in BOOLEAN
      /\ p.data # 0 => /\ p.id = "fastboot" /\ header.id = "fastboot" /\ header.data = 0
                       /\ udp = "read" /\ p.data = Len(offered)
      /\ (p.id # "error" /\ udp = "read") => p.data # 0
      /\ p.more = TRUE => p.data # 0 /\ pending > 0
      /\ (p.more = FALSE /\ p.data # 0) => pending = 0
  BY <1>0, <1>1, <1>2 DEF AnswerAt, HostAt
\* What is taken is what was offered next.
<1>6. /\ UpStep /\ Counting(taken') /\ Counting(offered')
      /\ rxGot' <= RoomChunks => Len(offered') = Len(taken')
  <2>0. Counting(offered) /\ Counting(taken) /\ Len(taken) \in Nat /\ Len(offered) \in Nat
        /\ UNCHANGED offered
    BY <1>0, <1>1 DEF UpAt, Counting
  <2>1. CASE stored
    <3>1. rxGot <= RoomChunks /\ p.data # 0 /\ Len(offered) = Len(taken) + 1
      BY <1>0, <1>1, <1>2, <2>1, UdpLinkAssumption DEF UpAt
    <3>2. taken' = Append(taken, p.data) /\ p.data = Len(taken) + 1
      BY <1>4, <1>5, <2>1, <3>1
    <3>3. Counting(taken') /\ Len(taken') = Len(taken) + 1
      BY <2>0, <3>2, CountOn
    <3>4. offered[Len(taken) + 1] = p.data
      BY <2>0, <3>1, <3>2 DEF Counting
    <3>5. Up!LinkReceive
      BY <2>0, <3>1, <3>2, <3>4 DEF Up!LinkReceive
    <3> QED BY <2>0, <3>1, <3>3, <3>5 DEF UpStep
  <2>2. CASE ~stored
    <3>1. taken' = taken
      BY <1>4, <2>2
    <3>2. rxGot' <= RoomChunks => p.data = 0 /\ rxGot' = rxGot
      BY <1>2, <1>4, <1>5, <2>2
    <3>3. rxGot' <= RoomChunks => Len(offered) = Len(taken)
      BY <1>0, <1>1, <3>2 DEF UpAt
    <3> QED BY <2>0, <3>1, <3>3 DEF UpStep
  <2> QED BY <2>1, <2>2
<1>7. /\ transfers \in 0 .. MaxTransfers /\ transfers' = transfers
      /\ l - f + StillToSend(l, l + 1) <= transfers * MaxChunks
      /\ transfers * MaxChunks \in Nat
  BY <1>0, <1>1, UdpLinkAssumption DEF BoundedAt
<1>s. StillToSend(l, l + 1) \in Nat
  BY <1>2, <1>3 DEF StillToSend
<1> HIDE DEF got, stored
\* SendData returns, or fails.
<1>8. ASSUME udp' \in {"idle", "failed"},
             UNCHANGED <<header, toTarget, posted, txLeft>>,
             udp' = "idle" => /\ p.more = FALSE /\ p.id # "error" /\ rxGot' <= RoomChunks
      PROVE  Linked(f, l, l + 1)' /\ DownStep
  <2>1. Numbered(f, l, l + 1)' /\ DownAt(l, l + 1)' /\ AnswerAt(l, l + 1)'
    BY <1>0, <1>1, <1>3, <1>8 DEF Numbered, DownAt, AnswerAt
  <2>2. udp' = "idle" => pending = 0
    BY <1>0, <1>2, <1>5, <1>8 DEF HostAt
  <2>3. HostAt(l, l + 1)'
    BY <1>0, <1>3, <1>4, <1>8, <2>2 DEF HostAt, Waiting
  <2>4. UpAt(l, l + 1)'
    BY <1>6, <1>8 DEF UpAt, Waiting
  <2>5. StillToSend(l, l + 1)' = 0
    BY <1>8 DEF StillToSend
  <2>6. BoundedAt(f, l, l + 1)'
    BY <1>7, <1>s, <2>5 DEF BoundedAt
  <2>7. DownStep
    BY <1>1, <1>8 DEF DownStep
  <2> QED BY <2>1, <2>3, <2>4, <2>6, <2>7 DEF Linked
\* The next packet goes out.
<1>9. ASSUME UNCHANGED udp, Numbered(f, l + 1, l + 1)', DownAt(l + 1, l + 1)', txLeft' \in Nat,
             header'.id = "fastboot",
             \/ udp = "read" /\ header'.data = 0 /\ txLeft' = 0
             \/ udp = "write" /\ header'.data # 0,
             StillToSend(l + 1, l + 1)' + 1 <= StillToSend(l, l + 1),
             StillToSend(l + 1, l + 1)' \in Nat
      PROVE  Linked(f, l + 1, l + 1)'
  <2>1. HostAt(l + 1, l + 1)'
    BY <1>0, <1>2, <1>3, <1>4, <1>9 DEF HostAt, Waiting
  <2>2. AnswerAt(l + 1, l + 1)'
    BY <1>3 DEF AnswerAt
  <2>3. UpAt(l + 1, l + 1)'
    BY <1>2, <1>6, <1>9, SMTT(40) DEF UpAt
  <2>4. BoundedAt(f, l + 1, l + 1)'
    BY <1>7, <1>s, <1>9 DEF BoundedAt
  <2> QED BY <1>9, <2>1, <2>2, <2>3, <2>4 DEF Linked
<1>10. CASE p.more = TRUE /\ SendPacket(p.id, (l + 1) % SeqMod, 0, FALSE)
            /\ UNCHANGED <<udp, txLeft>>
  <2>1. udp = "read" /\ p.id = "fastboot" /\ pending > 0 /\ txLeft = 0
    BY <1>0, <1>5, <1>10 DEF HostAt
  <2>2. Numbered(f, l + 1, l + 1)'
    BY <1>0, <1>1, <1>3, <1>10, SendNumbered
  <2>3. DownAt(l + 1, l + 1)' /\ DownStep /\ header'.data = 0 /\ header'.id = "fastboot"
    BY <1>0, <1>1, <1>10, <2>1, SentEmpty
  <2>4. StillToSend(l + 1, l + 1)' = pending - 1 /\ StillToSend(l, l + 1) = pending
    BY <1>3, <1>10, <2>1 DEF StillToSend
  <2> QED BY <1>3, <1>6, <1>9, <1>10, <2>1, <2>2, <2>3, <2>4
<1>11. CASE p.id = "error" /\ udp' = "failed" /\ UNCHANGED <<header, toTarget, posted, txLeft>>
  BY <1>6, <1>8, <1>11
<1>12. CASE /\ p.more = FALSE /\ p.id # "error" /\ txLeft > 0 /\ txLeft' = txLeft - 1
            /\ SendPacket("fastboot", (l + 1) % SeqMod, Len(posted) + 1, txLeft > 1)
            /\ UNCHANGED udp
  <2>1. udp = "write"
    BY <1>0, <1>2, <1>12 DEF HostAt
  <2>2. Numbered(f, l + 1, l + 1)'
    BY <1>0, <1>1, <1>3, <1>12, SendNumbered
  <2>3. DownAt(l + 1, l + 1)' /\ DownStep /\ header'.data # 0 /\ header'.id = "fastboot"
    BY <1>0, <1>1, <1>12, SentData
  <2>4. StillToSend(l + 1, l + 1)' = txLeft - 1 /\ StillToSend(l, l + 1) = txLeft
    BY <1>12, <2>1 DEF StillToSend
  <2> QED BY <1>2, <1>6, <1>9, <1>12, <2>1, <2>2, <2>3, <2>4, SMTT(40)
<1>13. CASE /\ p.more = FALSE /\ p.id # "error"
            /\ udp' = IF (udp = "write" /\ got > 0) \/ (udp = "read" /\ got > RoomChunks)
                      THEN "failed" ELSE "idle"
            /\ UNCHANGED <<header, toTarget, posted, txLeft>>
  <2>1. udp' = "idle" => rxGot' <= RoomChunks
    <3>1. CASE udp = "initialize"
      <4>1. rxGot' = 0
        BY <1>0, <1>4, <1>5, <3>1 DEF HostAt, got
      <4> QED BY <4>1, UdpLinkAssumption
    <3>2. CASE udp = "write"
      BY <1>4, <1>13, <3>2, UdpLinkAssumption
    <3>3. CASE udp = "read"
      BY <1>4, <1>13, <3>3, UdpLinkAssumption
    <3> QED BY <1>2, <3>1, <3>2, <3>3
  <2> QED BY <1>6, <1>8, <1>13, <2>1
<1>14. p.more <=> p.more = TRUE
  BY <1>5
<1>15. ~p.more <=> p.more = FALSE
  BY <1>5
<1> QED
  BY <1>1, <1>2, <1>10, <1>11, <1>12, <1>13, <1>14, <1>15 DEF Accept, got

\* While the query is all there is, a step keeps it so, or sends the first packet
\* with the number the target expects.
LEMMA QueryStep ==
  ASSUME QueryPhase, UdpNext
  PROVE  /\ QueryPhase' \/ (expected \in 0 .. SeqMod - 1 /\ Linked(expected, expected, expected)')
         /\ UNCHANGED expected /\ DownStep /\ UpStep
<1>0. /\ sequence \in {-1, 0} /\ udp \in {"idle", "query", "failed"}
      /\ (udp = "idle" <=> sequence = -1) /\ (udp = "query" => header.id = "query")
      /\ \A p \in toTarget : p.id = "query"
      /\ \A r \in toHost : r.id = "query" /\ r.data = expected
      /\ expected \in 0 .. SeqMod - 1 /\ pending = 0 /\ lastReply = NoPacket
      /\ transfers = 0 /\ txLeft = 0 /\ rxGot = 0
      /\ posted = <<>> /\ delivered = <<>> /\ offered = <<>> /\ taken = <<>>
  BY DEF QueryPhase
<1>1. CASE SendQuery
  <2>1. /\ udp' = "query" /\ sequence' = 0 /\ txLeft' = 0 /\ rxGot' = 0 /\ transfers' = 0
        /\ header'.id = "query" /\ toTarget' = toTarget \cup {header'} /\ posted' = posted
        /\ UNCHANGED <<toHost, expected, lastReply, pending, delivered, offered, taken>>
    BY <1>1 DEF SendQuery, SendPacket, targetVars
  <2>2. QueryPhase'
    BY <1>0, <2>1 DEF QueryPhase
  <2> QED BY <2>1, <2>2 DEF DownStep, UpStep
<1>2. CASE UdpTimeout
  <2>1. /\ udp = "query" /\ udp' \in {"query", "failed"}
        /\ UNCHANGED <<sequence, header, txLeft, rxGot, transfers, toTarget, toHost, expected,
                       lastReply, pending, posted, delivered, offered, taken>>
    BY <1>0, <1>2 DEF UdpTimeout, Waiting, netVars, targetVars, linkVars
  <2>2. QueryPhase'
    BY <1>0, <2>1 DEF QueryPhase, NoPacket
  <2> QED BY <2>1, <2>2 DEF DownStep, UpStep
<1>3. CASE TargetReceives
  <2>1. PICK p \in toTarget :
          /\ p.id = "query"
          /\ toHost' = toHost \union {[id |-> "query", seq |-> p.seq, data |-> expected,
                                       more |-> FALSE]}
          /\ UNCHANGED <<targetVars, delivered, offered>>
    BY <1>0, <1>3 DEF TargetReceives, TargetActs
  <2>2. UNCHANGED <<udp, sequence, header, txLeft, rxGot, transfers, toTarget, posted, taken,
                    expected, lastReply, pending, delivered, offered>>
    BY <1>3, <2>1 DEF TargetReceives, hostVars, targetVars
  <2>3. \A r \in toHost' : r.id = "query" /\ r.data = expected'
    BY <1>0, <2>1, <2>2
  <2>4. QueryPhase'
    BY <1>0, <2>2, <2>3 DEF QueryPhase, NoPacket
  <2> QED BY <2>2, <2>4 DEF DownStep, UpStep
<1>4. CASE HostReceives
  <2>1. PICK p \in toHost : Matches(p) /\ Accept(p)
    BY <1>4 DEF HostReceives
  <2>2. udp = "query" /\ p.id = "query" /\ p.data = expected
        /\ UNCHANGED <<transfers, toHost, expected, lastReply, pending, delivered, offered>>
    BY <1>0, <1>4, <2>1 DEF HostReceives, Waiting, targetVars
  <2>3. /\ udp' = "initialize" /\ sequence' = expected /\ rxGot' = 0 /\ txLeft' = 0
        /\ UNCHANGED taken
    BY <1>0, <2>1, <2>2 DEF Accept
  <2>4. header'.id = "init" /\ header'.seq = expected /\ header'.data = 0
        /\ toTarget' = toTarget \cup {header'} /\ UNCHANGED posted
    <3>1. header' = [id |-> "init", seq |-> expected, data |-> 0, more |-> FALSE]
      BY <2>1, <2>2 DEF Accept, SendPacket
    <3>2. toTarget' = toTarget \cup {header'} /\ UNCHANGED posted
      BY <2>1, <2>2 DEF Accept, SendPacket
    <3> QED BY <3>1, <3>2
  <2>5. expected % SeqMod = expected /\ expected \in Nat
    <3>1. SeqMod \in Nat \ {0}
      BY UdpLinkAssumption
    <3>2. expected \in Nat /\ expected < SeqMod
      BY <1>0, <3>1
    <3> QED BY <3>1, <3>2, Remainders
  <2> DEFINE e == expected
  <2>6. e' = e /\ e \in Nat /\ e % SeqMod = e
    BY <2>2, <2>5
  <2>7. \A p2 \in toTarget' : p2.id # "query" =>
          \E j \in e .. e : p2.seq = j % SeqMod /\ (j = e => p2 = header')
    <3>1. e \in e .. e
      BY <2>6
    <3> QED BY <1>0, <2>4, <2>5, <3>1
  <2>8. \A r \in toHost' : r.id = "query"
    BY <1>0, <2>2
  <2>9. Numbered(e, e, e)'
    BY <1>0, <2>2, <2>4, <2>5, <2>7, <2>8 DEF Numbered, NoPacket
  <2>10. HostAt(e, e)'
    BY <1>0, <2>2, <2>3, <2>4, <2>5 DEF HostAt, Waiting
  <2>11. AnswerAt(e, e)'
    BY <1>0, <2>2, <2>5 DEF AnswerAt
  <2>12. Counting(<<>>) /\ Len(<<>>) = 0
    BY DEF Counting
  <2>13. DownAt(e, e)'
    BY <1>0, <2>2, <2>4, <2>12 DEF DownAt
  <2>14. UpAt(e, e)'
    BY <1>0, <2>2, <2>3, <2>5, <2>12 DEF UpAt
  <2>15. BoundedAt(e, e, e)'
    <3>1. StillToSend(e, e)' = 0
      BY <2>3 DEF StillToSend
    <3>2. e' - e' + 0 = 0 /\ 0 * MaxChunks = 0 /\ 0 \in 0 .. MaxTransfers
      BY <2>6, UdpLinkAssumption
    <3> QED BY <1>0, <2>2, <3>1, <3>2 DEF BoundedAt
  <2>16. Linked(e, e, e)'
    BY <2>9, <2>10, <2>11, <2>13, <2>14, <2>15 DEF Linked
  <2> QED BY <1>0, <2>2, <2>3, <2>4, <2>16 DEF DownStep, UpStep
<1>5. ~UdpRead /\ \A n \in 1 .. MaxChunks : ~UdpWrite(n)
  BY <1>0 DEF UdpRead, UdpWrite
<1> QED BY <1>1, <1>2, <1>3, <1>4, <1>5 DEF UdpNext, UdpHost

\* Every action keeps UdpInv and is a step of the link, or none, each way.
LEMMA UdpStep ==
  ASSUME 1 + MaxTransfers * MaxChunks < SeqMod, UdpInv, [UdpNext]_udpVars
  PROVE  UdpInv' /\ DownStep /\ UpStep
<1> DEFINE B == MaxTransfers * MaxChunks
<1>b. B \in Nat /\ 1 + B < SeqMod /\ SeqMod \in Nat
  BY UdpLinkAssumption
\* Linked is UdpInv, once the packets are counted.
<1>1. ASSUME NEW f \in 0 .. SeqMod - 1, NEW l \in Nat, f <= l, NEW t \in {l, l + 1},
             Linked(f, l, t)'
      PROVE  UdpInv'
  <2>1. /\ transfers' \in 0 .. MaxTransfers /\ StillToSend(l, t)' \in Nat
        /\ l - f + StillToSend(l, t)' <= transfers' * MaxChunks
    <3>1. BoundedAt(f, l, t)' /\ HostAt(l, t)' /\ AnswerAt(l, t)'
      BY <1>1 DEF Linked
    <3>2. txLeft' \in Nat /\ pending' \in Nat
      BY <3>1 DEF HostAt, AnswerAt
    <3>3. StillToSend(l, t)' \in Nat
      BY <1>1, <3>2, UdpLinkAssumption DEF StillToSend
    <3> QED BY <3>1, <3>3 DEF BoundedAt
  <2> DEFINE x == transfers'
             c == x * MaxChunks
  <2>2. /\ x \in Nat /\ x <= MaxTransfers /\ MaxTransfers \in Nat /\ MaxChunks \in Nat
        /\ l - f + StillToSend(l, t)' <= c
    BY <2>1, UdpLinkAssumption
  <2>3. c \in Nat /\ l - f + StillToSend(l, t)' <= c /\ c <= B
    <3> HIDE DEF x
    <3>1. PICK d \in Nat : MaxTransfers = x + d
      <4>1. MaxTransfers - x \in Nat /\ MaxTransfers = x + (MaxTransfers - x)
        BY <2>2
      <4> QED BY <4>1
    <3>2. B = c + d * MaxChunks /\ d * MaxChunks \in Nat /\ c \in Nat
      BY <2>2, <3>1
    <3> HIDE DEF B, c
    <3> QED BY <2>2, <3>2
  <2> HIDE DEF B, c
  <2>4. l - f \in 0 .. B /\ t - l \in {0, 1} /\ f + (l - f) = l /\ f + (l - f) + (t - l) = t
    BY <1>b, <1>1, <2>1, <2>3
  <2>5. Linked(f, f + (l - f), f + (l - f) + (t - l))'
    BY <1>1, <2>4
  <2> QED BY <2>4, <2>5 DEF UdpInv, B
<1>2. CASE QueryPhase /\ UdpNext
  <2>1. CASE QueryPhase'
    BY <1>2, <2>1, QueryStep DEF UdpInv
  <2>2. CASE ~QueryPhase'
    <3>1. expected \in 0 .. SeqMod - 1 /\ Linked(expected, expected, expected)'
          /\ DownStep /\ UpStep
      BY <1>2, <2>2, QueryStep
    <3>2. expected' = expected
      BY <1>2, QueryStep
    <3>3. expected \in Nat /\ expected <= expected
      BY <1>b, <3>1
    <3> QED BY <1>1, <3>1, <3>2, <3>3
  <2> QED BY <2>1, <2>2
<1>3. ASSUME NEW f \in 0 .. SeqMod - 1, NEW n \in 0 .. B, NEW a \in {0, 1},
             Linked(f, f + n, f + n + a), UdpNext
      PROVE  UdpInv' /\ DownStep /\ UpStep
  <2> DEFINE l == f + n
             t == f + n + a
  <2>1. f \in Nat /\ l \in Nat /\ f <= l /\ l - f + 1 < SeqMod /\ t \in {l, l + 1}
        /\ f <= l + 1 /\ l + 1 \in Nat
    <3> HIDE DEF B
    <3> QED BY <1>b, <1>3
  <2>2. Linked(f, l, t)
    BY <1>3
  <2> HIDE DEF l, t, B
  <2>3. ~SendQuery
    <3>1. SeqMod \in Nat \ {0}
      BY UdpLinkAssumption
    <3>2. t \in Nat
      BY <2>1
    <3>3. t % SeqMod \in 0 .. SeqMod - 1
      BY <3>1, <3>2, Remainders
    <3>4. t % SeqMod # -1
      BY <3>1, <3>3
    <3> QED BY <2>2, <3>4 DEF SendQuery, Linked, HostAt
  <2>4. CASE UdpTimeout
    <3>1. /\ Waiting /\ udp' \in {udp, "failed"}
          /\ UNCHANGED <<sequence, header, txLeft, rxGot, transfers, toTarget, toHost, expected,
                         lastReply, pending, posted, delivered, offered, taken>>
      BY <2>4 DEF UdpTimeout, netVars, targetVars, linkVars
    <3>2. Numbered(f, l, t)' /\ AnswerAt(l, t)' /\ DownAt(l, t)'
      BY <2>2, <3>1 DEF Linked, Numbered, AnswerAt, DownAt
    <3>3. HostAt(l, t)' /\ UpAt(l, t)'
      BY <2>2, <3>1 DEF Linked, HostAt, UpAt, Waiting
    <3>4. BoundedAt(f, l, t)'
      <4>1. udp' = udp => StillToSend(l, t)' = StillToSend(l, t)
        BY <3>1 DEF StillToSend
      <4>2. udp' = "failed" => StillToSend(l, t)' = 0
        BY DEF StillToSend
      <4>3. txLeft \in Nat /\ pending \in Nat
        BY <2>2 DEF Linked, HostAt, AnswerAt
      <4>4. StillToSend(l, t) \in Nat
        BY <2>1, <4>3, UdpLinkAssumption, SMTT(40) DEF StillToSend
      <4>5. transfers \in 0 .. MaxTransfers /\ l - f + StillToSend(l, t) <= transfers * MaxChunks
        BY <2>2 DEF Linked, BoundedAt
      <4>6. transfers * MaxChunks \in Nat
        BY <4>5, UdpLinkAssumption
      <4> QED BY <2>1, <3>1, <4>1, <4>2, <4>4, <4>5, <4>6 DEF BoundedAt
    <3>5. Linked(f, l, t)'
      BY <3>2, <3>3, <3>4 DEF Linked
    <3> QED BY <1>1, <2>1, <3>1, <3>5 DEF DownStep, UpStep
  <2>5. CASE TargetReceives
    BY <1>1, <2>1, <2>2, <2>5, TargetStep
  <2>6. CASE HostReceives
    BY <1>1, <2>1, <2>2, <2>6, AcceptStep
  <2>7. CASE UdpRead \/ \E k \in 1 .. MaxChunks : UdpWrite(k)
    BY <1>1, <2>1, <2>2, <2>7, TransferStep
  <2> QED BY <1>3, <2>3, <2>4, <2>5, <2>6, <2>7 DEF UdpNext, UdpHost
<1>4. CASE UNCHANGED udpVars
  <2>1. UNCHANGED <<udp, sequence, header, txLeft, rxGot, transfers, toTarget, toHost, expected,
                    lastReply, pending, posted, delivered, offered, taken>>
    BY <1>4 DEF udpVars, hostVars, netVars, targetVars, linkVars
  <2>2. QueryPhase => QueryPhase'
    BY <2>1 DEF QueryPhase, NoPacket
  <2>3. ASSUME NEW f, NEW l, NEW t, Linked(f, l, t) PROVE Linked(f, l, t)'
    BY <2>1, <2>3 DEF Linked, Numbered, HostAt, AnswerAt, DownAt, UpAt, BoundedAt, StillToSend,
       Waiting, Counting, NoPacket
  <2>4. UdpInv'
    BY <2>2, <2>3 DEF UdpInv
  <2> QED BY <2>1, <2>4 DEF DownStep, UpStep
<1> QED BY <1>2, <1>3, <1>4 DEF UdpInv

\* Retransmission and the sequence numbers make the lossy, repeating, reordering
\* network a reliable link each way: UdpLink implements FifoLink in both directions,
\* and between transfers nothing is missing, as long as fewer packets than there are
\* sequence numbers are sent while one of them may still be in the network.
THEOREM UdpReliable ==
  ASSUME 1 + MaxTransfers * MaxChunks < SeqMod
  PROVE  UdpSpec => LinkIsReliable
<1>1. UdpInit => UdpInv
  BY DEF UdpInit, UdpInv, QueryPhase
<1>2. UdpInit => Down!LinkInit /\ Up!LinkInit
  BY DEF UdpInit, Down!LinkInit, Up!LinkInit
<1>3. UdpInv /\ [UdpNext]_udpVars => UdpInv' /\ DownStep /\ UpStep
  BY UdpStep
<1>4. UdpInv => TransferComplete
  <2>1. QueryPhase => TransferComplete
    BY DEF QueryPhase, TransferComplete
  <2>2. ASSUME NEW f \in Nat, NEW l \in Nat, NEW t \in {l, l + 1}, Linked(f, l, t)
        PROVE  TransferComplete
    <3> SUFFICES ASSUME udp = "idle" PROVE delivered = posted /\ taken = offered
      BY DEF TransferComplete
    <3>1. t = l + 1
      BY <2>2 DEF Linked, HostAt
    <3>2. Counting(posted) /\ Counting(delivered) /\ Len(posted) = Len(delivered)
      BY <2>2, <3>1 DEF Linked, DownAt
    <3>3. Counting(offered) /\ Counting(taken) /\ Len(offered) = Len(taken)
      BY <2>2 DEF Linked, UpAt
    <3> QED BY <3>2, <3>3, CountEqual
  <2>3. ASSUME NEW f \in 0 .. SeqMod - 1, NEW n \in 0 .. MaxTransfers * MaxChunks,
               NEW a \in {0, 1}
        PROVE  f \in Nat /\ f + n \in Nat /\ f + n + a \in {f + n, f + n + 1}
    BY <2>3, UdpLinkAssumption
  <2> QED BY <2>1, <2>2, <2>3 DEF UdpInv
<1> QED
  BY <1>1, <1>2, <1>3, <1>4, PTL
     DEF UdpSpec, LinkIsReliable, Down!LinkSpec, Up!LinkSpec, DownStep, UpStep

============================================================================
