--------------------------- MODULE TcpPoolProofs ---------------------------
(***************************************************************************)
(* Proofs about TcpPool for any number of workers and any connections: its *)
(* type invariant, with the bound on the queue, the absence of lost        *)
(* wakeups on both condition variables, and the single owner of a socket.  *)
(***************************************************************************)
EXTENDS TcpPool, FiniteSetTheorems, TLAPS

\* What Enqueue pushes is a connection: outside "accepting" the accept loop has
\* one in hand.
HandFull == acceptor # "accepting" => hand \in Conns

TypeInv == TypeOK /\ HandFull

\* The queue bound max_queued_ is a number.
LEMMA MaxQueuedNat == MaxQueued \in Nat
BY WorkersAssumption, FS_CardinalityType DEF MaxQueued

\* Waking a worker keeps the worker states well typed.
LEMMA NotifyType ==
  ASSUME TypeOK, NotifyWorker
  PROVE  worker' \in [Workers -> WorkerStates]
BY DEF TypeOK, NotifyWorker, Asleep, WorkerStates

\* Every action of the pool keeps TypeInv (ThreadPool, RunTcpAcceptLoop).
LEMMA TypeInvStep == TypeInv /\ [Next]_vars => TypeInv'
<1> SUFFICES ASSUME TypeInv, [Next]_vars PROVE TypeInv'
  OBVIOUS
<1> USE MaxQueuedNat, ConnsAssumption
    DEF TypeInv, TypeOK, HandFull, PeerStates, AcceptorStates, WorkerStates
<1>1. ASSUME NEW c \in Conns, Connect(c) PROVE TypeInv'
  BY <1>1 DEF Connect
<1>2. ASSUME NEW ok \in BOOLEAN, AcceptHandshake(ok) PROVE TypeInv'
  BY <1>2 DEF AcceptHandshake
<1>3. CASE Enqueue
  <2>1. CASE EnqueueBlocks
    BY <2>1 DEF EnqueueBlocks
  <2>2. CASE EnqueuePush(MaxQueued, TRUE)
    <3>1. worker' \in [Workers -> WorkerStates]
      BY <2>2, NotifyType DEF EnqueuePush
    <3>2. hand \in Conns
      BY <2>2 DEF EnqueuePush
    <3>3. tasks' \in Seq(Conns) /\ Len(tasks') <= MaxQueued
      BY <2>2, <3>2 DEF EnqueuePush
    <3> QED BY <2>2, <3>1, <3>3 DEF EnqueuePush
  <2> QED BY <1>3, <2>1, <2>2 DEF Enqueue
<1>4. ASSUME NEW w \in Workers, WorkerTake(w) PROVE TypeInv'
  <2>1. CASE tasks = <<>>
    BY <1>4, <2>1 DEF WorkerTake
  <2>2. CASE tasks # <<>>
    <3>1. /\ tasks' = Tail(tasks)
          /\ sock' = [sock EXCEPT ![w] = Head(tasks)]
          /\ worker' = [worker EXCEPT ![w] = "popped"]
          /\ UNCHANGED <<backlog, peer, acceptor, hand>>
      BY <1>4, <2>2 DEF WorkerTake
    <3>2. Head(tasks) \in Conns
      BY <2>2
    <3>3. tasks' \in Seq(Conns) /\ Len(tasks') <= MaxQueued
      BY <2>2, <3>1
    <3> QED BY <3>1, <3>2, <3>3
  <2> QED BY <2>1, <2>2
<1>5. ASSUME NEW w \in Workers, NotifyEnqueue(w) PROVE TypeInv'
  BY <1>5 DEF NotifyEnqueue
<1>6. ASSUME NEW w \in Workers, SessionEnds(w) PROVE TypeInv'
  BY <1>6 DEF SessionEnds
<1>7. CASE SpuriousWakeup
  BY <1>7 DEF SpuriousWakeup, Asleep
<1>8. CASE UNCHANGED vars
  BY <1>8 DEF vars
<1> QED BY <1>1, <1>2, <1>3, <1>4, <1>5, <1>6, <1>7, <1>8 DEF Next

\* Type correctness: the queue never exceeds the bound that ThreadPool was
\* given, whatever the number of workers.
THEOREM TypeCorrect == Spec => []TypeOK
<1>1. Init => TypeInv
  BY MaxQueuedNat DEF Init, TypeInv, TypeOK, HandFull, PeerStates, AcceptorStates, WorkerStates
<1>2. TypeInv => TypeOK
  BY DEF TypeInv
<1> QED BY <1>1, <1>2, TypeInvStep, PTL DEF Spec
----------------------------------------------------------------------------
\* One step keeps the acceptor's half of the wakeup argument.
LEMMA AcceptorStep ==
  TypeOK /\ AcceptorNotStranded /\ [Next]_vars => AcceptorNotStranded'
<1> SUFFICES ASSUME TypeOK, AcceptorNotStranded, [Next]_vars
             PROVE  AcceptorNotStranded'
  OBVIOUS
<1> USE MaxQueuedNat DEF TypeOK, AcceptorNotStranded, WorkerStates
<1>1. ASSUME NEW c \in Conns, Connect(c) PROVE AcceptorNotStranded'
  BY <1>1 DEF Connect, MaxQueued
<1>2. ASSUME NEW ok \in BOOLEAN, AcceptHandshake(ok) PROVE AcceptorNotStranded'
  BY <1>2 DEF AcceptHandshake, MaxQueued
<1>3. CASE Enqueue
  BY <1>3 DEF Enqueue, EnqueueBlocks, EnqueuePush, MaxQueued
<1>4. ASSUME NEW w \in Workers, WorkerTake(w) PROVE AcceptorNotStranded'
  <2>1. CASE tasks = <<>>
    BY <1>4, <2>1 DEF WorkerTake, MaxQueued
  <2>2. CASE tasks # <<>>
    <3>1. worker'[w] = "popped"
      BY <1>4, <2>2 DEF WorkerTake
    <3> QED BY <3>1
  <2> QED BY <2>1, <2>2
<1>5. ASSUME NEW w \in Workers, NotifyEnqueue(w) PROVE AcceptorNotStranded'
  <2>1. acceptor' # "blocked"
    BY <1>5 DEF NotifyEnqueue
  <2> QED BY <2>1
<1>6. ASSUME NEW w \in Workers, SessionEnds(w) PROVE AcceptorNotStranded'
  BY <1>6 DEF SessionEnds, MaxQueued
<1>7. CASE SpuriousWakeup
  BY <1>7 DEF SpuriousWakeup, Asleep, MaxQueued
<1>8. CASE UNCHANGED vars
  BY <1>8 DEF vars, MaxQueued
<1> QED BY <1>1, <1>2, <1>3, <1>4, <1>5, <1>6, <1>7, <1>8 DEF Next

\* No lost wakeup of the accept loop: cv_enqueue_.notify_one() may come after
\* the mutex is released and still none is lost.
THEOREM AcceptorSafe == Spec => []AcceptorNotStranded
<1>1. Init => AcceptorNotStranded
  BY DEF Init, AcceptorNotStranded
<1> QED BY <1>1, TypeCorrect, AcceptorStep, PTL DEF Spec
----------------------------------------------------------------------------
\* The set of workers about to take the mutex is finite, so it can be counted.
LEMMA ReadyFinite ==
  /\ IsFiniteSet(Ready) /\ Cardinality(Ready) \in Nat
  /\ IsFiniteSet(Ready') /\ Cardinality(Ready') \in Nat
<1>1. Ready \subseteq Workers /\ Ready' \subseteq Workers
  BY DEF Ready
<1> QED BY <1>1, WorkersAssumption, FS_Subset, FS_CardinalityType

\* A worker that becomes ready adds one to the count.
LEMMA ReadyGains ==
  ASSUME TypeOK, NEW w \in Workers, worker[w] # "ready",
         worker' = [worker EXCEPT ![w] = "ready"]
  PROVE  Cardinality(Ready') = Cardinality(Ready) + 1
<1>1. Ready' = Ready \cup {w} /\ w \notin Ready
  BY DEF TypeOK, Ready
<1> QED BY <1>1, ReadyFinite, FS_AddElement

\* A worker that stops being ready takes one from it.
LEMMA ReadyLoses ==
  ASSUME TypeOK, NEW w \in Workers, worker[w] = "ready", NEW s, s # "ready",
         worker' = [worker EXCEPT ![w] = s]
  PROVE  Cardinality(Ready') = Cardinality(Ready) - 1
<1>1. Ready' = Ready \ {w} /\ w \in Ready
  BY DEF TypeOK, Ready
<1> QED BY <1>1, ReadyFinite, FS_RemoveElement

\* One step keeps the workers' half of the wakeup argument.
LEMMA WorkerStep == TypeInv /\ NoTaskStranded /\ [Next]_vars => NoTaskStranded'
<1> SUFFICES ASSUME TypeOK, HandFull, NoTaskStranded, [Next]_vars PROVE NoTaskStranded'
  BY DEF TypeInv
<1> USE ReadyFinite, MaxQueuedNat DEF NoTaskStranded
<1>a. Len(tasks) \in Nat
  BY DEF TypeOK
<1>1. ASSUME UNCHANGED <<tasks, worker>> PROVE NoTaskStranded'
  BY <1>1 DEF Asleep, Ready
<1>2. CASE EnqueuePush(MaxQueued, TRUE)
  <2>0. hand \in Conns
    BY <1>2 DEF EnqueuePush, HandFull
  <2>1. Len(tasks') = Len(tasks) + 1
    BY <1>2, <2>0 DEF EnqueuePush, TypeOK
  <2>2. CASE Asleep = {}
    BY <1>2, <2>2 DEF EnqueuePush, NotifyWorker, Asleep
  <2>3. CASE Asleep # {}
    <3>1. PICK w \in Asleep : worker' = [worker EXCEPT ![w] = "ready"]
      BY <1>2, <2>3 DEF EnqueuePush, NotifyWorker
    <3>2. w \in Workers /\ worker[w] # "ready"
      BY DEF Asleep
    <3>3. Cardinality(Ready') = Cardinality(Ready) + 1
      BY <3>1, <3>2, ReadyGains
    <3> QED BY <1>a, <2>1, <2>3, <3>3
  <2> QED BY <2>2, <2>3
<1>3. ASSUME NEW w \in Workers, WorkerTake(w) PROVE NoTaskStranded'
  <2>1. CASE tasks = <<>>
    BY <1>3, <2>1 DEF WorkerTake
  <2>2. CASE tasks # <<>>
    <3>1. /\ tasks' = Tail(tasks)
          /\ worker[w] = "ready"
          /\ worker' = [worker EXCEPT ![w] = "popped"]
      BY <1>3, <2>2 DEF WorkerTake
    <3>2. Len(tasks') = Len(tasks) - 1
      BY <2>2, <3>1 DEF TypeOK
    <3>3. Cardinality(Ready') = Cardinality(Ready) - 1
      BY <3>1, ReadyLoses
    <3>4. Asleep' = Asleep
      BY <3>1 DEF Asleep, TypeOK
    <3> QED BY <1>a, <3>2, <3>3, <3>4
  <2> QED BY <2>1, <2>2
<1>4. ASSUME NEW w \in Workers, NotifyEnqueue(w) PROVE NoTaskStranded'
  <2>1. Ready' = Ready /\ Asleep' = Asleep /\ tasks' = tasks
    BY <1>4 DEF NotifyEnqueue, Ready, Asleep, TypeOK
  <2> QED BY <2>1
<1>5. ASSUME NEW w \in Workers, SessionEnds(w) PROVE NoTaskStranded'
  <2>1. worker[w] # "ready" /\ worker' = [worker EXCEPT ![w] = "ready"] /\ tasks' = tasks
    BY <1>5 DEF SessionEnds
  <2>2. Cardinality(Ready') = Cardinality(Ready) + 1
    BY <2>1, ReadyGains
  <2>3. Asleep' # {} => Asleep # {}
    BY <2>1 DEF Asleep, TypeOK
  <2> QED BY <1>a, <2>1, <2>2, <2>3
<1>6. CASE SpuriousWakeup
  <2>1. CASE \E w \in Asleep : worker' = [worker EXCEPT ![w] = "ready"] /\ tasks' = tasks
    <3>1. PICK w \in Asleep : worker' = [worker EXCEPT ![w] = "ready"] /\ tasks' = tasks
      BY <2>1
    <3>2. w \in Workers /\ worker[w] # "ready" /\ Asleep # {}
      BY DEF Asleep
    <3>3. Cardinality(Ready') = Cardinality(Ready) + 1
      BY <3>1, <3>2, ReadyGains
    <3> QED BY <1>a, <3>1, <3>2, <3>3
  <2>2. CASE UNCHANGED <<tasks, worker>>
    BY <1>1, <2>2
  <2> QED BY <1>6, <2>1, <2>2 DEF SpuriousWakeup
<1>7. CASE EnqueueBlocks
  BY <1>1, <1>7 DEF EnqueueBlocks
<1>8. ASSUME NEW c \in Conns, Connect(c) PROVE NoTaskStranded'
  BY <1>1, <1>8 DEF Connect
<1>9. ASSUME NEW ok \in BOOLEAN, AcceptHandshake(ok) PROVE NoTaskStranded'
  BY <1>1, <1>9 DEF AcceptHandshake
<1>10. CASE UNCHANGED vars
  BY <1>1, <1>10 DEF vars
<1> QED
  BY <1>2, <1>3, <1>4, <1>5, <1>6, <1>7, <1>8, <1>9, <1>10 DEF Next, Enqueue

\* No lost wakeup of a worker: a queued connection always finds a worker awake
\* unless every worker is busy (Enqueue against WorkerLoop).
THEOREM WorkerSafe == Spec => []NoTaskStranded
<1>1. Init => TypeInv /\ NoTaskStranded
  <2>1. Init => TypeInv
    BY MaxQueuedNat DEF Init, TypeInv, TypeOK, HandFull, PeerStates, AcceptorStates, WorkerStates
  <2>2. Init => NoTaskStranded
    BY DEF Init, NoTaskStranded, Asleep
  <2> QED BY <2>1, <2>2
<1>2. TypeInv /\ NoTaskStranded /\ [Next]_vars => (TypeInv /\ NoTaskStranded)'
  BY TypeInvStep, WorkerStep
<1> QED BY <1>1, <1>2, PTL DEF Spec
----------------------------------------------------------------------------
\* The listen queue holds each waiting connection once.
BacklogOnce ==
  /\ \A i \in 1 .. Len(backlog) : peer[backlog[i]] = "backlog"
  /\ \A i, j \in 1 .. Len(backlog) : backlog[i] = backlog[j] => i = j

\* Whoever has a socket has an open one, and nobody else has it.
OwnersApart ==
  /\ acceptor = "accepting" => hand = NoConn
  /\ \A w \in Workers : worker[w] \in {"popped", "serving"} <=> sock[w] # NoConn
  /\ \A i, j \in 1 .. Len(tasks) : tasks[i] = tasks[j] => i = j
  /\ \A v, w \in Workers : sock[v] = sock[w] /\ sock[v] # NoConn => v = w
  /\ \A i \in 1 .. Len(tasks) : tasks[i] # hand
  /\ \A w \in Workers : sock[w] # NoConn => sock[w] # hand
  /\ \A i \in 1 .. Len(tasks), w \in Workers : tasks[i] # sock[w]

\* A socket is open exactly as long as somebody has it.
OpenIsOwned ==
  \A c \in Conns :
    peer[c] = "open" <=> \/ hand = c
                         \/ \E i \in 1 .. Len(tasks) : tasks[i] = c
                         \/ \E w \in Workers : sock[w] = c

OwnerInv == TypeInv /\ BacklogOnce /\ OwnersApart /\ OpenIsOwned

\* OwnerInv holds when the pool starts.
LEMMA OwnerInit == Init => OwnerInv
<1> SUFFICES ASSUME Init PROVE OwnerInv
  OBVIOUS
<1>1. TypeInv
  BY MaxQueuedNat DEF Init, TypeInv, TypeOK, HandFull, PeerStates, AcceptorStates, WorkerStates
<1>2. BacklogOnce /\ OwnersApart
  BY DEF Init, BacklogOnce, OwnersApart
<1>3. OpenIsOwned
  BY ConnsAssumption DEF Init, OpenIsOwned
<1> QED BY <1>1, <1>2, <1>3 DEF OwnerInv

\* Steps that move no socket.
LEMMA SameSockets ==
  ASSUME OwnerInv, UNCHANGED <<backlog, peer, hand, tasks, sock>>,
         acceptor' = "accepting" => acceptor = "accepting",
         \A v \in Workers : worker'[v] \in {"popped", "serving"} <=> sock[v] # NoConn
  PROVE  BacklogOnce' /\ OwnersApart' /\ OpenIsOwned'
<1>1. BacklogOnce'
  BY DEF OwnerInv, BacklogOnce
<1>2. OwnersApart'
  BY DEF OwnerInv, OwnersApart
<1>3. OpenIsOwned'
  BY DEF OwnerInv, OpenIsOwned
<1> QED BY <1>1, <1>2, <1>3

\* A connection gets into the listen queue, and out of it.
LEMMA BacklogKeeps ==
  ASSUME OwnerInv, (\E c \in Conns : Connect(c)) \/ (\E ok \in BOOLEAN : AcceptHandshake(ok))
  PROVE  BacklogOnce' /\ OwnersApart' /\ OpenIsOwned'
<1> USE ConnsAssumption DEF OwnerInv, TypeInv, TypeOK, BacklogOnce, OwnersApart, OpenIsOwned
<1>1. ASSUME NEW c \in Conns, Connect(c)
      PROVE  BacklogOnce' /\ OwnersApart' /\ OpenIsOwned'
  <2>1. /\ backlog' = Append(backlog, c) /\ peer[c] = "away"
        /\ peer' = [peer EXCEPT ![c] = "backlog"]
        /\ UNCHANGED <<acceptor, hand, tasks, worker, sock>>
    BY <1>1 DEF Connect
  <2>2. BacklogOnce'
    <3>1. \A i \in 1 .. Len(backlog) : backlog[i] \in Conns /\ backlog[i] # c
      BY <2>1
    <3>2. Len(backlog') = Len(backlog) + 1 /\ backlog'[Len(backlog) + 1] = c
          /\ \A i \in 1 .. Len(backlog) : backlog'[i] = backlog[i]
      BY <2>1
    <3>3. \A i \in 1 .. Len(backlog') : i \in 1 .. Len(backlog) \/ i = Len(backlog) + 1
      BY <3>2
    <3> QED BY <2>1, <3>1, <3>2, <3>3
  <2>3. OwnersApart'
    BY <2>1
  <2>4. OpenIsOwned'
    BY <2>1
  <2> QED BY <2>2, <2>3, <2>4
<1>2. ASSUME NEW ok \in BOOLEAN, AcceptHandshake(ok)
      PROVE  BacklogOnce' /\ OwnersApart' /\ OpenIsOwned'
  <2> DEFINE c == Head(backlog)
  <2>1. /\ backlog # <<>> /\ backlog' = Tail(backlog) /\ acceptor = "accepting" /\ hand = NoConn
        /\ peer' = [peer EXCEPT ![c] = IF ok THEN "open" ELSE "closed"]
        /\ acceptor' = (IF ok THEN "enqueueing" ELSE "accepting")
        /\ hand' = (IF ok THEN c ELSE NoConn)
        /\ UNCHANGED <<tasks, worker, sock>>
    BY <1>2 DEF AcceptHandshake
  <2>2. c \in Conns /\ c = backlog[1] /\ peer[c] = "backlog"
    BY <2>1
  <2>3. Len(backlog') = Len(backlog) - 1
        /\ \A i \in 1 .. Len(backlog') : backlog'[i] = backlog[i + 1] /\ i + 1 \in 1 .. Len(backlog)
    BY <2>1
  <2> HIDE DEF c
  <2>4. \A i \in 1 .. Len(backlog') : backlog'[i] # c
    BY <2>1, <2>2, <2>3
  <2>5. BacklogOnce'
    BY <2>1, <2>2, <2>3, <2>4
  <2>6. /\ \A i \in 1 .. Len(tasks) : tasks[i] # c
        /\ \A w \in Workers : sock[w] # c
    BY <2>2, SMTT(40)
  <2>7. OwnersApart'
    BY <2>1, <2>2, <2>6
  <2>8. OpenIsOwned'
    BY <2>1, <2>2, <2>6, SMTT(40)
  <2> QED BY <2>5, <2>7, <2>8
<1> QED BY <1>1, <1>2, ZenonT(60)

\* A socket goes from the accept loop to the queue.
LEMMA PushKeeps ==
  ASSUME OwnerInv, EnqueuePush(MaxQueued, TRUE)
  PROVE  BacklogOnce' /\ OwnersApart' /\ OpenIsOwned'
<1> USE ConnsAssumption DEF OwnerInv, TypeInv, TypeOK, BacklogOnce, OwnersApart, OpenIsOwned
<1>1. /\ tasks' = Append(tasks, hand) /\ hand' = NoConn /\ hand \in Conns
      /\ UNCHANGED <<backlog, peer, sock>>
  BY DEF EnqueuePush, HandFull
<1>2. /\ Len(tasks') = Len(tasks) + 1 /\ tasks'[Len(tasks) + 1] = hand
      /\ \A i \in 1 .. Len(tasks) : tasks'[i] = tasks[i] /\ tasks[i] \in Conns
  BY <1>1
<1>3. \A i \in 1 .. Len(tasks') : i \in 1 .. Len(tasks) \/ i = Len(tasks) + 1
  BY <1>2
<1>4. \A w \in Workers : worker'[w] = worker[w] \/ {worker[w], worker'[w]} \subseteq {"asleep", "ready"}
  BY DEF EnqueuePush, NotifyWorker, Asleep, WorkerStates
<1>5. BacklogOnce'
  BY <1>1
<1>6. OwnersApart'
  <2>1. \A w \in Workers : worker'[w] \in {"popped", "serving"} <=> sock'[w] # NoConn
    BY <1>1, <1>4
  <2>2. \A i, j \in 1 .. Len(tasks') : tasks'[i] = tasks'[j] => i = j
    BY <1>2, <1>3, SMTT(40)
  <2>3. \A i \in 1 .. Len(tasks'), w \in Workers : tasks'[i] # sock'[w]
    BY <1>1, <1>2, <1>3
  <2>4. \A i \in 1 .. Len(tasks') : tasks'[i] # hand'
    BY <1>1, <1>2, <1>3
  <2> QED BY <1>1, <2>1, <2>2, <2>3, <2>4
<1>7. OpenIsOwned'
  <2> SUFFICES ASSUME NEW c \in Conns
               PROVE  peer'[c] = "open" <=> \/ hand' = c
                                            \/ \E i \in 1 .. Len(tasks') : tasks'[i] = c
                                            \/ \E w \in Workers : sock'[w] = c
    OBVIOUS
  <2>1. (\E i \in 1 .. Len(tasks') : tasks'[i] = c)
          <=> hand = c \/ \E i \in 1 .. Len(tasks) : tasks[i] = c
    BY <1>1, <1>2, <1>3
  <2> QED BY <1>1, <2>1, SMTT(40)
<1> QED BY <1>5, <1>6, <1>7

\* ... and from the queue to a session.
LEMMA TakeKeeps ==
  ASSUME OwnerInv, NEW w \in Workers, WorkerTake(w)
  PROVE  BacklogOnce' /\ OwnersApart' /\ OpenIsOwned'
<1> USE ConnsAssumption DEF OwnerInv, TypeInv, TypeOK, BacklogOnce, OwnersApart, OpenIsOwned
<1>1. CASE tasks = <<>>
  <2>1. /\ UNCHANGED <<backlog, peer, acceptor, hand, tasks, sock>> /\ worker[w] = "ready"
        /\ worker' = [worker EXCEPT ![w] = "asleep"]
    BY <1>1 DEF WorkerTake
  <2>2. \A v \in Workers : worker'[v] \in {"popped", "serving"} <=> sock[v] # NoConn
    BY <2>1
  <2> QED BY <2>1, <2>2, SameSockets
<1>2. CASE tasks # <<>>
  <2> DEFINE c == Head(tasks)
  <2>1. /\ UNCHANGED <<backlog, peer, acceptor, hand>> /\ worker[w] = "ready"
        /\ tasks' = Tail(tasks) /\ sock' = [sock EXCEPT ![w] = c]
        /\ worker' = [worker EXCEPT ![w] = "popped"]
    BY <1>2 DEF WorkerTake
  <2>2. c \in Conns /\ c = tasks[1] /\ 1 \in 1 .. Len(tasks) /\ sock[w] = NoConn
    BY <1>2, <2>1, SMTT(40)
  <2>3. Len(tasks') = Len(tasks) - 1
        /\ \A i \in 1 .. Len(tasks') : tasks'[i] = tasks[i + 1] /\ i + 1 \in 1 .. Len(tasks)
    BY <1>2, <2>1
  <2>4. \A i \in 1 .. Len(tasks) : i = 1 \/ i - 1 \in 1 .. Len(tasks')
    BY <2>3
  <2> HIDE DEF c
  <2>5. \A v \in Workers : sock'[v] = (IF v = w THEN c ELSE sock[v])
    BY <2>1
  <2>6. BacklogOnce'
    BY <2>1
  <2>7. OwnersApart'
    <3>1. \A v \in Workers : worker'[v] \in {"popped", "serving"} <=> sock'[v] # NoConn
      BY <2>1, <2>2, <2>5
    <3>2. \A i, j \in 1 .. Len(tasks') : tasks'[i] = tasks'[j] => i = j
      BY <2>3, SMTT(40)
    <3>3. \A v, u \in Workers : sock'[v] = sock'[u] /\ sock'[v] # NoConn => v = u
      BY <2>2, <2>5
    <3>4. \A i \in 1 .. Len(tasks') : tasks'[i] # hand' /\ tasks'[i] # c
      BY <2>1, <2>2, <2>3, SMTT(40)
    <3>5. \A i \in 1 .. Len(tasks'), v \in Workers : tasks'[i] # sock'[v]
      <4>1. ASSUME NEW i \in 1 .. Len(tasks'), NEW v \in Workers
            PROVE  tasks'[i] # sock'[v]
        <5>1. tasks'[i] # c /\ tasks'[i] # sock[v]
          BY <2>3, <3>4
        <5> QED BY <2>5, <5>1
      <4> QED BY <4>1
    <3>6. \A v \in Workers : sock'[v] # NoConn => sock'[v] # hand'
      BY <2>1, <2>2, <2>5
    <3> QED BY <2>1, <3>1, <3>2, <3>3, <3>4, <3>5, <3>6
  <2>8. OpenIsOwned'
    <3> SUFFICES ASSUME NEW d \in Conns
                 PROVE  peer'[d] = "open" <=> \/ hand' = d
                                              \/ \E i \in 1 .. Len(tasks') : tasks'[i] = d
                                              \/ \E v \in Workers : sock'[v] = d
      OBVIOUS
    <3>1. (\E i \in 1 .. Len(tasks) : tasks[i] = d)
            <=> c = d \/ \E i \in 1 .. Len(tasks') : tasks'[i] = d
      <4>1. ASSUME NEW i \in 1 .. Len(tasks), tasks[i] = d, c # d
            PROVE  \E j \in 1 .. Len(tasks') : tasks'[j] = d
        <5>1. i - 1 \in 1 .. Len(tasks') /\ i = (i - 1) + 1
          BY <2>2, <2>4, <4>1
        <5>2. tasks'[i - 1] = tasks[i]
          BY <2>3, <5>1
        <5> QED BY <4>1, <5>1, <5>2
      <4> QED BY <2>2, <2>3, <4>1, SMTT(40)
    <3>2. (\E v \in Workers : sock'[v] = d) <=> c = d \/ \E v \in Workers : sock[v] = d
      BY <2>2, <2>5, ZenonT(60)
    <3> QED BY <2>1, <3>1, <3>2
  <2> QED BY <2>6, <2>7, <2>8
<1> QED BY <1>1, <1>2

\* A session goes on, and ends with its socket.
LEMMA SessionKeeps ==
  ASSUME OwnerInv, NEW w \in Workers, NotifyEnqueue(w) \/ SessionEnds(w)
  PROVE  BacklogOnce' /\ OwnersApart' /\ OpenIsOwned'
<1> USE ConnsAssumption DEF OwnerInv, TypeInv, TypeOK, BacklogOnce, OwnersApart, OpenIsOwned
<1>1. CASE NotifyEnqueue(w)
  <2>1. UNCHANGED <<backlog, peer, hand, tasks, sock>> /\ worker[w] = "popped"
        /\ worker' = [worker EXCEPT ![w] = "serving"]
        /\ (acceptor' = "accepting" <=> acceptor = "accepting")
    BY <1>1 DEF NotifyEnqueue
  <2>2. \A v \in Workers : worker'[v] \in {"popped", "serving"} <=> sock[v] # NoConn
    BY <2>1
  <2> QED BY <2>1, <2>2, SameSockets
<1>2. CASE SessionEnds(w)
  <2> DEFINE c == sock[w]
  <2>1. /\ UNCHANGED <<backlog, acceptor, hand, tasks>> /\ worker[w] = "serving"
        /\ peer' = [peer EXCEPT ![c] = "closed"]
        /\ sock' = [sock EXCEPT ![w] = NoConn] /\ worker' = [worker EXCEPT ![w] = "ready"]
    BY <1>2 DEF SessionEnds
  <2>2. c \in Conns /\ peer[c] = "open"
    BY <2>1
  <2>3. \A v \in Workers : sock'[v] = (IF v = w THEN NoConn ELSE sock[v]) /\ (v # w => sock[v] # c)
    BY <2>1, <2>2
  <2>4. c # hand /\ \A i \in 1 .. Len(tasks) : tasks[i] # c
    BY <2>2
  <2> HIDE DEF c
  <2>5. BacklogOnce'
    <3>1. \A i \in 1 .. Len(backlog) : backlog[i] # c /\ backlog[i] \in Conns
      BY <2>2
    <3> QED BY <2>1, <3>1
  <2>6. OwnersApart'
    <3>1. \A v \in Workers : worker'[v] \in {"popped", "serving"} <=> sock'[v] # NoConn
      BY <2>1, <2>3
    <3>2. \A i \in 1 .. Len(tasks), v \in Workers : tasks[i] # sock'[v]
      BY <2>3
    <3>3. \A v, u \in Workers : sock'[v] = sock'[u] /\ sock'[v] # NoConn => v = u
      BY <2>3
    <3>4. \A v \in Workers : sock'[v] # NoConn => sock'[v] # hand
      BY <2>3
    <3>5. /\ acceptor' = "accepting" => hand' = NoConn
          /\ \A i, j \in 1 .. Len(tasks') : tasks'[i] = tasks'[j] => i = j
          /\ \A i \in 1 .. Len(tasks') : tasks'[i] # hand'
      BY <2>1
    <3> QED BY <2>1, <3>1, <3>2, <3>3, <3>4, <3>5
  <2>7. OpenIsOwned'
    <3> SUFFICES ASSUME NEW d \in Conns
                 PROVE  peer'[d] = "open" <=> \/ hand' = d
                                              \/ \E i \in 1 .. Len(tasks') : tasks'[i] = d
                                              \/ \E v \in Workers : sock'[v] = d
      OBVIOUS
    <3>1. CASE d = c
      BY <2>1, <2>2, <2>3, <2>4, <3>1
    <3>2. CASE d # c
      <4>1. (\E v \in Workers : sock'[v] = d) <=> \E v \in Workers : sock[v] = d
        BY <2>3, <3>2 DEF c
      <4> QED BY <2>1, <3>2, <4>1
    <3> QED BY <3>1, <3>2
  <2> QED BY <2>5, <2>6, <2>7
<1> QED BY <1>1, <1>2

\* Blocking in enqueue and waking for nothing move no socket.
LEMMA RestKeeps ==
  ASSUME OwnerInv, EnqueueBlocks \/ SpuriousWakeup \/ UNCHANGED vars
  PROVE  BacklogOnce' /\ OwnersApart' /\ OpenIsOwned'
<1> USE DEF OwnerInv, TypeInv, TypeOK, OwnersApart
<1>1. UNCHANGED <<backlog, peer, hand, tasks, sock>> /\ (acceptor' = "accepting" => acceptor = "accepting")
  BY DEF EnqueueBlocks, SpuriousWakeup, vars
<1>2. \A w \in Workers : worker'[w] = worker[w] \/ {worker[w], worker'[w]} \subseteq {"asleep", "ready"}
  BY DEF EnqueueBlocks, SpuriousWakeup, Asleep, vars, WorkerStates
<1>3. \A w \in Workers : worker'[w] \in {"popped", "serving"} <=> sock[w] # NoConn
  BY <1>2
<1> QED BY <1>1, <1>3, SameSockets

\* Every step keeps OwnerInv.
LEMMA OwnerStep == OwnerInv /\ [Next]_vars => OwnerInv'
<1> SUFFICES ASSUME OwnerInv, [Next]_vars PROVE OwnerInv'
  OBVIOUS
<1>1. TypeInv'
  BY TypeInvStep DEF OwnerInv
<1>2. BacklogOnce' /\ OwnersApart' /\ OpenIsOwned'
  BY BacklogKeeps, PushKeeps, TakeKeeps, SessionKeeps, RestKeeps DEF Next, Enqueue
<1> QED BY <1>1, <1>2 DEF OwnerInv

\* A set of at most one element has as many as it has.
LEMMA CountOne ==
  ASSUME NEW S, NEW x, S \subseteq {x}
  PROVE  Cardinality(S) = IF S = {} THEN 0 ELSE 1
BY FS_EmptySet, FS_Singleton, SMTT(40)

\* Owners apart, and open exactly when owned, is one owner each.
LEMMA OwnerCount == OwnerInv => OneOwner
<1> SUFFICES ASSUME OwnerInv, NEW c \in Conns
             PROVE  LET queued == {i \in 1..Len(tasks) : tasks[i] = c}
                        held == {w \in Workers : sock[w] = c}
                        atHand == IF hand = c THEN 1 ELSE 0
                    IN  atHand + Cardinality(queued) + Cardinality(held)
                          = IF c \in Open THEN 1 ELSE 0
  BY DEF OneOwner
<1> DEFINE queued == {i \in 1..Len(tasks) : tasks[i] = c}
           held == {w \in Workers : sock[w] = c}
<1>1. Cardinality(queued) = IF queued = {} THEN 0 ELSE 1
  <2>1. \E x : queued \subseteq {x}
    <3>1. CASE queued = {}
      BY <3>1
    <3>2. CASE queued # {}
      <4>1. PICK x \in queued : TRUE
        BY <3>2
      <4> QED BY <4>1, ZenonT(60) DEF OwnerInv, OwnersApart
    <3> QED BY <3>1, <3>2
  <2> QED BY <2>1, CountOne
<1>2. Cardinality(held) = IF held = {} THEN 0 ELSE 1
  <2>1. \E x : held \subseteq {x}
    <3>1. CASE held = {}
      BY <3>1
    <3>2. CASE held # {}
      <4>1. PICK x \in held : TRUE
        BY <3>2
      <4> QED BY <4>1, ConnsAssumption DEF OwnerInv, OwnersApart
    <3> QED BY <3>1, <3>2
  <2> QED BY <2>1, CountOne
<1>3. c \in Open <=> hand = c \/ queued # {} \/ held # {}
  BY DEF OwnerInv, OpenIsOwned, Open
<1>4. /\ hand = c => queued = {} /\ held = {}
      /\ queued # {} => held = {}
  BY ConnsAssumption DEF OwnerInv, OwnersApart
<1> HIDE DEF queued, held
<1>5. (IF hand = c THEN 1 ELSE 0) + Cardinality(queued) + Cardinality(held)
        = IF c \in Open THEN 1 ELSE 0
  BY <1>1, <1>2, <1>3, <1>4
<1> QED BY <1>5 DEF queued, held

\* Every accepted socket has exactly one owner at every moment, for any number of
\* workers: none is leaked between the accept loop and the pool, and none is
\* given to two sessions.
THEOREM SocketsHaveOneOwner == Spec => []OneOwner
BY OwnerInit, OwnerStep, OwnerCount, PTL DEF Spec
============================================================================
