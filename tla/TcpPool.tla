------------------------------ MODULE TcpPool ------------------------------
(***************************************************************************)
(* The bounded thread pool that serves TCP data-plane clients in           *)
(* `-i usb+tcp` mode, and the accept loop that feeds it                    *)
(* (fastboot/device/main.cpp: ThreadPool, RunTcpAcceptLoop).               *)
(*                                                                         *)
(* One acceptor thread and one thread per member of Workers share tasks_   *)
(* under mutex_.  A critical section is one step: the predicate of a       *)
(* condition-variable wait is evaluated and the thread is added to the     *)
(* wait set without the mutex being released in between.  The worker's     *)
(* cv_enqueue_.notify_one() is outside the critical section and is a step  *)
(* of its own.  stop_ never becomes true: the pool is destroyed only when  *)
(* RunTcpAcceptLoop returns, and its loop has no exit.                     *)
(***************************************************************************)
EXTENDS Naturals, Sequences, FiniteSets

CONSTANTS Workers,  \* the pool's threads, GetMaxTcpWorkers() of them
          Conns,    \* client connections, by identity
          NoConn    \* a moved-from or null socket

ASSUME WorkersAssumption == IsFiniteSet(Workers) /\ Workers # {}
ASSUME ConnsAssumption == NoConn \notin Conns

VARIABLES
  backlog,   \* connections waiting in the kernel's listen queue
  peer,      \* what has become of each connection
  acceptor,  \* where the accept loop is
  hand,      \* the socket AcceptHandshake returned, not yet in tasks_
  tasks,     \* tasks_
  worker,    \* where each worker is in WorkerLoop
  sock       \* the socket owned by the session a worker runs

vars == <<backlog, peer, acceptor, hand, tasks, worker, sock>>

MaxQueued == Cardinality(Workers)

PeerStates == {"away", "backlog", "open", "closed"}
AcceptorStates == {"accepting", "enqueueing", "blocked"}
WorkerStates == {"ready", "asleep", "popped", "serving"}

Asleep == {w \in Workers : worker[w] = "asleep"}   \* in cv_workers_.wait
Ready == {w \in Workers : worker[w] = "ready"}     \* about to take mutex_
Open == {c \in Conns : peer[c] = "open"}

\* Wake one thread blocked on cv_workers_, if there is one.
NotifyWorker ==
  IF Asleep = {} THEN UNCHANGED worker
  ELSE \E w \in Asleep : worker' = [worker EXCEPT ![w] = "ready"]
----------------------------------------------------------------------------
Init ==
  /\ backlog = <<>>
  /\ peer = [c \in Conns |-> "away"]
  /\ acceptor = "accepting"
  /\ hand = NoConn
  /\ tasks = <<>>
  /\ worker = [w \in Workers |-> "ready"]
  /\ sock = [w \in Workers |-> NoConn]

\* A client connects; the kernel queues it in arrival order.
Connect(c) ==
  /\ peer[c] = "away"
  /\ peer' = [peer EXCEPT ![c] = "backlog"]
  /\ backlog' = Append(backlog, c)
  /\ UNCHANGED <<acceptor, hand, tasks, worker, sock>>

\* Accept the oldest connection and exchange "FB01" within the 2 s handshake
\* timeout.  A failed or late handshake closes the socket and the loop goes on.
AcceptHandshake(ok) ==
  /\ acceptor = "accepting"
  /\ backlog # <<>>
  /\ backlog' = Tail(backlog)
  /\ peer' = [peer EXCEPT ![Head(backlog)] = IF ok THEN "open" ELSE "closed"]
  /\ acceptor' = IF ok THEN "enqueueing" ELSE "accepting"
  /\ hand' = IF ok THEN Head(backlog) ELSE NoConn
  /\ UNCHANGED <<tasks, worker, sock>>

EnqueueBlocks ==
  /\ acceptor = "enqueueing"
  /\ Len(tasks) >= MaxQueued
  /\ acceptor' = "blocked"
  /\ UNCHANGED <<backlog, peer, hand, tasks, worker, sock>>

EnqueuePush(bound, notify) ==
  /\ acceptor = "enqueueing"
  /\ Len(tasks) < bound
  /\ tasks' = Append(tasks, hand)
  /\ hand' = NoConn
  /\ acceptor' = "accepting"
  /\ IF notify THEN NotifyWorker ELSE UNCHANGED worker
  /\ UNCHANGED <<backlog, peer, sock>>

\* Mutants of Enqueue: the worker is not notified; the bound is not applied.
EnqueueSilent == EnqueueBlocks \/ EnqueuePush(MaxQueued, FALSE)
EnqueueUnbounded == EnqueuePush(Len(tasks) + 1, TRUE)

\* ThreadPool::Enqueue: wait for room, push, cv_workers_.notify_one().
Enqueue == EnqueueBlocks \/ EnqueuePush(MaxQueued, TRUE)

\* Mutant of WorkerTake: the task is run but left at the head of the queue.
WorkerTakeKeep(w) ==
  /\ worker[w] = "ready"
  /\ tasks # <<>>
  /\ sock' = [sock EXCEPT ![w] = Head(tasks)]
  /\ worker' = [worker EXCEPT ![w] = "popped"]
  /\ UNCHANGED <<backlog, peer, acceptor, hand, tasks>>

\* WorkerLoop under mutex_: take the front task, or sleep if there is none.
WorkerTake(w) ==
  /\ worker[w] = "ready"
  /\ \/ /\ tasks = <<>>
        /\ worker' = [worker EXCEPT ![w] = "asleep"]
        /\ UNCHANGED <<tasks, sock>>
     \/ /\ tasks # <<>>
        /\ tasks' = Tail(tasks)
        /\ sock' = [sock EXCEPT ![w] = Head(tasks)]
        /\ worker' = [worker EXCEPT ![w] = "popped"]
  /\ UNCHANGED <<backlog, peer, acceptor, hand>>

\* Mutant of NotifyEnqueue: the notification is lost.
NotifyEnqueueLost(w) ==
  /\ worker[w] = "popped"
  /\ worker' = [worker EXCEPT ![w] = "serving"]
  /\ UNCHANGED <<backlog, peer, acceptor, hand, tasks, sock>>

\* cv_enqueue_.notify_one(), with mutex_ already released; then task() runs.
NotifyEnqueue(w) ==
  /\ worker[w] = "popped"
  /\ worker' = [worker EXCEPT ![w] = "serving"]
  /\ acceptor' = IF acceptor = "blocked" THEN "enqueueing" ELSE acceptor
  /\ UNCHANGED <<backlog, peer, hand, tasks, sock>>

\* ExecuteCommands returned (the peer closed, or the transport failed): the
\* FastbootDevice is destroyed, which closes the socket and frees its buffer.
SessionEnds(w) ==
  /\ worker[w] = "serving"
  /\ peer' = [peer EXCEPT ![sock[w]] = "closed"]
  /\ sock' = [sock EXCEPT ![w] = NoConn]
  /\ worker' = [worker EXCEPT ![w] = "ready"]
  /\ UNCHANGED <<backlog, acceptor, hand, tasks>>

\* A condition variable may wake a waiter that nobody notified.
SpuriousWakeup ==
  \/ /\ \E w \in Asleep : worker' = [worker EXCEPT ![w] = "ready"]
     /\ UNCHANGED <<backlog, peer, acceptor, hand, tasks, sock>>
  \/ /\ acceptor = "blocked"
     /\ acceptor' = "enqueueing"
     /\ UNCHANGED <<backlog, peer, hand, tasks, worker, sock>>

Next ==
  \/ \E c \in Conns : Connect(c)
  \/ \E ok \in BOOLEAN : AcceptHandshake(ok)
  \/ Enqueue
  \/ \E w \in Workers : WorkerTake(w) \/ NotifyEnqueue(w) \/ SessionEnds(w)
  \/ SpuriousWakeup

Spec == Init /\ [][Next]_vars

\* Every thread runs when it can, and every session ends: its client goes
\* away at last, or the transport fails.  Nothing wakes a sleeping thread but
\* a notification: SpuriousWakeup is not fair.
Fairness ==
  /\ WF_vars(\E ok \in BOOLEAN : AcceptHandshake(ok))
  /\ WF_vars(Enqueue)
  /\ \A w \in Workers :
        /\ WF_vars(WorkerTake(w))
        /\ WF_vars(NotifyEnqueue(w))
        /\ WF_vars(SessionEnds(w))

FairSpec == Spec /\ Fairness
----------------------------------------------------------------------------
\* Every variable has its type, and the queue never exceeds max_queued_: open
\* sockets stay within the budget the pool is there for ("Enqueue blocks when
\* the queue is full so the accept loop doesn't outrun the workers",
\* main.cpp:79-80).
TypeOK ==
  /\ backlog \in Seq(Conns)
  /\ peer \in [Conns -> PeerStates]
  /\ acceptor \in AcceptorStates
  /\ hand \in Conns \cup {NoConn}
  /\ tasks \in Seq(Conns)
  /\ Len(tasks) <= MaxQueued
  /\ worker \in [Workers -> WorkerStates]
  /\ sock \in [Workers -> Conns \cup {NoConn}]

\* Lost wakeup, worker side: while a task is queued the pool is never left
\* with a worker asleep and too few workers awake to take the queued tasks
\* (the cv_workers_.notify_one() of Enqueue against the wait of WorkerLoop).
NoTaskStranded == Asleep # {} => Len(tasks) <= Cardinality(Ready)

\* Lost wakeup, acceptor side: the accept loop sleeps in Enqueue only while
\* the queue is full or a worker that made room has its notification to send.
\* The notify_one() of WorkerLoop runs after the mutex is released.
AcceptorNotStranded ==
  acceptor = "blocked" =>
    Len(tasks) = MaxQueued \/ \E w \in Workers : worker[w] = "popped"

\* Every socket that passed the handshake has exactly one owner: the accept
\* loop, one queued task or one session.  None is leaked, and none is served
\* by two workers.
OneOwner ==
  \A c \in Conns :
    LET queued == {i \in 1..Len(tasks) : tasks[i] = c}
        held == {w \in Workers : sock[w] = c}
        atHand == IF hand = c THEN 1 ELSE 0
    IN  atHand + Cardinality(queued) + Cardinality(held)
          = IF c \in Open THEN 1 ELSE 0

\* A client that connects is served and let go, or refused, whatever the order
\* of the threads: nobody starves in the backlog, in the accept loop's hand or
\* in the queue.
EveryClientFinishes ==
  \A c \in Conns : peer[c] = "backlog" ~> peer[c] = "closed"
============================================================================
