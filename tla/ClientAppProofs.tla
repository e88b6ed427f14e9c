--------------------------- MODULE ClientAppProofs ---------------------------
(***************************************************************************)
(* The bookkeeping of LoadGenerator is right for any number of threads,    *)
(* commands and messages, in every interleaving with the main loop.        *)
(***************************************************************************)
EXTENDS ClientApp, FiniteSetTheorems, TLAPS

ThreadFields == {"state", "limit", "produced"}
Joining == {"join", "join bootstrap", "final join"}

\* The two properties together with the shape of the table of threads. They
\* need each other only through Joined: stop_all stores 0 where no thread
\* is left, and while it waits the main thread cannot spawn.
LoadOK ==
  /\ DOMAIN worker = Worker
  /\ \A w \in Worker : DOMAIN worker[w] = ThreadFields
  /\ WorkerCountExact
  /\ StoppedMeansIdle

LEMMA AliveIsFinite == IsFiniteSet(Alive) /\ IsFiniteSet(Unborn)
  BY ClientAppAssumption, FS_Subset, Zenon DEF ClientAppAssumption, Alive, Unborn

\* A step that changes neither the threads, the counter nor the stop flag
\* keeps LoadOK, if the main thread does not leave a join.
LEMMA MainOnly ==
  ASSUME LoadOK, UNCHANGED << worker, active_worker_count, stop_workers >>,
         pc \in Joining => pc' \in Joining
  PROVE  LoadOK'
<1>1. Alive' = Alive BY Zenon DEF Alive
<1> QED BY <1>1, Zenon DEF LoadOK, WorkerCountExact, StoppedMeansIdle, Joining

\* A thread that is alive stays alive: nothing is counted.
LEMMA StillAlive ==
  ASSUME LoadOK, NEW w \in Alive, NEW t, DOMAIN t = ThreadFields,
         t.state \in {"test", "push", "leave"},
         worker' = [worker EXCEPT ![w] = t],
         UNCHANGED << pc, active_worker_count, stop_workers >>
  PROVE  LoadOK'
<1>1. w \in Worker BY Zenon DEF Alive
<1>2. DOMAIN worker' = Worker BY Zenon DEF LoadOK
<1>3. \A x \in Worker : DOMAIN worker'[x] = ThreadFields BY <1>1, Zenon DEF LoadOK
<1>4. Alive' = Alive BY <1>1, Zenon DEF Alive, LoadOK
<1> QED BY <1>2, <1>3, <1>4, Zenon DEF LoadOK, WorkerCountExact, StoppedMeansIdle

LEMMA LeaveOK == ASSUME LoadOK, NEW w \in Worker, WorkerLeave(w) PROVE LoadOK'
<1>1. w \in Alive BY Zenon DEF WorkerLeave, Alive
<1>2. /\ DOMAIN worker' = Worker
      /\ \A x \in Worker : DOMAIN worker'[x] = ThreadFields
  BY Zenon DEF LoadOK, WorkerLeave, SetState
<1>3. Alive' = Alive \ {w}
  BY Zenon DEF Alive, LoadOK, WorkerLeave, SetState, ThreadFields
<1>4. Cardinality(Alive \ {w}) = Cardinality(Alive) - 1
  BY <1>1, AliveIsFinite, FS_RemoveElement, Zenon
<1>5. WorkerCountExact'
  BY <1>3, <1>4, Zenon DEF LoadOK, WorkerCountExact, WorkerLeave, CountAfterLeaving
<1>6. StoppedMeansIdle'
  BY <1>3, Zenon DEF LoadOK, StoppedMeansIdle, WorkerLeave, main_vars
<1> QED BY <1>2, <1>5, <1>6, Zenon DEF LoadOK

LEMMA SpawnOK ==
  ASSUME LoadOK, NEW n, NEW limit, spawn(n, limit)
  PROVE  LoadOK'
<1>1. PICK started \in SUBSET Unborn :
        /\ Cardinality(started) = n
        /\ active_worker_count' = active_worker_count + n
        /\ worker' = [w \in Worker |->
             IF w \in started
             THEN [state |-> "test", limit |-> limit, produced |-> 0]
             ELSE worker[w]]
  BY Zenon DEF spawn
<1>2. /\ DOMAIN worker' = Worker
      /\ \A x \in Worker : DOMAIN worker'[x] = ThreadFields
  BY <1>1, Zenon DEF LoadOK, ThreadFields
<1>3. Alive' = Alive \cup started /\ Alive \cap started = {}
  BY <1>1, Zenon DEF Alive, Unborn
<1>4. IsFiniteSet(started) BY <1>1, AliveIsFinite, FS_Subset, Zenon
<1>5. Cardinality(Alive \cup started) = Cardinality(Alive) + Cardinality(started)
  <2>1. Cardinality(Alive \cap started) = 0 BY <1>3, FS_EmptySet, Zenon
  <2>2. Cardinality(Alive) \in Nat /\ Cardinality(started) \in Nat
    BY <1>4, AliveIsFinite, FS_CardinalityType, Zenon
  <2>3. IsFiniteSet(Alive) BY AliveIsFinite, Zenon
  <2>4. Cardinality(Alive \cup started) =
          Cardinality(Alive) + Cardinality(started) - Cardinality(Alive \cap started)
    BY <1>4, <2>3, FS_Union, Zenon
  <2> QED BY <2>1, <2>2, <2>4
<1>6. WorkerCountExact'
  BY <1>1, <1>3, <1>5, Zenon DEF LoadOK, WorkerCountExact
<1>7. StoppedMeansIdle' BY Zenon DEF spawn, StoppedMeansIdle
<1> QED BY <1>2, <1>6, <1>7, Zenon DEF LoadOK

\* The bootstrap commands and the lines of the user are processed in order;
\* only /stop-load and spawn touch the workers.
LEMMA CommandOK == ASSUME LoadOK, ProcessCommand PROVE LoadOK'
<1> DEFINE c == Head(todo)
<1>1. pc \in {"command", "bootstrap"} BY Zenon DEF ProcessCommand
<1>2. CASE c.kind = "/stop-load" /\ stop_workers' = TRUE
           /\ pc' = (IF pc = "bootstrap" THEN "join bootstrap" ELSE "join")
           /\ UNCHANGED << active_worker_count, worker >>
  <2>1. Alive' = Alive BY <1>2, Zenon DEF Alive
  <2> QED BY <1>2, <2>1, Zenon DEF LoadOK, WorkerCountExact, StoppedMeansIdle
<1>3. CASE spawn(c.thread_count, c.message_count)
  BY <1>3, SpawnOK, Zenon
<1>4. CASE UNCHANGED load_vars
  BY <1>1, <1>4, MainOnly, Zenon DEF load_vars, Joining
<1> QED BY <1>2, <1>3, <1>4, Zenon DEF ProcessCommand

LEMMA StopAllReturnsOK == ASSUME LoadOK, StopAllReturns PROVE LoadOK'
<1>1. Alive' = Alive /\ Alive = {} BY Zenon DEF StopAllReturns, Joined, Alive
<1>2. WorkerCountExact' BY <1>1, FS_EmptySet, Zenon DEF StopAllReturns, WorkerCountExact
<1>3. StoppedMeansIdle' BY <1>1, Zenon DEF StoppedMeansIdle
<1> QED BY <1>2, <1>3, Zenon DEF LoadOK, StopAllReturns

\* Every step of the client program keeps LoadOK.
LEMMA LoadStep == ASSUME LoadOK, [Next]_vars PROVE LoadOK'
<1> USE DEF main_vars, user_vars, load_vars, Joining
<1>1. CASE LoopHead \/ Select \/ Receive \/ GetLine \/ CommandsDone
  BY <1>1, MainOnly, Zenon DEF LoopHead, Select, Receive, GetLine, CommandsDone
<1>2. CASE Drain \/ Poll \/ LoopTail
  BY <1>2, MainOnly, Zenon DEF Drain, Poll, LoopTail
<1>3. CASE ProcessCommand BY <1>3, CommandOK, Zenon
<1>4. CASE StopAllReturns BY <1>4, StopAllReturnsOK, Zenon
<1>5. CASE Exit
  <2>1. Alive' = Alive BY <1>5, Zenon DEF Exit, Alive
  <2> QED BY <1>5, <2>1, Zenon DEF Exit, LoadOK, WorkerCountExact, StoppedMeansIdle
<1>6. ASSUME NEW w \in Worker, WorkerStep(w) PROVE LoadOK'
  <2>1. CASE WorkerTest(w)
    <3> DEFINE t == [worker[w] EXCEPT !.state = IF Continues(w) THEN "push" ELSE "leave"]
    <3>1. w \in Alive BY <2>1, Zenon DEF WorkerTest, Alive
    <3>2. DOMAIN t = ThreadFields /\ t.state \in {"test", "push", "leave"}
      BY Zenon DEF LoadOK, ThreadFields
    <3>3. /\ worker' = [worker EXCEPT ![w] = t]
          /\ UNCHANGED << pc, active_worker_count, stop_workers >>
      BY <2>1, Zenon DEF WorkerTest, SetState
    <3> HIDE DEF t
    <3> QED BY <3>1, <3>2, <3>3, StillAlive, Zenon
  <2>2. CASE WorkerPush(w)
    <3> DEFINE t == [worker[w] EXCEPT !.state = "test", !.produced = @ + 1]
    <3>1. w \in Alive BY <2>2, Zenon DEF WorkerPush, Alive
    <3>2. DOMAIN t = ThreadFields /\ t.state \in {"test", "push", "leave"}
      BY Zenon DEF LoadOK, ThreadFields
    <3>3. /\ worker' = [worker EXCEPT ![w] = t]
          /\ UNCHANGED << pc, active_worker_count, stop_workers >>
      BY <2>2, Zenon DEF WorkerPush, LoadOK
    <3> HIDE DEF t
    <3> QED BY <3>1, <3>2, <3>3, StillAlive, Zenon
  <2>3. CASE WorkerLeave(w) BY <2>3, LeaveOK, Zenon
  <2> QED BY <1>6, <2>1, <2>2, <2>3, Zenon DEF WorkerStep
<1>7. CASE StopSignal BY <1>7, MainOnly, Zenon DEF StopSignal
<1>8. CASE Type BY <1>8, MainOnly, Zenon DEF Type
<1>9. CASE Rest \/ UNCHANGED vars BY <1>9, MainOnly, Zenon DEF Rest, vars
<1> QED
  BY <1>1, <1>2, <1>3, <1>4, <1>5, <1>6, <1>7, <1>8, <1>9, Zenon DEF Next, MainStep

\* The inductive invariant holds always.
LEMMA LoadAlwaysOK == Spec => []LoadOK
<1>1. Init => LoadOK
  <2> SUFFICES ASSUME Init PROVE LoadOK BY Zenon
  <2>1. Alive = {} BY Zenon DEF Init, Alive
  <2> QED BY <2>1, FS_EmptySet
   , Zenon DEF Init, LoadOK, ThreadFields, WorkerCountExact, StoppedMeansIdle
<1>2. LoadOK /\ [Next]_vars => LoadOK' BY LoadStep, Zenon
<1> QED BY <1>1, <1>2, PTL DEF Spec

\* What /workers shows is the number of threads that run, for any number of
\* threads: no decrement of active_worker_count_ is lost or made twice, in
\* particular the assignment of 0 in stop_all never hides a thread.
THEOREM WorkersCounted == Spec => []WorkerCountExact
<1>1. LoadOK => WorkerCountExact BY Zenon DEF LoadOK
<1> QED BY <1>1, LoadAlwaysOK, PTL

\* After stop_all has returned nothing is produced until the next spawn.
THEOREM StoppedForGood == Spec => []StoppedMeansIdle
<1>1. LoadOK => StoppedMeansIdle BY Zenon DEF LoadOK
<1> QED BY <1>1, LoadAlwaysOK, PTL

-----------------------------------------------------------------------------
(* The hand-over of the payloads *)

Payload == [from : SUBSET Worker, n : Nat]

\* A payload of somebody else, wherever it is put, leaves what is known of w.
LEMMA OthersBetween ==
  ASSUME NEW w \in Worker, NEW count \in Nat, NEW a \in Seq(Payload),
         NEW b \in Seq(Payload), NEW m \in Payload, m.from # {w},
         Follows(a \o b, w, count)
  PROVE  Follows(Append(a, m) \o b, w, count)
<1> DEFINE old == a \o b
           new == Append(a, m) \o b
           at(i) == IF i <= Len(a) THEN i ELSE i + 1
           mine(s) == {i \in DOMAIN s : s[i].from = {w}}
<1>1. /\ old \in Seq(Payload) /\ Len(old) = Len(a) + Len(b)
      /\ new \in Seq(Payload) /\ Len(new) = Len(a) + 1 + Len(b)
  OBVIOUS
<1>2. new[Len(a) + 1] = m OBVIOUS
<1>3. \A i \in DOMAIN old : at(i) \in DOMAIN new /\ new[at(i)] = old[i]
  OBVIOUS
<1>4. \A j \in DOMAIN new : j # Len(a) + 1 => \E i \in DOMAIN old : j = at(i)
  <2> TAKE j \in DOMAIN new
  <2> HAVE j # Len(a) + 1
  <2>1. CASE j <= Len(a)
    <3>1. j \in DOMAIN old /\ j = at(j) BY <1>1, <2>1
    <3> QED BY <3>1, Zenon
  <2>2. CASE j > Len(a) + 1
    <3>1. j - 1 \in DOMAIN old /\ j = at(j - 1) BY <1>1, <2>2
    <3> QED BY <3>1, Zenon
  <2> QED BY <1>1, <2>1, <2>2
<1>5. \A i, j \in DOMAIN old : at(i) < at(j) => i < j BY <1>1
<1>6. DOMAIN old \subseteq Int /\ DOMAIN new \subseteq Int BY <1>1
<1>7. /\ {old[i].n : i \in mine(old)} = 0 .. count - 1
      /\ \A i, j \in mine(old) : i < j => old[i].n < old[j].n
  BY Zenon DEF Follows
<1> HIDE DEF old, new, at
<1>8. \A j \in mine(new) : \E i \in mine(old) : j = at(i) /\ new[j] = old[i]
  BY <1>2, <1>3, <1>4, Zenon
<1>9. \A i \in mine(old) : at(i) \in mine(new) /\ new[at(i)] = old[i] BY <1>3, Zenon
<1>10. {new[i].n : i \in mine(new)} = {old[i].n : i \in mine(old)}
  BY <1>8, <1>9
<1>11. \A i, j \in mine(new) : i < j => new[i].n < new[j].n
  BY <1>5, <1>7, <1>8
<1>12. Follows(new, w, count) BY <1>7, <1>10, <1>11, Zenon DEF Follows
<1> QED BY <1>12, Zenon DEF new

\* The next payload of w, put at the end.
LEMMA NextOfOwn ==
  ASSUME NEW w \in Worker, NEW count \in Nat, NEW s \in Seq(Payload),
         Follows(s, w, count)
  PROVE  Follows(Append(s, Message(w, count)), w, count + 1)
<1> DEFINE new == Append(s, Message(w, count))
           mine(q) == {i \in DOMAIN q : q[i].from = {w}}
           last == Len(s) + 1
<1>1. DOMAIN s = 1 .. Len(s) /\ DOMAIN new = 1 .. last /\ Len(s) \in Nat OBVIOUS
<1>2. \A i \in DOMAIN s : new[i] = s[i] OBVIOUS
<1>3. new[last].from = {w} /\ new[last].n = count BY DEF Message
<1>4. /\ {s[i].n : i \in mine(s)} = 0 .. count - 1
      /\ \A i, j \in mine(s) : i < j => s[i].n < s[j].n
  BY Zenon DEF Follows
<1> HIDE DEF new
<1>5. mine(new) = mine(s) \cup {last} BY <1>1, <1>2, <1>3
<1>6. {new[i].n : i \in mine(new)} = {s[i].n : i \in mine(s)} \cup {count}
  BY <1>1, <1>2, <1>3, <1>5
<1>7. (0 .. count - 1) \cup {count} = 0 .. (count + 1) - 1 OBVIOUS
<1>8. \A i, j \in mine(new) : i < j => new[i].n < new[j].n
  <2> SUFFICES ASSUME NEW i \in mine(new), NEW j \in mine(new), i < j
               PROVE  new[i].n < new[j].n
    BY Zenon
  <2>1. i \in mine(s) BY <1>1, <1>5
  <2>2. CASE j = last
    <3>1. s[i].n \in 0 .. count - 1 BY <1>4, <2>1, Zenon
    <3> QED BY <1>2, <1>3, <2>1, <2>2, <3>1
  <2>3. CASE j \in mine(s) BY <1>2, <1>4, <2>1, <2>3, Zenon
  <2> QED BY <1>5, <2>2, <2>3, Zenon
<1>9. Follows(new, w, count + 1) BY <1>4, <1>6, <1>7, <1>8, Zenon DEF Follows
<1> QED BY <1>9, Zenon DEF new

\* HandedOverInOrder with what it rests on: the shape of the two queues, and
\* a thread that has not been started has produced nothing.
HandedOK ==
  /\ queue \in Seq(Payload) /\ queued \in Seq(Payload)
  /\ \A w \in Worker : /\ worker[w].produced \in Nat
                       /\ worker[w].state = "unborn" => worker[w].produced = 0
  /\ HandedOverInOrder

\* A step that touches neither the queues nor the threads' numbers.
LEMMA NothingProduced ==
  ASSUME HandedOK, UNCHANGED << queue, queued >>,
         \A w \in Worker : /\ worker'[w].produced = worker[w].produced
                           /\ worker'[w].state = "unborn" => worker[w].state = "unborn"
  PROVE  HandedOK'
BY Zenon DEF HandedOK, HandedOverInOrder

\* push_back under the lock, while the main thread stands anywhere.
LEMMA PushHanded ==
  ASSUME LoadOK, HandedOK, NEW w \in Worker, WorkerPush(w)
  PROVE  HandedOK'
<1> DEFINE count == worker[w].produced
           m == Message(w, count)
           handed == queued \o queue
<1>1. /\ queue' = Append(queue, m) /\ UNCHANGED queued
      /\ worker'[w].produced = count + 1 /\ worker'[w].state = "test"
      /\ \A x \in Worker : x # w => worker'[x] = worker[x]
  BY Zenon DEF WorkerPush, LoadOK, ThreadFields
<1>2. /\ queue \in Seq(Payload) /\ queued \in Seq(Payload) /\ count \in Nat
      /\ \A x \in Worker : /\ worker[x].produced \in Nat
                           /\ worker[x].state = "unborn" => worker[x].produced = 0
                           /\ Follows(handed, x, worker[x].produced)
  BY Zenon DEF HandedOK, HandedOverInOrder
<1>3. m \in Payload /\ m.from = {w} BY <1>2, Zenon DEF Message, Payload
<1> HIDE DEF m, count
<1>4. queue' \in Seq(Payload) /\ queued' \in Seq(Payload) BY <1>1, <1>2, <1>3
<1>5. handed \in Seq(Payload) /\ (queued \o queue)' = Append(handed, m)
  BY <1>1, <1>2, <1>3
<1>6. Follows(Append(handed, m), w, count + 1)
  BY <1>2, <1>5, NextOfOwn, Zenon DEF m, count
<1>7. ASSUME NEW x \in Worker, x # w
      PROVE  Follows(Append(handed, m), x, worker[x].produced)
  <2>1. m.from # {x} BY <1>3, <1>7, Zenon
  <2> DEFINE none == << >>
  <2>2. none \in Seq(Payload) OBVIOUS
  <2>3. handed \o none = handed /\ Append(handed, m) \o none = Append(handed, m)
    BY <1>3, <1>5
  <2>4. Follows(handed, x, worker[x].produced) /\ worker[x].produced \in Nat
    BY <1>2, Zenon
  <2>5. handed \in Seq(Payload) BY <1>5, Zenon
  <2> HIDE DEF handed, none
  <2>6. Follows(handed \o none, x, worker[x].produced) BY <2>3, <2>4, Zenon
  <2>7. Follows(Append(handed, m) \o none, x, worker[x].produced)
    BY <1>3, <2>1, <2>2, <2>4, <2>5, <2>6, OthersBetween, Zenon
  <2> QED BY <2>3, <2>7, Zenon
<1>8. HandedOverInOrder'
  <2> SUFFICES ASSUME NEW x \in Worker
               PROVE  Follows((queued \o queue)', x, worker'[x].produced)
    BY Zenon DEF HandedOverInOrder
  <2>1. CASE x = w BY <1>1, <1>5, <1>6, <2>1, Zenon
  <2>2. CASE x # w BY <1>1, <1>5, <1>7, <2>2, Zenon
  <2> QED BY <2>1, <2>2, Zenon
<1>9. \A x \in Worker : /\ worker'[x].produced \in Nat
                        /\ worker'[x].state = "unborn" => worker'[x].produced = 0
  BY <1>1, <1>2
<1> QED BY <1>4, <1>8, <1>9, Zenon DEF HandedOK

\* A line of the user overtakes what waits in the queue of the workers.
LEMMA SendHanded ==
  ASSUME HandedOK, queued' = Append(queued, UserLine), UNCHANGED << queue, worker >>
  PROVE  HandedOK'
<1>1. UserLine \in Payload /\ \A w \in Worker : UserLine.from # {w}
  BY Zenon DEF UserLine, Payload
<1>2. queue \in Seq(Payload) /\ queued \in Seq(Payload) BY Zenon DEF HandedOK
<1>3. \A w \in Worker : worker[w].produced \in Nat
                        /\ Follows(queued \o queue, w, worker[w].produced)
  BY Zenon DEF HandedOK, HandedOverInOrder
<1>4. \A w \in Worker : Follows(Append(queued, UserLine) \o queue, w, worker[w].produced)
  BY <1>1, <1>2, <1>3, OthersBetween, Zenon
<1>5. HandedOverInOrder' BY <1>4, Zenon DEF HandedOverInOrder
<1>6. queued' \in Seq(Payload) BY <1>1, <1>2
<1> QED BY <1>2, <1>5, <1>6, Zenon DEF HandedOK

\* Threads that start have not produced anything, like those they were.
LEMMA SpawnHanded ==
  ASSUME HandedOK, NEW n, NEW limit, spawn(n, limit), UNCHANGED queued
  PROVE  HandedOK'
<1>1. PICK started \in SUBSET Unborn :
        worker' = [w \in Worker |->
             IF w \in started
             THEN [state |-> "test", limit |-> limit, produced |-> 0]
             ELSE worker[w]]
  BY Zenon DEF spawn
<1>2. \A w \in Worker : /\ worker'[w].produced = worker[w].produced
                        /\ worker'[w].state = "unborn" => worker[w].state = "unborn"
  BY <1>1, Zenon DEF HandedOK, Unborn
<1> QED BY <1>2, NothingProduced, Zenon DEF spawn

\* drain moves the queue to the end of what was handed over.
LEMMA DrainHanded == ASSUME HandedOK, Drain PROVE HandedOK'
<1>1. queued' = queued \o queue /\ queue' = << >> /\ UNCHANGED worker
  BY Zenon DEF Drain, drain
<1>2. queue \in Seq(Payload) /\ queued \in Seq(Payload) BY Zenon DEF HandedOK
<1>3. queued' \in Seq(Payload) /\ queue' \in Seq(Payload) BY <1>1, <1>2
<1>4. queued' \o queue' = queued \o queue BY <1>1, <1>2
<1> QED BY <1>1, <1>3, <1>4, Zenon DEF HandedOK, HandedOverInOrder

LEMMA HandedStep == ASSUME LoadOK, HandedOK, [Next]_vars PROVE HandedOK'
<1> USE DEF main_vars, user_vars, load_vars
<1>1. CASE UNCHANGED << queue, queued, worker >> BY <1>1, NothingProduced, Zenon
<1>2. CASE ProcessCommand
  <2> DEFINE c == Head(todo)
  <2>1. CASE spawn(c.thread_count, c.message_count) /\ UNCHANGED queued
    BY <2>1, SpawnHanded, Zenon
  <2>2. CASE queued' = Append(queued, UserLine) /\ UNCHANGED load_vars
    BY <2>2, SendHanded, Zenon
  <2> QED BY <1>1, <1>2, <2>1, <2>2, Zenon DEF ProcessCommand
<1>3. CASE Drain BY <1>3, DrainHanded, Zenon
<1>4. ASSUME NEW w \in Worker, WorkerTest(w) \/ WorkerLeave(w) PROVE HandedOK'
  <2>1. PICK s \in {"push", "leave", "ended"} :
          worker' = [worker EXCEPT ![w].state = s] /\ UNCHANGED << queue, queued >>
    BY <1>4, Zenon DEF WorkerTest, WorkerLeave, SetState
  <2>2. \A x \in Worker : /\ worker'[x].produced = worker[x].produced
                          /\ worker'[x].state = "unborn" => worker[x].state = "unborn"
    BY <2>1, Zenon DEF LoadOK, ThreadFields
  <2> QED BY <2>1, <2>2, NothingProduced, Zenon
<1>5. ASSUME NEW w \in Worker, WorkerPush(w) PROVE HandedOK' BY <1>5, PushHanded, Zenon
<1>6. CASE LoopHead \/ Select \/ Receive \/ GetLine \/ CommandsDone \/ StopAllReturns
           \/ Poll \/ LoopTail \/ Exit \/ StopSignal \/ Type \/ Rest \/ UNCHANGED vars
  BY <1>1, <1>6, Zenon DEF LoopHead, Select, Receive, GetLine, CommandsDone, StopAllReturns,
                    Poll, LoopTail, Exit, StopSignal, Type, Rest, vars
<1> QED BY <1>2, <1>3, <1>4, <1>5, <1>6, Zenon DEF Next, MainStep, WorkerStep

\* push_back and drain lose, repeat and reorder nothing, for any number of
\* threads that produce while the main thread drains, sends a line of the
\* user, spawns more threads or stops them.
THEOREM PayloadsHandedOver == Spec => []HandedOverInOrder
<1>1. Init => HandedOK
  <2> SUFFICES ASSUME Init PROVE HandedOK BY Zenon
  <2>1. queue = << >> /\ queued = << >> /\ queued \o queue = << >> BY DEF Init
  <2>2. << >> \in Seq(Payload) OBVIOUS
  <2>3. \A w \in Worker : worker[w].produced = 0 BY Zenon DEF Init
  <2>4. \A w \in Worker : Follows(<< >>, w, 0) BY DEF Follows
  <2> QED BY <2>1, <2>2, <2>3, <2>4 DEF HandedOK, HandedOverInOrder
<1>2. LoadOK /\ HandedOK /\ [Next]_vars => HandedOK' BY HandedStep, Zenon
<1>3. HandedOK => HandedOverInOrder BY Zenon DEF HandedOK
<1> QED BY <1>1, <1>2, <1>3, LoadAlwaysOK, PTL DEF Spec
=============================================================================
