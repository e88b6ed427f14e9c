----------------------------- MODULE ClientApp -----------------------------
(***************************************************************************)
(* The client program (BsdClientApp.cpp): its main loop, the commands typed *)
(* by the user or read from the bootstrap file, the stop signal, and the    *)
(* worker threads of LoadGenerator, which feed the loop through a locked    *)
(* queue.  The session is reduced to what the loop looks at: its state, and *)
(* the payloads handed to queue_send (Session.tla models the rest).         *)
(***************************************************************************)
EXTENDS Integers, Sequences, SequencesExt, FiniteSets

CONSTANTS Worker,       \* identities of the threads that may ever be spawned
          Commands,     \* commands the user may type
          Bootstrap,    \* the sequence of commands of the bootstrap file
          Interactive,  \* isatty(STDIN_FILENO)
          MaxTyped,     \* bound: commands typed
          MaxProduced   \* bound: messages of a worker that has no limit

SpawnCommand == [kind : {"spawn"}, thread_count : Nat, message_count : Nat]
OtherCommand == [kind : {"/quit", "/stop-load", "query", "send", "unknown"}]
EndOfInput == [kind |-> "eof"]

ASSUME ClientAppAssumption ==
    /\ IsFiniteSet(Worker)
    /\ Commands \subseteq SpawnCommand \cup OtherCommand
    /\ \A i \in DOMAIN Bootstrap : Bootstrap[i] \in SpawnCommand \cup OtherCommand
    /\ Interactive \in BOOLEAN /\ MaxTyped \in Nat /\ MaxProduced \in Nat

VARIABLES
    pc,               \* where the main thread stands
    stop_requested,   \* g_stop_requested, set by the signal handler
    stdin_enabled, stdin_ready,   \* whether stdin is read; its bit in readfds
    input, typed,     \* lines waiting in stdin; number of lines typed so far
    todo,             \* commands being processed, the first one next
    bootstrap_applied, should_exit,
    connection,       \* session.connection_state(), as far as the loop asks
    queued,           \* payloads given to session.queue_send
    stop_workers,     \* LoadGenerator::stop_requested_
    active_worker_count, queue,
    worker            \* the threads
main_vars == <<pc, stdin_enabled, stdin_ready, todo, bootstrap_applied, should_exit>>
user_vars == <<stop_requested, input, typed>>
load_vars == <<stop_workers, active_worker_count, queue, worker>>
vars == <<main_vars, user_vars, connection, queued, load_vars>>

Thread == [state : {"unborn", "test", "push", "leave", "ended"},
           limit : Nat, produced : Nat]
\* A payload of the load generator names its thread and its number.
Message(w, n) == [from |-> {w}, n |-> n]
UserLine == [from |-> {}, n |-> 0]

Init ==
    /\ pc = "head" /\ stop_requested = FALSE
    /\ stdin_enabled = Interactive /\ stdin_ready = FALSE
    /\ input = << >> /\ typed = 0 /\ todo = << >>
    /\ bootstrap_applied = (Bootstrap = << >>) /\ should_exit = FALSE
    /\ connection = "Connecting" /\ queued = << >>
    /\ stop_workers = FALSE /\ active_worker_count = 0 /\ queue = << >>
    /\ worker = [w \in Worker |-> [state |-> "unborn", limit |-> 0, produced |-> 0]]

Alive == {w \in Worker : worker[w].state \in {"test", "push", "leave"}}
Unborn == {w \in Worker : worker[w].state = "unborn"}

-----------------------------------------------------------------------------
(* The worker threads *)

SetState(w, s) == worker' = [worker EXCEPT ![w].state = s]
Produces(w) == worker[w].limit = 0 \/ worker[w].produced < worker[w].limit

\* Mutant: only the limit ends the loop.
Continues_ignoring_stop(w) == Produces(w)

\* The loop condition and the limit (message_count 0 means no limit).
Continues(w) == ~stop_workers /\ Produces(w)

WorkerTest(w) ==
    /\ worker[w].state = "test"
    /\ Continues(w) => worker[w].produced < MaxProduced
    /\ SetState(w, IF Continues(w) THEN "push" ELSE "leave")
    /\ UNCHANGED <<main_vars, user_vars, connection, queued,
                   stop_workers, active_worker_count, queue>>

\* Under queue_mutex_; then ++produced, and yield or sleep.
WorkerPush(w) ==
    /\ worker[w].state = "push"
    /\ queue' = Append(queue, Message(w, worker[w].produced))
    /\ worker' = [worker EXCEPT ![w].state = "test", ![w].produced = @ + 1]
    /\ UNCHANGED <<main_vars, user_vars, connection, queued,
                   stop_workers, active_worker_count>>

\* Mutant: a worker that was stopped leaves the count alone.
CountAfterLeaving_unless_stopped ==
    active_worker_count - (IF stop_workers THEN 0 ELSE 1)

\* --active_worker_count_; the counter is a size_t, so a decrement too many
\* would wrap around.
CountAfterLeaving == active_worker_count - 1

WorkerLeave(w) ==
    /\ worker[w].state = "leave"
    /\ active_worker_count' = CountAfterLeaving
    /\ SetState(w, "ended")
    /\ UNCHANGED <<main_vars, user_vars, connection, queued, stop_workers, queue>>

-----------------------------------------------------------------------------
(* Commands *)

\* LoadGenerator::spawn: one thread after the other; nobody else starts or
\* counts threads, so the loop is one step.
spawn(thread_count, message_count) ==
    \E started \in SUBSET Unborn :
        /\ Cardinality(started) = thread_count
        /\ stop_workers' = FALSE
        /\ active_worker_count' = active_worker_count + thread_count
        /\ worker' = [w \in Worker |->
              IF w \in started
              THEN [state |-> "test", limit |-> message_count, produced |-> 0]
              ELSE worker[w]]
        /\ UNCHANGED queue

\* Where the loop goes on after the commands: a line of the bootstrap file is
\* processed at the end of the iteration, a typed line in its middle.
AfterCommands == IF pc = "bootstrap" THEN "tail" ELSE "drain"

\* process_client_command.
ProcessCommand ==
    /\ pc \in {"command", "bootstrap"} /\ todo # << >>
    /\ LET c == Head(todo) IN
       \/ /\ c.kind = "/quit"
          /\ should_exit' = TRUE /\ todo' = << >>
          /\ pc' = IF pc = "bootstrap" THEN "tail" ELSE "exit"
          /\ UNCHANGED <<queued, load_vars>>
       \/ /\ c.kind = "/stop-load"
          /\ stop_workers' = TRUE
          /\ pc' = IF pc = "bootstrap" THEN "join bootstrap" ELSE "join"
          /\ UNCHANGED <<todo, should_exit, queued, active_worker_count, queue, worker>>
       \/ /\ c.kind = "spawn"
          /\ spawn(c.thread_count, c.message_count)
          /\ todo' = Tail(todo)
          /\ UNCHANGED <<pc, should_exit, queued>>
       \/ /\ c.kind = "send"
          /\ queued' = Append(queued, UserLine)
          /\ todo' = Tail(todo)
          /\ UNCHANGED <<pc, should_exit, load_vars>>
       \/ /\ c.kind \in {"query", "unknown"}
          /\ todo' = Tail(todo)
          /\ UNCHANGED <<pc, should_exit, queued, load_vars>>
    /\ UNCHANGED <<stdin_enabled, stdin_ready, bootstrap_applied, user_vars, connection>>

CommandsDone ==
    /\ pc \in {"command", "bootstrap"} /\ todo = << >>
    /\ pc' = AfterCommands
    /\ UNCHANGED <<stdin_enabled, stdin_ready, todo, bootstrap_applied,
                   should_exit, user_vars, connection, queued, load_vars>>

\* Mutant: the threads are detached instead of joined.
Joined_not_waiting == TRUE

\* The rest of stop_all: join every thread, then forget them.
Joined == Alive = {}

StopAllReturns ==
    /\ pc \in {"join", "join bootstrap", "final join"} /\ Joined
    /\ active_worker_count' = 0
    /\ pc' = CASE pc = "join" -> "command"
               [] pc = "join bootstrap" -> "bootstrap"
               [] pc = "final join" -> "done"
    /\ todo' = IF todo = << >> THEN todo ELSE Tail(todo)
    /\ UNCHANGED <<stdin_enabled, stdin_ready, bootstrap_applied, should_exit,
                   user_vars, connection, queued, stop_workers, queue, worker>>

-----------------------------------------------------------------------------
(* The main loop *)

\* Mutant: the loop ends only on should_exit.
ToldToStop_by_command == should_exit

ToldToStop == should_exit \/ stop_requested

LoopHead ==
    /\ pc = "head"
    /\ pc' = IF ToldToStop THEN "exit" ELSE "select"
    /\ UNCHANGED <<stdin_enabled, stdin_ready, todo, bootstrap_applied,
                   should_exit, user_vars, connection, queued, load_vars>>

\* Mutant: the bit of stdin is taken as set without a look at the input.
StdinReadable_always == stdin_enabled

StdinReadable == stdin_enabled /\ input # << >>

\* select returns: a datagram, a line of input, or the timeout.
Select ==
    /\ pc = "select"
    /\ pc' = "receive"
    /\ stdin_ready' = StdinReadable
    /\ UNCHANGED <<stdin_enabled, todo, bootstrap_applied, should_exit,
                   user_vars, connection, queued, load_vars>>

\* A signal: the handler sets the flag.  If it interrupts select, the call
\* fails with EINTR and readfds is still what the loop put in: the test
\* "errno != EINTR" lets the iteration go on with the bit of stdin set.
StopSignal ==
    /\ ~stop_requested /\ pc # "done"
    /\ stop_requested' = TRUE
    /\ \/ /\ pc = "select" /\ pc' = "receive" /\ stdin_ready' = stdin_enabled
       \/ /\ pc # "select" /\ UNCHANGED <<pc, stdin_ready>>
    /\ UNCHANGED <<stdin_enabled, todo, bootstrap_applied, should_exit,
                   input, typed, connection, queued, load_vars>>

\* What datagrams and deadlines may do to the session in between.
SessionMoves == connection' \in
    CASE connection = "Connecting"  -> {"Connecting", "Established", "Reset"}
      [] connection = "Established" -> {"Established", "Reset"}
      [] connection = "Reset"       -> {"Reset"}

Receive ==
    /\ pc = "receive" /\ SessionMoves
    /\ pc' = IF stdin_ready THEN "getline" ELSE "drain"
    /\ stdin_ready' = FALSE      \* readfds is local to the iteration
    /\ UNCHANGED <<stdin_enabled, todo, bootstrap_applied,
                   should_exit, user_vars, queued, load_vars>>

\* std::getline waits until there is a line.
GetLine ==
    /\ pc = "getline" /\ input # << >>
    /\ IF Head(input) = EndOfInput
       THEN /\ stdin_enabled' = FALSE /\ pc' = "drain"
            /\ UNCHANGED <<input, todo>>
       ELSE /\ todo' = <<Head(input)>> /\ input' = Tail(input)
            /\ pc' = "command" /\ UNCHANGED stdin_enabled
    /\ UNCHANGED <<stdin_ready, bootstrap_applied, should_exit, stop_requested,
                   typed, connection, queued, load_vars>>

\* Mutant: the queue is copied, not emptied.
drain_copying(q) == [drained |-> q, queue |-> q]

\* LoadGenerator::drain under queue_mutex_, then queue_send for each message.
drain(q) == [drained |-> q, queue |-> << >>]

Drain ==
    /\ pc = "drain"
    /\ queued' = queued \o drain(queue).drained
    /\ queue' = drain(queue).queue
    /\ pc' = "poll"
    /\ UNCHANGED <<stdin_enabled, stdin_ready, todo, bootstrap_applied,
                   should_exit, user_vars, connection,
                   stop_workers, active_worker_count, worker>>

\* poll_tx up to poll_budget times and drain_events; then, once, the bootstrap
\* commands as soon as the session is established.
Poll ==
    /\ pc = "poll" /\ SessionMoves
    /\ IF ~bootstrap_applied /\ connection' = "Established"
       THEN bootstrap_applied' = TRUE /\ todo' = Bootstrap /\ pc' = "bootstrap"
       ELSE pc' = "tail" /\ UNCHANGED <<bootstrap_applied, todo>>
    /\ UNCHANGED <<stdin_enabled, stdin_ready, should_exit, user_vars, queued, load_vars>>

\* Mutant: a reset of the session goes unnoticed.
ShouldExit_ignoring_reset == should_exit

ShouldExit == should_exit \/ connection = "Reset"

LoopTail ==
    /\ pc = "tail"
    /\ should_exit' = ShouldExit
    /\ pc' = "head"
    /\ UNCHANGED <<stdin_enabled, stdin_ready, todo, bootstrap_applied,
                   user_vars, connection, queued, load_vars>>

\* Behind the loop: stop_all.
Exit ==
    /\ pc = "exit"
    /\ stop_workers' = TRUE /\ pc' = "final join"
    /\ UNCHANGED <<stdin_enabled, stdin_ready, todo, bootstrap_applied, should_exit,
                   user_vars, connection, queued, active_worker_count, queue, worker>>

\* Threads that the commands not yet processed will start (the set Worker
\* bounds the threads of a behaviour).
ThreadsAhead(cmds) ==
    FoldSeq(LAMBDA c, n : n + (IF c.kind = "spawn" THEN c.thread_count ELSE 0), 0, cmds)

\* The user types a command, or ends the input.
Type ==
    /\ Interactive /\ typed < MaxTyped
    /\ EndOfInput \notin ToSet(input)
    /\ \E c \in Commands \cup {EndOfInput} :
         /\ input' = Append(input, c)
         /\ ThreadsAhead(todo \o input' \o (IF bootstrap_applied THEN << >> ELSE Bootstrap))
              <= Cardinality(Unborn)
    /\ typed' = typed + 1
    /\ UNCHANGED <<main_vars, stop_requested, connection, queued, load_vars>>

MainStep == \/ LoopHead \/ Select \/ Receive \/ GetLine \/ ProcessCommand
            \/ CommandsDone \/ StopAllReturns \/ Drain \/ Poll \/ LoopTail \/ Exit
WorkerStep(w) == WorkerTest(w) \/ WorkerPush(w) \/ WorkerLeave(w)
\* The program has ended, or its main thread waits: in getline for a user
\* who may never type, in join for the workers.
Rest ==
    /\ \/ pc = "done"
       \/ pc = "getline" /\ input = << >>
       \/ pc \in {"join", "join bootstrap", "final join"} /\ ~Joined
    /\ UNCHANGED vars

Next == MainStep \/ (\E w \in Worker : WorkerStep(w)) \/ StopSignal \/ Type \/ Rest

Spec == Init /\ [][Next]_vars

\* The operating system runs every thread; nothing makes the user type or
\* send a signal.
FairSpec == Spec /\ WF_vars(MainStep) /\ \A w \in Worker : WF_vars(WorkerStep(w))

-----------------------------------------------------------------------------
(* Properties *)

(***************************************************************************)
(* What "/workers" shows (active_worker_count_) is the number of threads   *)
(* that have not ended, through every interleaving of spawn, of threads    *)
(* that reach their limit and of stop_all; it never falls below zero.      *)
(***************************************************************************)
WorkerCountExact == active_worker_count = Cardinality(Alive)

\* The sequence handed holds the first count payloads of w, each one once and
\* in the order of their numbers.
Follows(handed, w, count) ==
    LET mine == {i \in DOMAIN handed : handed[i].from = {w}}
    IN  /\ {handed[i].n : i \in mine} = 0 .. count - 1
        /\ \A i, j \in mine : i < j => handed[i].n < handed[j].n

(***************************************************************************)
(* Every message a worker produces is handed to Session::queue_send once,  *)
(* in the order of production, or still waits in the queue: the hand-over  *)
(* between the threads (push_back, drain) loses, repeats and reorders      *)
(* nothing.                                                                *)
(***************************************************************************)
HandedOverInOrder ==
    \A w \in Worker : Follows(queued \o queue, w, worker[w].produced)

(***************************************************************************)
(* Once stop_all has returned and until the next spawn no worker runs, so  *)
(* nothing more is produced ("[client] load workers stopped").             *)
(***************************************************************************)
StoppedMeansIdle ==
    stop_workers /\ pc \notin {"join", "join bootstrap", "final join"} => Alive = {}

(***************************************************************************)
(* stop_all returns: no worker, limited or not, keeps the main thread in   *)
(* join for ever (spawn cannot lower the stop flag meanwhile).             *)
(***************************************************************************)
StopAllTerminates ==
    pc \in {"join", "join bootstrap", "final join"}
        ~> pc \notin {"join", "join bootstrap", "final join"}

(***************************************************************************)
(* What the workers produce reaches the session, unless the program is     *)
(* told to end: the loop never gets stuck in front of drain.               *)
(***************************************************************************)
LoadReachesSession ==
    queue # << >> ~> queue = << >> \/ should_exit \/ stop_requested

(***************************************************************************)
(* A client whose session was reset, or that was told to quit, ends.       *)
(***************************************************************************)
ExitsWhenOver == (connection = "Reset" \/ should_exit) ~> pc = "done" \/ stop_requested

(***************************************************************************)
(* The load ends when the runtime is torn down (readme.md, "count=0"):     *)
(* after the stop signal the workers stop.                                 *)
(***************************************************************************)
SignalEndsLoad == stop_requested ~> Alive = {}

(***************************************************************************)
(* The same where the loop does not read stdin (any more): a client that   *)
(* runs unattended, or whose input has ended, stops its workers on the     *)
(* signal, whatever the workers and the bootstrap commands are doing.      *)
(***************************************************************************)
UnattendedSignalEndsLoad == (stop_requested /\ ~stdin_enabled) ~> Alive = {}
=============================================================================
