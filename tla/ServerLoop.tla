----------------------------- MODULE ServerLoop -----------------------------
(***************************************************************************)
(* The life of a GPRoute storage node (server/main.c): the main thread     *)
(* accepts connections and hands every connection that becomes readable to *)
(* a thread pool; epoll's ONESHOT flag keeps a connection to one handler;  *)
(* a handler reads messages until the socket is empty and then re-arms it; *)
(* a shutdown message clears alive_flag, which the main thread tests only  *)
(* between two epoll_waits, before it drains the pool and frees the        *)
(* global tables.  The peers are clients and shutdown programs: a shutdown *)
(* program asks twice (shutdown/main.c), the second time only to wake the  *)
(* main thread.                                                            *)
(*                                                                         *)
(* What a handler does to the tables is the subject of FeatureIndex and    *)
(* Dedup; here it only touches them.  A message is one byte ("eof",        *)
(* "shutdown") or a type byte followed by its "rest".                      *)
(***************************************************************************)
EXTENDS Naturals, Sequences, FiniteSets

CONSTANTS
  Conns,    \* the connections made to the node, by their fd
  Script,   \* Script[c]: the parts that c's peer sends
  Awaits,   \* the connections whose peer waits for the reply to a shutdown
  After,    \* After[c]: the connections whose peers are done before c connects
  Workers,  \* the pool's threads; as many events are fetched at a time
  Listen,   \* the listening socket
  None

Parts == {"feature", "segment", "rest", "eof", "shutdown"}

ASSUME ConstantAssumption ==
  /\ Script \in [Conns -> Seq(Parts)]
  /\ Awaits \subseteq Conns
  /\ After \in [Conns -> SUBSET Conns]
  /\ IsFiniteSet(Workers) /\ Workers # {}
  /\ IsFiniteSet(Conns)
  /\ Listen \notin Conns /\ None \notin Conns /\ Listen # None

VARIABLES
  link,      \* the peer's connection: "none", "backlog" or "open"
  backlog,   \* connections waiting to be accepted
  toSend,    \* what the peer has still to send
  inbox,     \* sent by the peer and not read yet
  waiting,   \* the peer waits for a reply
  gone,      \* the peer has closed its end
  epoll,     \* the fd's registration: "out", "armed", "disarmed"
  mpc,       \* main thread
  events,    \* main's events[] still to be handled
  pool,      \* tasks pushed to the thread pool and not started
  wpc,       \* each worker thread
  wfd,       \* its connect_fd
  wmsg,      \* MESSAGE_TYPE(recv_buf)
  alive,     \* alive_flag
  timer,     \* total_timer: "running", or "null"
  destroyed, \* how often g_timer_destroy(total_timer) was called
  tables,    \* fea_table, fp_table, open_fea_con: "live" or "freed"
  replied,   \* segments whose reply was sent
  counted,   \* fp_connec
  report     \* fp_connec in the first shutdown reply, or None

peerVars == <<link, backlog, toSend, inbox, waiting, gone>>
mainVars == <<mpc, events>>
workVars == <<wpc, wfd, wmsg>>
deathVars == <<alive, timer, destroyed, report>>
vars == <<peerVars, epoll, mainVars, pool, workVars, deathVars, tables,
          replied, counted>>

Init ==
  /\ link = [c \in Conns |-> "none"]
  /\ backlog = <<>>
  /\ toSend = Script
  /\ inbox = [c \in Conns |-> <<>>]
  /\ waiting = [c \in Conns |-> FALSE]
  /\ gone = [c \in Conns |-> FALSE]
  /\ epoll = [c \in Conns |-> "out"]
  /\ mpc = "test"
  /\ events = {}
  /\ pool = <<>>
  /\ wpc = [w \in Workers |-> "free"]
  /\ wfd = [w \in Workers |-> None]
  /\ wmsg = [w \in Workers |-> None]
  /\ alive = TRUE
  /\ timer = "running"
  /\ destroyed = 0
  /\ tables = "live"
  /\ replied = 0
  /\ counted = 0
  /\ report = None

(* Each of these is one decision of the code; a fault beside it is what a   *)
(* plausible mistake would make of it, and is used by no action.            *)

StaysArmed(c) == "armed"             \* fault: no EPOLLONESHOT
WhenReported(c) == "disarmed"        \* EPOLLIN|EPOLLONESHOT

NotRearmed(c) == "disarmed"          \* fault: no epoll_ctl(MOD)
WhenDrained(c) == "armed"            \* reset_oneshot_fd_in_epoll

PoolLeft == TRUE                     \* fault: g_thread_pool_free(.., wait = FALSE)
PoolDone == pool = <<>> /\ \A w \in Workers : wpc[w] = "free"

Unchecked == TRUE                    \* fault: total_timer not tested
TimerThere == timer # "null"

OnceOnly(c) == After[c] = {}         \* fault: no second round of shutdown
Connects(c) == \A d \in After[c] : gone[d]

-----------------------------------------------------------------------------
(* The peers.                                                              *)

Connect(c) ==
  /\ link[c] = "none" /\ mpc # "closed"
  /\ Connects(c)
  /\ link' = [link EXCEPT ![c] = "backlog"]
  /\ backlog' = Append(backlog, c)
  /\ UNCHANGED <<toSend, inbox, waiting, gone, epoll, mainVars, pool, workVars,
                 deathVars, tables, replied, counted>>

Send(c) ==
  /\ link[c] # "none" /\ ~gone[c] /\ ~waiting[c]
  /\ toSend[c] # <<>>
  /\ LET part == Head(toSend[c]) IN
       /\ inbox' = [inbox EXCEPT ![c] = Append(@, part)]
       /\ waiting' = [waiting EXCEPT ![c] =
                        part = "rest" \/ (part = "shutdown" /\ c \in Awaits)]
  /\ toSend' = [toSend EXCEPT ![c] = Tail(@)]
  /\ UNCHANGED <<link, backlog, gone, epoll, mainVars, pool, workVars,
                 deathVars, tables, replied, counted>>

Close(c) ==
  /\ link[c] # "none" /\ ~gone[c]
  /\ toSend[c] = <<>> /\ ~waiting[c]
  /\ gone' = [gone EXCEPT ![c] = TRUE]
  /\ UNCHANGED <<link, backlog, toSend, inbox, waiting, epoll, mainVars, pool,
                 workVars, deathVars, tables, replied, counted>>

(* A client is killed, perhaps in the middle of a message.                 *)
Abort(c) ==
  /\ link[c] # "none" /\ ~gone[c]
  /\ \A i \in DOMAIN Script[c] : Script[c][i] # "shutdown"
  /\ toSend[c] # <<>> \/ waiting[c]
  /\ gone' = [gone EXCEPT ![c] = TRUE]
  /\ waiting' = [waiting EXCEPT ![c] = FALSE]
  /\ toSend' = [toSend EXCEPT ![c] = <<>>]
  /\ UNCHANGED <<link, backlog, inbox, epoll, mainVars, pool, workVars,
                 deathVars, tables, replied, counted>>

-----------------------------------------------------------------------------
(* The main thread.                                                        *)

Readable(c) == inbox[c] # <<>> \/ gone[c]
Ready == {c \in Conns : epoll[c] = "armed" /\ Readable(c)}
         \cup (IF backlog # <<>> THEN {Listen} ELSE {})

TestAlive ==
  /\ mpc = "test"
  /\ mpc' = IF alive THEN "wait" ELSE "drain"
  /\ UNCHANGED <<peerVars, epoll, events, pool, workVars, deathVars, tables,
                 replied, counted>>

(* epoll_wait reports what is ready, as many as fit into events[], and      *)
(* disarms the connections it reports; it blocks while nothing is ready.    *)
EpollWait ==
  /\ mpc = "wait" /\ Ready # {}
  /\ \E some \in SUBSET Ready :
       /\ some = Ready \/ Cardinality(some) = Cardinality(Workers)
       /\ Cardinality(some) <= Cardinality(Workers)
       /\ events' = some
       /\ epoll' = [c \in Conns |-> IF c \in some THEN WhenReported(c) ELSE epoll[c]]
  /\ mpc' = "dispatch"
  /\ UNCHANGED <<peerVars, pool, workVars, deathVars, tables, replied, counted>>

Accept ==
  /\ mpc = "dispatch" /\ Listen \in events
  /\ backlog' = Tail(backlog)
  /\ link' = [link EXCEPT ![Head(backlog)] = "open"]
  /\ epoll' = [epoll EXCEPT ![Head(backlog)] = "armed"]
  /\ events' = events \ {Listen}
  /\ UNCHANGED <<toSend, inbox, waiting, gone, mpc, pool, workVars, deathVars,
                 tables, replied, counted>>

Push(c) ==
  /\ mpc = "dispatch" /\ c \in events
  /\ pool' = Append(pool, c)
  /\ events' = events \ {c}
  /\ UNCHANGED <<peerVars, epoll, mpc, workVars, deathVars, tables, replied, counted>>

EndDispatch ==
  /\ mpc = "dispatch" /\ events = {}
  /\ mpc' = "test"
  /\ UNCHANGED <<peerVars, epoll, events, pool, workVars, deathVars, tables,
                 replied, counted>>

(* g_thread_pool_free(server_pool, FALSE, TRUE): no task is discarded, and  *)
(* the call returns when the last one has run.                              *)
DrainPool ==
  /\ mpc = "drain" /\ PoolDone
  /\ mpc' = "free"
  /\ UNCHANGED <<peerVars, epoll, events, pool, workVars, deathVars, tables,
                 replied, counted>>

FreeGlobals ==
  /\ mpc = "free"
  /\ mpc' = "closed"
  /\ tables' = "freed"
  /\ UNCHANGED <<peerVars, epoll, events, pool, workVars, deathVars, replied, counted>>

-----------------------------------------------------------------------------
(* message_handler, run by a worker for one readable connection.           *)

Step(w, from, to) ==
  /\ wpc[w] = from
  /\ wpc' = [wpc EXCEPT ![w] = to]

StartTask(w) ==
  /\ pool # <<>>
  /\ Step(w, "free", "recv")
  /\ wfd' = [wfd EXCEPT ![w] = Head(pool)]
  /\ pool' = Tail(pool)
  /\ UNCHANGED <<peerVars, epoll, mainVars, wmsg, deathVars, tables, replied, counted>>

(* receive_message: nothing there (-1), closed (0), or the type byte.      *)
ReceiveNothing(w) ==
  /\ wpc[w] = "recv" /\ inbox[wfd[w]] = <<>>
  /\ Step(w, "recv", IF gone[wfd[w]] THEN "delete" ELSE "rearm")
  /\ UNCHANGED <<peerVars, epoll, mainVars, pool, wfd, wmsg, deathVars, tables,
                 replied, counted>>

ReceiveType(w) ==
  /\ wpc[w] = "recv" /\ inbox[wfd[w]] # <<>>
  /\ LET type == Head(inbox[wfd[w]]) IN
       /\ Step(w, "recv", CASE type = "eof" -> "process"
                            [] type = "shutdown" -> "check"
                            [] OTHER -> "body")
       /\ wmsg' = [wmsg EXCEPT ![w] = type]
  /\ inbox' = [inbox EXCEPT ![wfd[w]] = Tail(@)]
  /\ UNCHANGED <<link, backlog, toSend, waiting, gone, epoll, mainVars, pool, wfd,
                 deathVars, tables, replied, counted>>

(* loop_recieve spins on EAGAIN until the rest is there or the peer is gone. *)
ReceiveRest(w) ==
  /\ wpc[w] = "body"
  /\ IF inbox[wfd[w]] # <<>>
       THEN /\ Step(w, "body", "process")
            /\ inbox' = [inbox EXCEPT ![wfd[w]] = Tail(@)]
       ELSE /\ gone[wfd[w]]
            /\ Step(w, "body", "delete")
            /\ UNCHANGED inbox
  /\ UNCHANGED <<link, backlog, toSend, waiting, gone, epoll, mainVars, pool, wfd,
                 wmsg, deathVars, tables, replied, counted>>

(* feature_process, dedup_process or handle_eof, and the reply.            *)
Process(w) ==
  /\ Step(w, "process", IF wmsg[w] = "eof" THEN "recv" ELSE "count")
  /\ waiting' = [waiting EXCEPT ![wfd[w]] = @ /\ wmsg[w] = "eof"]
  /\ replied' = IF wmsg[w] = "segment" THEN replied + 1 ELSE replied
  /\ UNCHANGED <<link, backlog, toSend, inbox, gone, epoll, mainVars, pool, wfd,
                 wmsg, deathVars, tables, counted>>

(* What follows the reply: the index is updated, and only then the counters. *)
Count(w) ==
  /\ Step(w, "count", "recv")
  /\ counted' = IF wmsg[w] = "segment" THEN counted + 1 ELSE counted
  /\ UNCHANGED <<peerVars, epoll, mainVars, pool, wfd, wmsg, deathVars, tables, replied>>

CheckAlive(w) ==
  /\ Step(w, "check", IF alive THEN "kill" ELSE "recv")
  /\ UNCHANGED <<peerVars, epoll, mainVars, pool, wfd, wmsg, deathVars, tables,
                 replied, counted>>

Kill(w) ==
  /\ Step(w, "kill", "fill")
  /\ alive' = FALSE
  /\ UNCHANGED <<peerVars, epoll, mainVars, pool, wfd, wmsg, timer, destroyed,
                 report, tables, replied, counted>>

(* fill_re_shutdown_msg reads the tables and counters ...                  *)
FillStats(w) ==
  /\ Step(w, "fill", "timer")
  /\ report' = IF report = None THEN counted ELSE report
  /\ UNCHANGED <<peerVars, epoll, mainVars, pool, wfd, wmsg, alive, timer,
                 destroyed, tables, replied, counted>>

(* ... and stops the timer under a lock, once; then the reply is sent.     *)
StopTimer(w) ==
  /\ Step(w, "timer", "recv")
  /\ timer' = "null"
  /\ destroyed' = IF TimerThere THEN destroyed + 1 ELSE destroyed
  /\ waiting' = [waiting EXCEPT ![wfd[w]] = FALSE]
  /\ UNCHANGED <<link, backlog, toSend, inbox, gone, epoll, mainVars, pool, wfd,
                 wmsg, alive, report, tables, replied, counted>>

(* The end of the handler: the fd is re-armed, or forgotten and never closed. *)
Finish(w) ==
  /\ wpc[w] \in {"rearm", "delete"}
  /\ epoll' = [epoll EXCEPT ![wfd[w]] =
                 IF wpc[w] = "rearm" THEN WhenDrained(wfd[w]) ELSE "out"]
  /\ wpc' = [wpc EXCEPT ![w] = "free"]
  /\ wfd' = [wfd EXCEPT ![w] = None]
  /\ wmsg' = [wmsg EXCEPT ![w] = None]
  /\ UNCHANGED <<peerVars, mainVars, pool, deathVars, tables, replied, counted>>

-----------------------------------------------------------------------------
Main == TestAlive \/ EpollWait \/ Accept \/ (\E c \in Conns : Push(c))
        \/ EndDispatch \/ DrainPool \/ FreeGlobals

Handler(w) ==
  \/ StartTask(w) \/ ReceiveNothing(w) \/ ReceiveType(w) \/ ReceiveRest(w)
  \/ Process(w) \/ Count(w) \/ CheckAlive(w) \/ Kill(w) \/ FillStats(w)
  \/ StopTimer(w) \/ Finish(w)

Peer(c) == Connect(c) \/ Send(c) \/ Close(c) \/ Abort(c)

(* The process has exited, and its peers' connections with it.             *)
Closed == mpc = "closed" /\ UNCHANGED vars

Next == Main \/ (\E w \in Workers : Handler(w)) \/ (\E c \in Conns : Peer(c)) \/ Closed

Spec == Init /\ [][Next]_vars

(* Threads run.  A peer finishes the message it has begun, unless it aborts, *)
(* and a shutdown program that has begun goes on to the end.                *)
MidMessage(c) == toSend[c] # <<>> /\ Head(toSend[c]) = "rest"
ShutdownConn(c) == \E i \in DOMAIN Script[c] : Script[c][i] = "shutdown"
GoesOn(c) == Send(c) /\ (MidMessage(c) \/ ShutdownConn(c))

Fairness ==
  /\ WF_vars(Main)
  /\ \A w \in Workers : WF_vars(Handler(w))
  /\ \A c \in Conns : WF_vars(GoesOn(c))
  /\ \A c \in Conns : ShutdownConn(c) => WF_vars(Close(c))
  /\ \A c \in Conns : \A d \in After[c] : ShutdownConn(d) => WF_vars(Connect(c))

FairSpec == Spec /\ Fairness

-----------------------------------------------------------------------------
Queued(c) == \E i \in DOMAIN pool : pool[i] = c
Handled(c) == \E w \in Workers : wfd[w] = c

WPCs == {"free", "recv", "body", "process", "count", "check", "kill", "fill",
         "timer", "rearm", "delete"}

(* The type of every variable; the pool never holds more tasks than there   *)
(* are connections.                                                         *)
TypeOK ==
  /\ link \in [Conns -> {"none", "backlog", "open"}]
  /\ backlog \in Seq(Conns)
  /\ toSend \in [Conns -> Seq(Parts)]
  /\ inbox \in [Conns -> Seq(Parts)]
  /\ waiting \in [Conns -> BOOLEAN]
  /\ gone \in [Conns -> BOOLEAN]
  /\ epoll \in [Conns -> {"out", "armed", "disarmed"}]
  /\ mpc \in {"test", "wait", "dispatch", "drain", "free", "closed"}
  /\ events \subseteq Conns \cup {Listen}
  /\ pool \in Seq(Conns) /\ Len(pool) <= Cardinality(Conns)
  /\ wpc \in [Workers -> WPCs]
  /\ wfd \in [Workers -> Conns \cup {None}]
  /\ wmsg \in [Workers -> Parts \cup {None}]
  /\ alive \in BOOLEAN
  /\ timer \in {"running", "null"}
  /\ destroyed \in Nat
  /\ tables \in {"live", "freed"}
  /\ replied \in Nat /\ counted \in Nat
  /\ report \in Nat \cup {None}

(* A connection has at most one handler, running, queued or about to be     *)
(* queued: two handlers would read one another's messages and write one     *)
(* another's feature container (main.c:140, 148).                           *)
OneHandler ==
  /\ \A c \in Conns : epoll[c] # "disarmed" => c \notin events /\ ~Queued(c) /\ ~Handled(c)
  /\ \A v, w \in Workers : v # w /\ wfd[v] = wfd[w] => wfd[v] = None
  /\ \A i, j \in DOMAIN pool : pool[i] = pool[j] => i = j
  /\ \A i \in DOMAIN pool : pool[i] \notin events /\ ~Handled(pool[i])
  /\ \A w \in Workers : wfd[w] \notin events

(* A connection whose fd is disarmed is in somebody's hands: no readable    *)
(* connection is forgotten between epoll_wait, the pool and the re-arming.  *)
NoneForgotten ==
  \A c \in Conns : epoll[c] = "disarmed" => c \in events \/ Queued(c) \/ Handled(c)

(* Every connection of the server is armed, or out of epoll, or in exactly   *)
(* one pair of hands, at every step of accept, dispatch, pool and handler.  *)
Inv == TypeOK /\ OneHandler /\ NoneForgotten

(* The tables outlive every handler: the main thread frees them only when   *)
(* no task runs or waits (main.c:327).                                      *)
NoUseAfterFree ==
  tables = "freed" => pool = <<>> /\ \A w \in Workers : wpc[w] = "free"

(* Two shutdown messages can both find alive_flag set (main.c:196-199); the *)
(* timer is stopped and destroyed once all the same (main.c:101-109).       *)
TimerOnce == destroyed = IF timer = "null" THEN 1 ELSE 0

(* Every request a peer sent is answered, unless the peer or the node goes  *)
(* away first.                                                              *)
Served ==
  \A c \in Conns : waiting[c] ~> (~waiting[c] \/ gone[c] \/ mpc = "closed")

(* A shutdown program that got its statistics gets the node to exit: its    *)
(* second connection wakes the main thread (shutdown/main.c:138-141).       *)
ShutdownEnds ==
  \A c \in Awaits : (gone[c] /\ ~waiting[c]) ~> mpc = "closed"

(* "When the deduplication process completes, run shutdown program to get   *)
(* necessary experiment results" (README.md:58): once the clients have their *)
(* replies and are gone, the statistics count every segment they had stored. *)
ReportComplete == report # None => report = replied
=============================================================================
