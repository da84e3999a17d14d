------------------------------- MODULE Server -------------------------------
(***************************************************************************)
(* The life of the server process (main.c, server_tcp.c): start, accept    *)
(* loop, one detached thread per client, the status thread, the signal     *)
(* handler, and the cleanup at exit, with the logger's mutex (clogger.c).  *)
(*                                                                         *)
(* A thread is at a label; a label in LogNext is a call of the logger that *)
(* passes the level test, in two steps: lock and unlock.  (Consecutive     *)
(* calls are one.)  A signal interrupts a thread: frames[t] is the stack   *)
(* of handlers running on it, the top of which runs.  What clients say,    *)
(* and what the cache does with it, are the subject of other modules.      *)
(***************************************************************************)
EXTENDS Integers, Sequences, FiniteSets

CONSTANTS
  Clients,        \* clients that may connect, each once
  MaxSignals,     \* bound: signals delivered
  MaxRequests,    \* bound: requests of all clients
  MaxReports,     \* bound: reports of the status thread
  SignalThreads,  \* the threads the kernel may choose to run the handler
  SignalInLog,    \* TRUE if a signal may arrive while its thread is in the logger
  MaxFaults       \* bound: system calls and allocations that fail

ASSUME ServerAssumption ==
  /\ {MaxSignals, MaxRequests, MaxReports, MaxFaults} \subseteq Nat
  /\ Clients \cap {"main", "status"} = {}
  /\ SignalThreads \subseteq Clients \cup {"main", "status"}
  /\ SignalInLog \in BOOLEAN

Threads == Clients \cup {"main", "status"}

VARIABLES
  pc,        \* pc[t]: the label of thread t, "off" before it is created
  frames,    \* frames[t]: the labels of the signal handlers on t, innermost last
  lock,      \* log_mutex: Free, or the thread and the frame that hold it
  running,   \* g_server.running
  socket_fd, \* g_server.socket_fd >= 0
  cache,     \* "none", "live" or "freed"
  listener,  \* the listening socket: "none", "open", "shut" or "closed"
  conn,      \* conn[c]: "none", "pending", "open" or "closed"
  errno,     \* why accept failed
  installed, \* the signal handlers are in place
  faults,    \* how many calls have failed
  count      \* how many signals, reports and requests there were

vars == <<pc, frames, lock, running, socket_fd, cache, listener, conn, errno,
          installed, faults, count>>
local == <<pc, errno>>
world == <<running, socket_fd, cache, listener, conn, installed, faults>>

Free == <<"free", 0>>

\* Where a thread goes on after each call of the logger.
LogNext ==
  [log_start |-> "cache", log_ready |-> "test", log_accept |-> "test", log_new |-> "setup",
   log_drop |-> "drop", log_fail |-> "log_exit", log_exit |-> "cl_test", log_end |-> "exited",
   c_log_hello |-> "c_test", c_log_req |-> "c_test", c_log_bye |-> "c_close",
   s_log |-> "s_read"]

MainLabels == {"init", "handlers", "cache", "status", "socket", "publish", "test", "accept",
               "failed", "setup", "drop", "cl_test", "cl_close", "cl_clear", "destroy", "exited"}
ClientLabels == {"c_test", "c_recv", "c_serve", "c_close", "done"}
StatusLabels == {"s_sleep", "s_read"}
HandlerLabels == {"h_log", "h_stop", "h_test", "h_shutdown", "h_close", "h_clear"}

\* Types: where each thread and each interrupted frame is, and the shared state.
TypeOK ==
  /\ pc \in [Threads -> MainLabels \cup ClientLabels \cup StatusLabels \cup DOMAIN LogNext
                          \cup {"off", "crashed"}]
  /\ \A t \in Threads : frames[t] \in Seq(HandlerLabels)
  /\ lock = Free \/ lock[1] \in Threads
  /\ running \in BOOLEAN /\ socket_fd \in BOOLEAN /\ installed \in BOOLEAN
  /\ cache \in {"none", "live", "freed"}
  /\ listener \in {"none", "open", "shut", "closed", "closed twice"}
  /\ conn \in [Clients -> {"none", "pending", "open", "closed", "closed twice"}]
  /\ errno \in {"none", "EINTR", "EBADF", "EINVAL", "other"}

Init ==
  /\ pc = [t \in Threads |-> IF t = "main" THEN "init" ELSE "off"]
  /\ frames = [t \in Threads |-> << >>]
  /\ lock = Free
  /\ running = FALSE
  /\ socket_fd = FALSE
  /\ cache = "none"
  /\ listener = "none"
  /\ conn = [c \in Clients |-> "none"]
  /\ errno = "none"
  /\ installed = FALSE
  /\ faults = 0
  /\ count = [signals |-> 0, reports |-> 0, requests |-> 0]

-----------------------------------------------------------------------------

Alive == pc["main"] \notin {"exited", "crashed"}

\* Thread t runs its own code at label l.
At(t, l) == Alive /\ frames[t] = << >> /\ pc[t] = l

Goto(t, l) == pc' = [pc EXCEPT ![t] = l]

\* close on a socket, remembering a second one.
Closed(s) == IF s \in {"closed", "closed twice"} THEN "closed twice" ELSE "closed"

\* A call of the system or an allocation fails.
Fault == faults < MaxFaults /\ faults' = faults + 1

Keep(xs) == UNCHANGED <<frames, lock, count>> /\ UNCHANGED xs

\* clog_log with its mutex.  The level test lets everything but debug pass.
clog_log(t) ==
  LET me == <<t, Len(frames[t])>> IN
  /\ Alive /\ frames[t] = << >> /\ pc[t] \in DOMAIN LogNext
  /\ \/ lock = Free /\ lock' = me /\ UNCHANGED pc
     \/ lock = me /\ lock' = Free /\ Goto(t, LogNext[pc[t]])
  /\ UNCHANGED <<frames, world, errno, count>>

-----------------------------------------------------------------------------
(* tcp_server_start                                                        *)

\* The state is set up before a signal can find it.
StartServer ==
  /\ At("main", "init")
  /\ running' = TRUE
  /\ Goto("main", "handlers")
  /\ Keep(<<errno, socket_fd, cache, listener, conn, installed, faults>>)

\* exit(EXIT_FAILURE) when they cannot be installed
setup_signal_handlers ==
  /\ At("main", "handlers")
  /\ \/ installed' = TRUE /\ Goto("main", "log_start") /\ UNCHANGED faults
     \/ Fault /\ UNCHANGED installed /\ Goto("main", "log_exit")
  /\ Keep(<<errno, running, socket_fd, cache, listener, conn>>)

initialize_cache ==
  /\ At("main", "cache")
  /\ \/ cache' = "live" /\ Goto("main", "status") /\ UNCHANGED faults
     \/ Fault /\ UNCHANGED cache /\ Goto("main", "log_fail")
  /\ Keep(<<errno, running, socket_fd, listener, conn, installed>>)

\* A thread id that was never set is detached when the thread could not be
\* created, which may crash.
CreateStatusThread ==
  /\ At("main", "status")
  /\ \/ pc' = [pc EXCEPT !["main"] = "socket", !["status"] = "s_sleep"] /\ UNCHANGED faults
     \/ Fault /\ \E next \in {"socket", "crashed"} : Goto("main", next)
  /\ Keep(<<errno, running, socket_fd, cache, listener, conn, installed>>)

\* socket, setsockopt, bind and listen; on failure the socket is closed again.
setup_server_socket ==
  /\ At("main", "socket")
  /\ \/ listener' = "open" /\ Goto("main", "publish") /\ UNCHANGED faults
     \/ Fault /\ listener' \in {"none", "closed"} /\ Goto("main", "log_fail")
  /\ Keep(<<errno, running, socket_fd, cache, conn, installed>>)

\* g_server.socket_fd gets the result.
PublishSocket ==
  /\ At("main", "publish")
  /\ socket_fd' = TRUE
  /\ Goto("main", "log_ready")
  /\ Keep(<<errno, running, cache, listener, conn, installed, faults>>)

TestRunning ==
  /\ At("main", "test")
  /\ Goto("main", IF running THEN "accept" ELSE "log_exit")
  /\ Keep(<<errno, world>>)

AcceptClient(c) ==
  /\ At("main", "accept")
  /\ listener = "open" /\ conn[c] = "pending"
  /\ conn' = [conn EXCEPT ![c] = "open"]
  /\ Goto("main", "log_new")
  /\ Keep(<<errno, running, socket_fd, cache, listener, installed, faults>>)

\* accept returns -1: the socket is shut down or closed, or a fault.
AcceptFails ==
  /\ At("main", "accept")
  /\ \/ listener = "shut" /\ errno' = "EINVAL" /\ UNCHANGED faults
     \/ listener \in {"closed", "closed twice"} /\ errno' = "EBADF" /\ UNCHANGED faults
     \/ listener = "open" /\ Fault /\ errno' = "other"
  /\ Goto("main", "failed")
  /\ Keep(<<running, socket_fd, cache, listener, conn, installed>>)

\* Mutant: every error of accept ends the loop.
AcceptFailedLeaves ==
  /\ At("main", "failed")
  /\ Goto("main", "log_exit")
  /\ errno' = "none"
  /\ Keep(world)

AcceptFailed ==
  /\ At("main", "failed")
  /\ Goto("main", IF ~ running THEN "log_exit"
                  ELSE CASE errno = "EINTR" -> "test"
                         [] errno = "EBADF" -> "log_exit"
                         [] OTHER -> "log_accept")
  /\ errno' = "none"
  /\ Keep(world)

\* Mutant: the thread is joined instead of detached.
SetupClientJoins ==
  \E c \in Clients :
    /\ At("main", "setup")
    /\ \/ conn[c] = "open" /\ pc[c] = "off" /\ Goto(c, "c_log_hello")
       \/ pc[c] = "done" /\ (\A d \in Clients : conn[d] # "open") /\ Goto("main", "test")
    /\ Keep(<<errno, world>>)

\* create_client_context, the parameters and pthread_create, one of which may fail.
SetupClient ==
  \E c \in Clients :
    /\ At("main", "setup")
    /\ conn[c] = "open" /\ pc[c] = "off"
    /\ \/ /\ pc' = [pc EXCEPT !["main"] = "test", ![c] = "c_log_hello"]
          /\ UNCHANGED faults
       \/ Fault /\ Goto("main", "log_drop")
    /\ Keep(<<errno, running, socket_fd, cache, listener, conn, installed>>)

\* Mutant: the connection is closed with its context, and by the loop too.
DropClientTwice ==
  \E c \in Clients :
    /\ At("main", "drop")
    /\ conn[c] = "open" /\ pc[c] = "off"
    /\ conn' = [conn EXCEPT ![c] = Closed(Closed(@))]
    /\ Goto("main", "test")
    /\ Keep(<<errno, running, socket_fd, cache, listener, installed, faults>>)

\* After the failure is logged the connection is closed: by close, before there is
\* a context, else by destroy_client_context.
DropClient ==
  \E c \in Clients :
    /\ At("main", "drop")
    /\ conn[c] = "open" /\ pc[c] = "off"
    /\ conn' = [conn EXCEPT ![c] = Closed(@)]
    /\ Goto("main", "test")
    /\ Keep(<<errno, running, socket_fd, cache, listener, installed, faults>>)

-----------------------------------------------------------------------------
(* cleanup_server, registered with atexit                                  *)

CleanupTest ==
  /\ At("main", "cl_test")
  /\ Goto("main", IF socket_fd THEN "cl_close" ELSE "destroy")
  /\ Keep(<<errno, world>>)

CleanupClose ==
  /\ At("main", "cl_close")
  /\ listener' = Closed(listener)
  /\ Goto("main", "cl_clear")
  /\ Keep(<<errno, running, socket_fd, cache, conn, installed, faults>>)

CleanupClear ==
  /\ At("main", "cl_clear")
  /\ socket_fd' = FALSE
  /\ Goto("main", "destroy")
  /\ Keep(<<errno, running, cache, listener, conn, installed, faults>>)

\* pod_cache_destroy, if there is a cache
DestroyCache ==
  /\ At("main", "destroy")
  /\ cache' = IF cache = "live" THEN "freed" ELSE cache
  /\ Goto("main", "log_end")
  /\ Keep(<<errno, running, socket_fd, listener, conn, installed, faults>>)

Main ==
  \/ StartServer \/ setup_signal_handlers \/ initialize_cache \/ CreateStatusThread
  \/ setup_server_socket \/ PublishSocket \/ TestRunning
  \/ (\E c \in Clients : AcceptClient(c)) \/ AcceptFails \/ AcceptFailed \/ SetupClient \/ DropClient
  \/ CleanupTest \/ CleanupClose \/ CleanupClear \/ DestroyCache

-----------------------------------------------------------------------------
(* client_handler_thread and display_cache_status                          *)

ClientTest(c) ==
  /\ At(c, "c_test")
  /\ Goto(c, IF running THEN "c_recv" ELSE "c_log_bye")
  /\ Keep(<<errno, world>>)

\* recv returns the bytes of a request, when the client sends one,
ClientRecv(c) ==
  /\ At(c, "c_recv") /\ count.requests < MaxRequests
  /\ count' = [count EXCEPT !.requests = @ + 1]
  /\ Goto(c, "c_serve")
  /\ UNCHANGED <<frames, lock, errno, world>>

\* or 0 or an error
ClientGone(c) ==
  /\ At(c, "c_recv")
  /\ Goto(c, "c_log_bye")
  /\ Keep(<<errno, world>>)

\* dispatch_command on the cache the thread was given; QUIT ends the loop.
ClientServe(c) ==
  /\ At(c, "c_serve")
  /\ \E next \in {"c_log_req", "c_log_bye"} : Goto(c, next)
  /\ Keep(<<errno, world>>)

\* Mutant: the socket is shut down and not closed.
ClientCloseShuts(c) ==
  /\ At(c, "c_close")
  /\ conn' = [conn EXCEPT ![c] = "shut"]
  /\ Goto(c, "done")
  /\ Keep(<<errno, running, socket_fd, cache, listener, installed, faults>>)

ClientClose(c) ==
  /\ At(c, "c_close")
  /\ conn' = [conn EXCEPT ![c] = Closed(@)]
  /\ Goto(c, "done")
  /\ Keep(<<errno, running, socket_fd, cache, listener, installed, faults>>)

StatusWakes ==
  /\ At("status", "s_sleep") /\ count.reports < MaxReports
  /\ count' = [count EXCEPT !.reports = @ + 1]
  /\ Goto("status", "s_log")
  /\ UNCHANGED <<frames, lock, errno, world>>

\* reads the byte counts of every partition
StatusReads ==
  /\ At("status", "s_read")
  /\ Goto("status", "s_sleep")
  /\ Keep(<<errno, world>>)

-----------------------------------------------------------------------------
(* signal_handler                                                          *)

Top(t) == frames[t][Len(frames[t])]
InHandler(t, l) == Alive /\ frames[t] # << >> /\ Top(t) = l
HandlerGoto(t, l) == frames' = [frames EXCEPT ![t][Len(frames[t])] = l]

\* SIGINT or SIGTERM arrives.  Each is blocked in its own handler only, so that
\* the other one may nest.
Deliver(t) ==
  /\ Alive /\ installed /\ t \in SignalThreads
  /\ pc[t] \notin {"off", "done"}
  /\ count.signals < MaxSignals
  /\ Len(frames[t]) < 2
  /\ SignalInLog \/ lock[1] # t
  /\ frames' = [frames EXCEPT ![t] = Append(@, "h_log")]
  /\ count' = [count EXCEPT !.signals = @ + 1]
  /\ UNCHANGED <<local, lock, world>>

HandlerLog(t) ==
  LET me == <<t, Len(frames[t])>> IN
  /\ InHandler(t, "h_log")
  /\ \/ lock = Free /\ lock' = me /\ UNCHANGED frames
     \/ lock = me /\ lock' = Free /\ HandlerGoto(t, "h_stop")
  /\ UNCHANGED <<local, world, count>>

HandlerStop(t) ==
  /\ InHandler(t, "h_stop")
  /\ running' = FALSE
  /\ HandlerGoto(t, "h_test")
  /\ UNCHANGED <<local, lock, count, socket_fd, cache, listener, conn, installed, faults>>

\* The handler returns.  A system call that it interrupted fails with EINTR.
HandlerReturn(t) ==
  /\ frames' = [frames EXCEPT ![t] = SubSeq(@, 1, Len(@) - 1)]
  /\ \/ UNCHANGED local
     \/ /\ Len(frames[t]) = 1 /\ pc[t] = "accept"
        /\ Goto(t, "failed") /\ errno' = "EINTR"
     \/ /\ Len(frames[t]) = 1 /\ pc[t] = "c_recv"
        /\ Goto(t, "c_log_bye") /\ UNCHANGED errno

\* Mutant: the handler only clears the flag, and leaves it to EINTR to wake up
\* accept.
HandlerTestReturns(t) ==
  /\ InHandler(t, "h_test")
  /\ HandlerReturn(t)
  /\ UNCHANGED <<lock, count, world>>

HandlerTest(t) ==
  /\ InHandler(t, "h_test")
  /\ IF socket_fd THEN HandlerGoto(t, "h_shutdown") /\ UNCHANGED local
                  ELSE HandlerReturn(t)
  /\ UNCHANGED <<lock, count, world>>

\* wakes up accept
HandlerShutdown(t) ==
  /\ InHandler(t, "h_shutdown")
  /\ listener' = IF listener = "open" THEN "shut" ELSE listener
  /\ HandlerGoto(t, "h_close")
  /\ UNCHANGED <<local, lock, count, running, socket_fd, cache, conn, installed, faults>>

HandlerClose(t) ==
  /\ InHandler(t, "h_close")
  /\ listener' = Closed(listener)
  /\ HandlerGoto(t, "h_clear")
  /\ UNCHANGED <<local, lock, count, running, socket_fd, cache, conn, installed, faults>>

HandlerClear(t) ==
  /\ InHandler(t, "h_clear")
  /\ socket_fd' = FALSE
  /\ HandlerReturn(t)
  /\ UNCHANGED <<lock, count, running, cache, listener, conn, installed, faults>>

-----------------------------------------------------------------------------
(* The environment, and the whole.                                         *)

Connect(c) ==
  /\ Alive /\ conn[c] = "none" /\ listener = "open"
  /\ conn' = [conn EXCEPT ![c] = "pending"]
  /\ UNCHANGED <<local, frames, lock, count, running, socket_fd, cache, listener, installed, faults>>

\* One step of thread t, in its own code or in a handler.
ThreadStep(t) ==
  \/ clog_log(t)
  \/ t = "main" /\ Main
  \/ t \in Clients /\ (ClientTest(t) \/ ClientServe(t) \/ ClientClose(t))
  \/ t = "status" /\ StatusReads
  \/ HandlerLog(t) \/ HandlerStop(t) \/ HandlerTest(t)
  \/ HandlerShutdown(t) \/ HandlerClose(t) \/ HandlerClear(t)

\* What happens when it likes.
Environment ==
  \/ StatusWakes
  \/ \E c \in Clients : Connect(c) \/ ClientRecv(c) \/ ClientGone(c)
  \/ \E t \in Threads : Deliver(t)

\* The process is gone, or waits for clients and signals.
Over ==
  /\ ~ Alive \/ (pc["main"] = "accept" /\ lock = Free /\ \A t \in Threads : frames[t] = << >>)
  /\ UNCHANGED vars

Next == (\E t \in Threads : ThreadStep(t)) \/ Environment \/ Over

\* Every thread that can run does.
Spec == Init /\ [][Next]_vars /\ \A t \in Threads : WF_vars(ThreadStep(t))
-----------------------------------------------------------------------------
(* What must hold.                                                         *)

\* README: "Graceful shutdown on SIGINT/SIGTERM".  Once a signal was delivered
\* the process exits, whatever main, the clients and the status thread were
\* doing: a signal between the test of running and accept is not lost.
ShutdownCompletes == (count.signals > 0) ~> ~ Alive

\* A client that connects is accepted, or its connection closed, unless the
\* server is going down.
ClientsAccepted ==
  \A c \in Clients : (conn[c] = "pending") ~> (conn[c] # "pending" \/ ~ running \/ ~ Alive)

\* The server ends only because of a signal or because it could not start: no
\* failure in the accept loop ends it.
EndsOnlyWhenTold ==
  pc["main"] \in {"log_exit", "cl_test", "exited"} /\ listener = "open" /\ socket_fd =>
    count.signals > 0

\* The connection of a client is closed once: by its thread, or by the accept
\* loop if there is no thread.
ConnectionsClosedOnce ==
  \A c \in Clients : /\ conn[c] # "closed twice"
                     /\ pc[c] = "done" => conn[c] = "closed"
                     /\ conn[c] = "open" /\ pc[c] = "off" /\ Alive =>
                          pc["main"] \in {"log_new", "setup", "log_drop", "drop"}

\* README: "Graceful shutdown".  No thread uses the cache after it was freed.
NoUseAfterFree ==
  cache = "freed" /\ Alive =>
    /\ \A c \in Clients : ~ At(c, "c_serve")
    /\ ~ At("status", "s_read")
=============================================================================
