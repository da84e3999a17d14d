---------------------------- MODULE ServerProofs ----------------------------
(***************************************************************************)
(* What is proved of Server, for any set of clients, any number of         *)
(* signals, reports and requests, and whatever calls fail.                 *)
(*                                                                         *)
(* ServerInv says where each thread may be (Labels), what the shared       *)
(* variables hold (Typed) and what relates them: a handler runs only after *)
(* a signal (Signalled), accept's error is on its way to the loop          *)
(* (Failed), how long the socket is published (Published), why main left   *)
(* the loop (Told), and which thread has a connection (Handed). A step of  *)
(* one thread, or of a handler on its stack, is shown to disturb none of   *)
(* it.                                                                     *)
(***************************************************************************)
EXTENDS Server, SequenceTheorems, TLAPS

\* Every thread has labels of its own.
MainOwn == MainLabels \cup {"log_start", "log_ready", "log_accept", "log_new", "log_drop",
                            "log_fail", "log_exit", "log_end", "crashed"}
\* the threads of the clients,
ClientOwn == ClientLabels \cup {"c_log_hello", "c_log_req", "c_log_bye"}
\* and the status thread.
StatusOwn == StatusLabels \cup {"s_log"}

\* The labels at which the logger is called,
LEMMA LogDomain ==
  DOMAIN LogNext = {"log_start", "log_ready", "log_accept", "log_new", "log_drop", "log_fail",
                    "log_exit", "log_end", "c_log_hello", "c_log_req", "c_log_bye", "s_log"}
BY DEF LogNext

\* and those its calls lead to.
LEMMA LogSteps ==
  /\ LogNext["log_start"] = "cache" /\ LogNext["log_ready"] = "test"
  /\ LogNext["log_accept"] = "test" /\ LogNext["log_new"] = "setup"
  /\ LogNext["log_drop"] = "drop" /\ LogNext["log_fail"] = "log_exit"
  /\ LogNext["log_exit"] = "cl_test" /\ LogNext["log_end"] = "exited"
  /\ LogNext["c_log_hello"] = "c_test" /\ LogNext["c_log_req"] = "c_test"
  /\ LogNext["c_log_bye"] = "c_close" /\ LogNext["s_log"] = "s_read"
BY DEF LogNext

\* Where the threads may be.
Labels ==
  /\ pc \in [Threads -> MainOwn \cup ClientOwn \cup StatusOwn \cup {"off"}]
  /\ pc["main"] \in MainOwn
  /\ pc["status"] \in StatusOwn \cup {"off"}
  /\ \A c \in Clients : pc[c] \in ClientOwn \cup {"off"}

\* No client is main or the status thread.
LEMMA ThreadsApart ==
  /\ "main" \in Threads /\ "status" \in Threads /\ "main" # "status"
  /\ \A c \in Clients : c \in Threads /\ c # "main" /\ c # "status"
BY ServerAssumption DEF Threads

\* The label a call of the logger leads to.
LEMMA LogLabels ==
  ASSUME Labels, NEW t \in Threads, pc[t] \in DOMAIN LogNext
  PROVE  /\ t = "main" => LogNext[pc[t]] \in MainOwn
         /\ t = "status" => LogNext[pc[t]] \in StatusOwn
         /\ t \in Clients => LogNext[pc[t]] \in ClientOwn \ {"done"} /\ pc[t] # "off"
BY LogDomain, LogSteps
   DEF Labels, MainOwn, ClientOwn, StatusOwn, MainLabels, ClientLabels, StatusLabels

-----------------------------------------------------------------------------
(* Labels.                                                                 *)

\* The ways a step moves the threads' program counters.
MainMoves == \E l \in MainOwn : Goto("main", l)
\* pthread_create of the status thread,
StatusCreated == pc' = [pc EXCEPT !["main"] = "socket", !["status"] = "s_sleep"]
\* and of the thread of client c.
ClientCreated(c) ==
  /\ pc["main"] = "setup" /\ conn[c] = "open" /\ pc[c] = "off"
  /\ pc' = [pc EXCEPT !["main"] = "test", ![c] = "c_log_hello"]

\* A step of main moves main alone, or creates a thread.
LEMMA MainStep ==
  Main => MainMoves \/ StatusCreated \/ \E c \in Clients : ClientCreated(c)
<1> SUFFICES ASSUME Main PROVE MainMoves \/ StatusCreated \/ \E c \in Clients : ClientCreated(c)
  OBVIOUS
<1> USE DEF MainMoves, MainOwn, MainLabels
<1>1. CASE StartServer \/ setup_signal_handlers \/ initialize_cache
  BY <1>1 DEF StartServer, setup_signal_handlers, initialize_cache
<1>2. CASE CreateStatusThread
  BY <1>2 DEF CreateStatusThread, StatusCreated
<1>3. CASE setup_server_socket \/ PublishSocket \/ TestRunning
  BY <1>3 DEF setup_server_socket, PublishSocket, TestRunning
<1>4. CASE (\E c \in Clients : AcceptClient(c)) \/ AcceptFails \/ AcceptFailed
  BY <1>4 DEF AcceptClient, AcceptFails, AcceptFailed
<1>5. CASE SetupClient
  BY <1>5 DEF SetupClient, ClientCreated, At
<1>6. CASE DropClient
  BY <1>6 DEF DropClient
<1>7. CASE CleanupTest \/ CleanupClose \/ CleanupClear \/ DestroyCache
  BY <1>7 DEF CleanupTest, CleanupClose, CleanupClear, DestroyCache
<1> QED BY <1>1, <1>2, <1>3, <1>4, <1>5, <1>6, <1>7 DEF Main

\* Client and status threads stay at labels of their own.
LEMMA LabelsStep ==
  ASSUME Labels, [Next]_vars PROVE Labels'
<1> USE ThreadsApart
<1>1. ASSUME NEW t \in Threads, NEW l, Goto(t, l),
             t = "main" => l \in MainOwn,
             t = "status" => l \in StatusOwn,
             t \in Clients => l \in ClientOwn
      PROVE  Labels'
  BY <1>1 DEF Goto, Labels, Threads
<1>2. CASE pc' = pc
  BY <1>2 DEF Labels
<1>3. CASE StatusCreated
  BY <1>3 DEF StatusCreated, Labels, MainOwn, MainLabels, StatusOwn, StatusLabels
<1>4. ASSUME NEW c \in Clients, ClientCreated(c) PROVE Labels'
  BY <1>4 DEF ClientCreated, Labels, MainOwn, MainLabels, ClientOwn
<1>5. CASE Main
  BY <1>1, <1>3, <1>4, <1>5, MainStep DEF MainMoves
<1>6. ASSUME NEW t \in Threads, clog_log(t) PROVE Labels'
  BY <1>1, <1>2, <1>6, LogLabels DEF clog_log
<1>7. ASSUME NEW c \in Clients,
             ClientTest(c) \/ ClientServe(c) \/ ClientClose(c) \/ ClientRecv(c) \/ ClientGone(c)
      PROVE  Labels'
  BY <1>1, <1>7
     DEF ClientTest, ClientServe, ClientClose, ClientRecv, ClientGone, ClientOwn, ClientLabels
<1>8. CASE StatusReads \/ StatusWakes
  BY <1>1, <1>8 DEF StatusReads, StatusWakes, StatusOwn, StatusLabels
<1>9. ASSUME NEW t \in Threads, HandlerReturn(t) PROVE Labels'
  <2>1. CASE pc[t] = "accept" /\ Goto(t, "failed")
    BY <1>1, <2>1 DEF Labels, MainOwn, MainLabels, ClientOwn, ClientLabels, StatusOwn, StatusLabels
  <2>2. CASE pc[t] = "c_recv" /\ Goto(t, "c_log_bye")
    BY <1>1, <2>2 DEF Labels, MainOwn, MainLabels, ClientOwn, ClientLabels, StatusOwn, StatusLabels
  <2> QED BY <1>2, <1>9, <2>1, <2>2 DEF HandlerReturn, local
<1>10. ASSUME NEW t \in Threads,
              \/ HandlerLog(t) \/ HandlerStop(t) \/ HandlerTest(t)
              \/ HandlerShutdown(t) \/ HandlerClose(t) \/ HandlerClear(t) \/ Deliver(t)
       PROVE  Labels'
  BY <1>2, <1>9, <1>10
     DEF HandlerLog, HandlerStop, HandlerTest, HandlerShutdown, HandlerClose, HandlerClear,
                           Deliver, local
<1>11. ASSUME NEW c \in Clients, Connect(c) PROVE Labels'
  BY <1>2, <1>11 DEF Connect, local
<1>12. CASE Over \/ UNCHANGED vars
  BY <1>2, <1>12 DEF Over, vars
<1> QED BY <1>5, <1>6, <1>7, <1>8, <1>10, <1>11, <1>12 DEF Next, ThreadStep, Environment

-----------------------------------------------------------------------------
(* The inductive invariant.                                                *)

\* The types of the other variables; faults has none.
Typed ==
  /\ frames \in [Threads -> Seq(HandlerLabels)]
  /\ lock = Free \/ \E t \in Threads, n \in Nat : lock = <<t, n>>
  /\ running \in BOOLEAN /\ socket_fd \in BOOLEAN /\ installed \in BOOLEAN
  /\ cache \in {"none", "live", "freed"}
  /\ listener \in {"none", "open", "shut", "closed", "closed twice"}
  /\ conn \in [Clients -> {"none", "pending", "open", "closed", "closed twice"}]
  /\ errno \in {"none", "EINTR", "EBADF", "EINVAL", "other"}
  /\ count \in [signals : Nat, reports : Nat, requests : Nat]

\* A handler runs, and the flag is cleared, only after a signal.
Signalled ==
  /\ \A t \in Threads : frames[t] # << >> => count.signals > 0
  /\ ~ running /\ pc["main"] # "init" => count.signals > 0

\* accept's error is on its way to the loop, and EBADF is about a closed socket.
Failed ==
  /\ errno # "none" => pc["main"] = "failed"
  /\ errno = "EBADF" => listener \in {"closed", "closed twice"}

\* The socket is published only while the loop runs and until the cleanup is past it.
Published ==
  socket_fd => pc["main"] \in {"log_ready", "test", "accept", "failed", "log_accept", "log_new",
                               "setup", "log_drop", "drop", "log_exit", "cl_test", "cl_close", "cl_clear"}

\* The loop was left because of a signal, or because the socket is not usable.
Told ==
  pc["main"] \in {"log_exit", "cl_test"} /\ listener = "open" /\ socket_fd => count.signals > 0

\* A client's connection is open from accept to the end of its thread, and is
\* without a thread only while the loop creates one, for one client at a time.
Handed ==
  /\ \A c \in Clients :
       /\ pc[c] \notin {"off", "done"} => conn[c] = "open"
       /\ pc[c] = "done" => conn[c] = "closed"
       /\ conn[c] # "closed twice"
       /\ conn[c] = "open" /\ pc[c] = "off" => pc["main"] \in {"log_new", "setup", "log_drop", "drop"}
  /\ \A c, d \in Clients :
       conn[c] = "open" /\ pc[c] = "off" /\ conn[d] = "open" /\ pc[d] = "off" => c = d

\* The inductive invariant.
ServerInv == Labels /\ Typed /\ Signalled /\ Failed /\ Published /\ Told /\ Handed

\* What the invariant says besides the labels.
Rest == Typed /\ Signalled /\ Failed /\ Published /\ Told /\ Handed

\* No socket, no connection, and every thread but main off.
LEMMA InitServerInv == Init => ServerInv
<1> SUFFICES ASSUME Init PROVE ServerInv
  OBVIOUS
<1> USE ThreadsApart DEF Init
<1>1. Labels
  BY DEF Labels, MainOwn, MainLabels, ClientOwn, StatusOwn
<1>2. Typed
  <2>1. frames \in [Threads -> Seq(HandlerLabels)]
    OBVIOUS
  <2> QED BY <2>1 DEF Typed
<1>3. Signalled /\ Failed /\ Published /\ Told /\ Handed
  BY DEF Signalled, Failed, Published, Told, Handed
<1> QED BY <1>1, <1>2, <1>3 DEF ServerInv

\* start_tcp_server until the socket is published.
LEMMA StartInv ==
  ASSUME ServerInv,
         \/ StartServer \/ setup_signal_handlers \/ initialize_cache \/ CreateStatusThread
         \/ setup_server_socket \/ PublishSocket
  PROVE  Rest'
<1> USE ThreadsApart DEF ServerInv, At, Goto, Keep, Fault, Labels
<1>1. CASE StartServer
  <2>1. Typed'
    BY <1>1 DEF StartServer, Typed
  <2>2. (Signalled /\ Failed /\ Published /\ Told)'
    BY <1>1 DEF StartServer, Signalled, Failed, Published, Told
  <2>3. Handed'
    BY <1>1 DEF StartServer, Handed
  <2> QED BY <2>1, <2>2, <2>3 DEF Rest
<1>2. CASE setup_signal_handlers
  <2>1. Typed'
    BY <1>2, ZenonT(60) DEF setup_signal_handlers, Typed
  <2>2. (Signalled /\ Failed /\ Published /\ Told)'
    BY <1>2 DEF setup_signal_handlers, Signalled, Failed, Published, Told
  <2>3. Handed'
    BY <1>2 DEF setup_signal_handlers, Handed
  <2> QED BY <2>1, <2>2, <2>3 DEF Rest
<1>3. CASE initialize_cache
  <2>1. Typed'
    BY <1>3, ZenonT(60) DEF initialize_cache, Typed
  <2>2. (Signalled /\ Failed /\ Published /\ Told)'
    BY <1>3 DEF initialize_cache, Signalled, Failed, Published, Told
  <2>3. Handed'
    BY <1>3 DEF initialize_cache, Handed
  <2> QED BY <2>1, <2>2, <2>3 DEF Rest
<1>4. CASE CreateStatusThread
  <2>1. Typed'
    BY <1>4, ZenonT(60) DEF CreateStatusThread, Typed
  <2>2. (Signalled /\ Failed /\ Published /\ Told)'
    BY <1>4 DEF CreateStatusThread, Signalled, Failed, Published, Told
  <2>3. Handed'
    BY <1>4 DEF CreateStatusThread, Handed
  <2> QED BY <2>1, <2>2, <2>3 DEF Rest
<1>5. CASE setup_server_socket
  <2>1. Typed'
    BY <1>5 DEF setup_server_socket, Typed
  <2>2. (Signalled /\ Failed /\ Published /\ Told)'
    BY <1>5 DEF setup_server_socket, Signalled, Failed, Published, Told
  <2>3. Handed'
    BY <1>5 DEF setup_server_socket, Handed
  <2> QED BY <2>1, <2>2, <2>3 DEF Rest
<1>6. CASE PublishSocket
  <2>1. Typed'
    BY <1>6 DEF PublishSocket, Typed
  <2>2. (Signalled /\ Failed /\ Published /\ Told)'
    BY <1>6 DEF PublishSocket, Signalled, Failed, Published, Told
  <2>3. Handed'
    BY <1>6 DEF PublishSocket, Handed
  <2> QED BY <2>1, <2>2, <2>3 DEF Rest
<1> QED BY <1>1, <1>2, <1>3, <1>4, <1>5, <1>6

\* The accept loop.
LEMMA LoopInv ==
  ASSUME ServerInv,
         \/ TestRunning \/ (\E c \in Clients : AcceptClient(c))
         \/ AcceptFails \/ AcceptFailed \/ SetupClient \/ DropClient
  PROVE  Rest'
<1> USE ThreadsApart DEF ServerInv, At, Goto, Keep, Fault, Labels, world
<1>1. CASE TestRunning
  <2>1. Typed'
    BY <1>1 DEF TestRunning, Typed
  <2>2. (Signalled /\ Failed /\ Published /\ Told)'
    BY <1>1 DEF TestRunning, Signalled, Failed, Published, Told
  <2>3. Handed'
    BY <1>1 DEF TestRunning, Handed
  <2> QED BY <2>1, <2>2, <2>3 DEF Rest
<1>2. ASSUME NEW c \in Clients, AcceptClient(c) PROVE Rest'
  <2> conn \in [Clients -> {"none", "pending", "open", "closed", "closed twice"}]
    BY DEF Typed
  <2>1. Typed'
    BY <1>2 DEF AcceptClient, Typed
  <2>2. (Signalled /\ Failed /\ Published /\ Told)'
    BY <1>2 DEF AcceptClient, Signalled, Failed, Published, Told
  <2>3. Handed'
    BY <1>2, ZenonT(60) DEF AcceptClient, Handed
  <2> QED BY <2>1, <2>2, <2>3 DEF Rest
<1>3. CASE AcceptFails
  <2>1. Typed'
    BY <1>3 DEF AcceptFails, Typed
  <2>2. (Signalled /\ Failed /\ Published /\ Told)'
    BY <1>3 DEF AcceptFails, Signalled, Failed, Published, Told
  <2>3. Handed'
    BY <1>3 DEF AcceptFails, Handed
  <2> QED BY <2>1, <2>2, <2>3 DEF Rest
<1>4. CASE AcceptFailed
  <2>1. Typed'
    BY <1>4 DEF AcceptFailed, Typed
  <2>2. (Signalled /\ Failed /\ Published /\ Told)'
    BY <1>4 DEF AcceptFailed, Signalled, Failed, Published, Told
  <2>3. Handed'
    BY <1>4 DEF AcceptFailed, Handed
  <2> QED BY <2>1, <2>2, <2>3 DEF Rest
<1>5. CASE SetupClient
  <2> conn \in [Clients -> {"none", "pending", "open", "closed", "closed twice"}]
    BY DEF Typed
  <2> PICK c \in Clients :
        /\ conn[c] = "open" /\ pc[c] = "off"
        /\ \/ pc' = [pc EXCEPT !["main"] = "test", ![c] = "c_log_hello"]
           \/ pc' = [pc EXCEPT !["main"] = "log_drop"]
    BY <1>5 DEF SetupClient
  <2> /\ pc["main"] = "setup"
      /\ UNCHANGED <<frames, lock, count, errno, running, socket_fd, cache, listener, conn, installed>>
    BY <1>5 DEF SetupClient
  <2> pc'["main"] \in {"test", "log_drop"}
    OBVIOUS
  <2>1. Typed'
    BY ZenonT(60) DEF Typed
  <2>2. (Signalled /\ Failed /\ Published /\ Told)'
    BY DEF Signalled, Failed, Published, Told
  <2>3. Handed'
    <3>1. CASE pc' = [pc EXCEPT !["main"] = "test", ![c] = "c_log_hello"]
      BY <3>1, ZenonT(60) DEF Handed
    <3>2. CASE pc' = [pc EXCEPT !["main"] = "log_drop"]
      BY <3>2, ZenonT(60) DEF Handed
    <3> QED BY <3>1, <3>2
  <2> QED BY <2>1, <2>2, <2>3 DEF Rest
<1>6. CASE DropClient
  <2> conn \in [Clients -> {"none", "pending", "open", "closed", "closed twice"}]
    BY DEF Typed
  <2> PICK c \in Clients :
        /\ conn[c] = "open" /\ pc[c] = "off"
        /\ conn' = [conn EXCEPT ![c] = "closed"] /\ pc' = [pc EXCEPT !["main"] = "test"]
    BY <1>6 DEF DropClient, Closed
  <2> /\ pc["main"] = "drop" /\ pc'["main"] = "test"
      /\ UNCHANGED <<frames, lock, count, errno, running, socket_fd, cache, listener, installed>>
    BY <1>6 DEF DropClient
  <2>1. Typed'
    BY ZenonT(60) DEF Typed
  <2>2. (Signalled /\ Failed /\ Published /\ Told)'
    BY DEF Signalled, Failed, Published, Told
  <2>3. Handed'
    BY ZenonT(60) DEF Handed
  <2> QED BY <2>1, <2>2, <2>3 DEF Rest
<1> QED BY <1>1, <1>2, <1>3, <1>4, <1>5, <1>6

\* What comes after the loop.
LEMMA CleanupInv ==
  ASSUME ServerInv, CleanupTest \/ CleanupClose \/ CleanupClear \/ DestroyCache
  PROVE  Rest'
<1> USE ThreadsApart DEF ServerInv, At, Goto, Keep, Labels, world, Closed
<1>1. CASE CleanupTest
  <2>1. Typed'
    BY <1>1 DEF CleanupTest, Typed
  <2>2. (Signalled /\ Failed /\ Published /\ Told)'
    BY <1>1 DEF CleanupTest, Signalled, Failed, Published, Told
  <2>3. Handed'
    BY <1>1 DEF CleanupTest, Handed
  <2> QED BY <2>1, <2>2, <2>3 DEF Rest
<1>2. CASE CleanupClose
  <2>1. Typed'
    BY <1>2 DEF CleanupClose, Typed
  <2>2. (Signalled /\ Failed /\ Published /\ Told)'
    BY <1>2 DEF CleanupClose, Signalled, Failed, Published, Told
  <2>3. Handed'
    BY <1>2 DEF CleanupClose, Handed
  <2> QED BY <2>1, <2>2, <2>3 DEF Rest
<1>3. CASE CleanupClear
  <2>1. Typed'
    BY <1>3 DEF CleanupClear, Typed
  <2>2. (Signalled /\ Failed /\ Published /\ Told)'
    BY <1>3 DEF CleanupClear, Signalled, Failed, Published, Told
  <2>3. Handed'
    BY <1>3 DEF CleanupClear, Handed
  <2> QED BY <2>1, <2>2, <2>3 DEF Rest
<1>4. CASE DestroyCache
  <2>1. Typed'
    BY <1>4 DEF DestroyCache, Typed
  <2>2. (Signalled /\ Failed /\ Published /\ Told)'
    BY <1>4 DEF DestroyCache, Signalled, Failed, Published, Told
  <2>3. Handed'
    BY <1>4 DEF DestroyCache, Handed
  <2> QED BY <2>1, <2>2, <2>3 DEF Rest
<1> QED BY <1>1, <1>2, <1>3, <1>4

\* A thread other than main moves on within its code.
LEMMA OwnStep ==
  ASSUME ServerInv, NEW t \in Threads \ {"main"}, NEW l \in ClientOwn \cup StatusOwn, l # "done",
         pc[t] \notin {"off", "done"}, Goto(t, l)
  PROVE  (Signalled /\ Failed /\ Published /\ Told /\ Handed)'
         \/ ~ UNCHANGED <<frames, world, errno, count.signals>>
<1> USE ThreadsApart
<1> SUFFICES ASSUME UNCHANGED <<frames, world, errno, count.signals>>
             PROVE  (Signalled /\ Failed /\ Published /\ Told /\ Handed)'
  OBVIOUS
<1>1. pc' = [pc EXCEPT ![t] = l] /\ pc \in [Threads -> MainOwn \cup ClientOwn \cup StatusOwn \cup {"off"}]
  BY DEF Goto, ServerInv, Labels
<1>2. pc'["main"] = pc["main"]
  BY <1>1
<1>3. (Signalled /\ Failed /\ Published /\ Told)'
  BY <1>2 DEF ServerInv, Signalled, Failed, Published, Told, world
<1>4. Handed'
  BY <1>1, <1>2 DEF ServerInv, Handed, world, ClientOwn, StatusOwn, ClientLabels, StatusLabels
<1> QED BY <1>3, <1>4

\* A call of the logger, on any thread, that waits for the lock or takes it.
LEMMA LogInv ==
  ASSUME ServerInv, NEW t \in Threads, clog_log(t)
  PROVE  Rest'
<1> USE ThreadsApart DEF ServerInv
<1>1. Typed'
  <2>1. frames[t] \in Seq(HandlerLabels)
    BY DEF Typed
  <2>2. Len(frames[t]) \in Nat
    BY <2>1
  <2> QED BY <2>2 DEF clog_log, Typed, world
<1>2. CASE pc' = pc
  BY <1>1, <1>2 DEF clog_log, Rest, Signalled, Failed, Published, Told, Handed, world
<1>3. CASE t # "main" /\ Goto(t, LogNext[pc[t]])
  <2>1. /\ LogNext[pc[t]] \in ClientOwn \cup StatusOwn /\ LogNext[pc[t]] # "done"
        /\ pc[t] \notin {"off", "done"}
    BY <1>3, LogDomain, LogLabels DEF clog_log, Threads, StatusOwn, StatusLabels
  <2> QED BY <1>1, <1>3, <2>1, OwnStep DEF clog_log, Rest
<1>4. CASE t = "main" /\ Goto("main", LogNext[pc["main"]])
  <2>1. /\ pc' = [pc EXCEPT !["main"] = LogNext[pc["main"]]]
        /\ pc["main"] \in DOMAIN LogNext \cap MainOwn
        /\ UNCHANGED <<frames, world, errno, count>>
        /\ pc \in [Threads -> MainOwn \cup ClientOwn \cup StatusOwn \cup {"off"}]
    BY <1>4 DEF clog_log, Goto, Labels
  <2>2. \/ pc["main"] = "log_start" /\ pc'["main"] = "cache"
        \/ pc["main"] \in {"log_ready", "log_accept"} /\ pc'["main"] = "test"
        \/ pc["main"] = "log_drop" /\ pc'["main"] = "drop"
        \/ pc["main"] = "log_new" /\ pc'["main"] = "setup"
        \/ pc["main"] = "log_fail" /\ pc'["main"] = "log_exit"
        \/ pc["main"] = "log_exit" /\ pc'["main"] = "cl_test"
        \/ pc["main"] = "log_end" /\ pc'["main"] = "exited"
    BY <2>1, LogSteps, LogDomain DEF MainOwn, MainLabels
  <2>3. \A c \in Clients : pc'[c] = pc[c]
    BY <2>1
  <2>4. (Signalled /\ Failed /\ Published /\ Told)'
    BY <2>1, <2>2 DEF Signalled, Failed, Published, Told, world
  <2>5. /\ conn' = conn
        /\ pc["main"] \in {"log_new", "setup", "log_drop", "drop"} =>
             pc'["main"] \in {"log_new", "setup", "log_drop", "drop"}
    BY <2>1, <2>2 DEF world
  <2>6. Handed'
    BY <2>3, <2>5, ZenonT(60) DEF Handed
  <2> QED BY <1>1, <2>4, <2>6 DEF Rest
<1> QED BY <1>2, <1>3, <1>4 DEF clog_log

\* A client's thread closes its own connection, once.
LEMMA ClientInv ==
  ASSUME ServerInv, NEW c \in Clients,
         ClientTest(c) \/ ClientServe(c) \/ ClientClose(c) \/ ClientRecv(c) \/ ClientGone(c)
  PROVE  Rest'
<1> USE ThreadsApart DEF ServerInv
<1>1. CASE ClientTest(c) \/ ClientServe(c) \/ ClientGone(c) \/ ClientRecv(c)
  <2>1. /\ count' \in [signals : Nat, reports : Nat, requests : Nat]
        /\ count'.signals = count.signals
    <3>1. count \in [signals : Nat, reports : Nat, requests : Nat]
      BY DEF Typed
    <3>2. count' = count \/ count' = [count EXCEPT !.requests = @ + 1]
      BY <1>1 DEF ClientTest, ClientServe, ClientGone, ClientRecv, Keep
    <3> QED BY <3>1, <3>2
  <2>2. /\ UNCHANGED <<frames, world, errno>>
        /\ pc[c] \notin {"off", "done"}
        /\ \E l \in ClientOwn : l # "done" /\ Goto(c, l)
    BY <1>1 DEF ClientTest, ClientServe, ClientGone, ClientRecv, At, Keep, ClientOwn, ClientLabels
  <2>3. lock' = lock
    BY <1>1 DEF ClientTest, ClientServe, ClientGone, ClientRecv, Keep
  <2>4. Typed'
    BY <2>1, <2>2, <2>3 DEF Typed, world
  <2> QED BY <2>1, <2>2, <2>4, OwnStep DEF Rest
<1>2. CASE ClientClose(c)
  <2> conn \in [Clients -> {"none", "pending", "open", "closed", "closed twice"}]
    BY DEF Typed
  <2>1. /\ conn' = [conn EXCEPT ![c] = "closed"] /\ pc' = [pc EXCEPT ![c] = "done"]
        /\ pc[c] \notin {"off", "done"}
    BY <1>2 DEF ClientClose, Closed, Goto, At, Handed
  <2>2. UNCHANGED <<frames, lock, count, errno, running, socket_fd, cache, listener, installed, faults>>
    BY <1>2 DEF ClientClose, Keep
  <2>3. pc \in [Threads -> MainOwn \cup ClientOwn \cup StatusOwn \cup {"off"}]
    BY DEF Labels
  <2>4. Typed'
    BY <2>1, <2>2 DEF Typed
  <2>5. (Signalled /\ Failed /\ Published /\ Told)'
    BY <2>1, <2>2, <2>3 DEF Signalled, Failed, Published, Told
  <2>6. Handed'
    BY <2>1, <2>3 DEF Handed
  <2> QED BY <2>4, <2>5, <2>6 DEF Rest
<1> QED BY <1>1, <1>2

\* The status thread.
LEMMA StatusInv ==
  ASSUME ServerInv, StatusReads \/ StatusWakes
  PROVE  Rest'
<1> USE ThreadsApart DEF ServerInv
<1>1. /\ count' \in [signals : Nat, reports : Nat, requests : Nat]
      /\ count'.signals = count.signals
  <2>1. count \in [signals : Nat, reports : Nat, requests : Nat]
    BY DEF Typed
  <2>2. count' = count \/ count' = [count EXCEPT !.reports = @ + 1]
    BY DEF StatusReads, StatusWakes, Keep
  <2> QED BY <2>1, <2>2
<1>2. /\ UNCHANGED <<frames, world, errno>>
      /\ pc["status"] \notin {"off", "done"}
      /\ \E l \in StatusOwn : l # "done" /\ Goto("status", l)
  BY DEF StatusReads, StatusWakes, At, Keep, StatusOwn, StatusLabels
<1>3. lock' = lock
  BY DEF StatusReads, StatusWakes, Keep
<1>4. Typed'
  BY <1>1, <1>2, <1>3 DEF Typed, world
<1> QED BY <1>1, <1>2, <1>4, OwnStep DEF Rest

\* A client connects.
LEMMA ConnectInv ==
  ASSUME ServerInv, NEW c \in Clients, Connect(c)
  PROVE  Rest'
<1> USE ThreadsApart DEF ServerInv
<1>1. conn \in [Clients -> {"none", "pending", "open", "closed", "closed twice"}]
  BY DEF Typed
<1>2. Typed'
  BY DEF Connect, Typed, local
<1>3. (Signalled /\ Failed /\ Published /\ Told)'
  BY DEF Connect, Signalled, Failed, Published, Told, local
<1>4. Handed'
  BY <1>1 DEF Connect, Handed, local
<1> QED BY <1>2, <1>3, <1>4 DEF Rest

\* The stack of handlers stays one.
LEMMA StackTyped ==
  ASSUME NEW s \in Seq(HandlerLabels), NEW l \in HandlerLabels
  PROVE  /\ Append(s, l) \in Seq(HandlerLabels)
         /\ s # << >> => [s EXCEPT ![Len(s)] = l] \in Seq(HandlerLabels)
         /\ s # << >> => SubSeq(s, 1, Len(s) - 1) \in Seq(HandlerLabels)
<1>1. Append(s, l) \in Seq(HandlerLabels)
  OBVIOUS
<1>2. ASSUME s # << >> PROVE Len(s) \in 1 .. Len(s) /\ Len(s) - 1 \in 0 .. Len(s) /\ Len(s) \in Nat
  BY <1>2
<1>3. ASSUME s # << >> PROVE [s EXCEPT ![Len(s)] = l] \in Seq(HandlerLabels)
  BY <1>2, <1>3, ExceptSeq
<1>4. ASSUME s # << >> PROVE SubSeq(s, 1, Len(s) - 1) \in Seq(HandlerLabels)
  BY <1>2, <1>4
<1> QED BY <1>1, <1>3, <1>4

\* Counting a signal.
LEMMA SignalCounted ==
  ASSUME NEW c \in [signals : Nat, reports : Nat, requests : Nat]
  PROVE  /\ [c EXCEPT !.signals = @ + 1] \in [signals : Nat, reports : Nat, requests : Nat]
         /\ [c EXCEPT !.signals = @ + 1].signals > 0
OBVIOUS

\* A signal interrupts thread t.
LEMMA DeliverInv ==
  ASSUME ServerInv, NEW t \in Threads, Deliver(t)
  PROVE  Rest'
<1> USE ThreadsApart DEF ServerInv
<1>1. /\ frames' = [frames EXCEPT ![t] = Append(frames[t], "h_log")]
      /\ count' = [count EXCEPT !.signals = @ + 1]
      /\ UNCHANGED <<local, lock, world>>
  BY DEF Deliver
<1>2. frames \in [Threads -> Seq(HandlerLabels)] /\ count \in [signals : Nat, reports : Nat, requests : Nat]
  BY DEF Typed
<1>3. Append(frames[t], "h_log") \in Seq(HandlerLabels)
  BY <1>2, StackTyped DEF HandlerLabels
<1>4. frames' \in [Threads -> Seq(HandlerLabels)]
  BY <1>1, <1>2, <1>3
<1>5. count' \in [signals : Nat, reports : Nat, requests : Nat] /\ count'.signals > 0
  BY <1>1, <1>2, SignalCounted
<1>6. Typed'
  BY <1>1, <1>4, <1>5 DEF Typed, local, world
<1>7. (Signalled /\ Failed /\ Published /\ Told /\ Handed)'
  BY <1>1, <1>5 DEF Signalled, Failed, Published, Told, Handed, local, world
<1> QED BY <1>6, <1>7 DEF Rest

\* A handler's stack after each of its steps, and the signal it answers.
LEMMA HandlerStack ==
  ASSUME ServerInv, NEW t \in Threads, frames[t] # << >>,
         frames' = frames \/ (\E l \in HandlerLabels : HandlerGoto(t, l)) \/ HandlerReturn(t)
  PROVE  frames' \in [Threads -> Seq(HandlerLabels)] /\ count.signals > 0
<1>1. frames \in [Threads -> Seq(HandlerLabels)]
  BY DEF ServerInv, Typed
<1>2. count.signals > 0
  BY DEF ServerInv, Signalled
<1>3. ASSUME NEW l \in HandlerLabels, HandlerGoto(t, l) PROVE frames' \in [Threads -> Seq(HandlerLabels)]
  <2>1. [frames[t] EXCEPT ![Len(frames[t])] = l] \in Seq(HandlerLabels)
    BY <1>1, StackTyped
  <2> QED BY <1>1, <1>3, <2>1 DEF HandlerGoto
<1>4. CASE HandlerReturn(t)
  <2>1. PICK s \in Seq(HandlerLabels) : s = SubSeq(frames[t], 1, Len(frames[t]) - 1)
    BY <1>1, StackTyped DEF HandlerLabels
  <2>2. frames' = [frames EXCEPT ![t] = s]
    BY <1>4, <2>1 DEF HandlerReturn
  <2> QED BY <1>1, <1>2, <2>2
<1> QED BY <1>1, <1>2, <1>3, <1>4

\* The label of a thread whose handler returns.
LEMMA ReturnMoves ==
  ASSUME ServerInv, NEW t \in Threads, HandlerReturn(t)
  PROVE  \/ UNCHANGED local
         \/ /\ t = "main" /\ pc["main"] = "accept" /\ errno' = "EINTR"
            /\ pc' = [pc EXCEPT !["main"] = "failed"]
         \/ /\ t \in Clients /\ pc[t] = "c_recv" /\ errno' = errno
            /\ pc' = [pc EXCEPT ![t] = "c_log_bye"]
BY ThreadsApart
   DEF HandlerReturn, Goto, ServerInv, Labels, MainOwn, ClientOwn, StatusOwn, MainLabels,
                    ClientLabels, StatusLabels, Threads

\* The statements of signal_handler, on the stack of thread t.
LEMMA HandlerInv ==
  ASSUME ServerInv, NEW t \in Threads,
         \/ HandlerLog(t) \/ HandlerStop(t) \/ HandlerTest(t)
         \/ HandlerShutdown(t) \/ HandlerClose(t) \/ HandlerClear(t)
  PROVE  Rest'
<1> USE ThreadsApart
<1>1. /\ frames[t] # << >>
      /\ frames' = frames \/ (\E l \in HandlerLabels : HandlerGoto(t, l)) \/ HandlerReturn(t)
      /\ UNCHANGED <<cache, conn, installed, faults, count>>
  BY DEF HandlerLog, HandlerStop, HandlerTest, HandlerShutdown, HandlerClose, HandlerClear, InHandler,
         HandlerLabels, world
<1>2. frames' \in [Threads -> Seq(HandlerLabels)] /\ count'.signals > 0
  BY <1>1, HandlerStack
<1>3. \/ UNCHANGED local
      \/ /\ t = "main" /\ pc["main"] = "accept" /\ errno' = "EINTR"
         /\ pc' = [pc EXCEPT !["main"] = "failed"]
      \/ /\ t \in Clients /\ pc[t] = "c_recv" /\ errno' = errno
         /\ pc' = [pc EXCEPT ![t] = "c_log_bye"]
  BY ReturnMoves
     DEF HandlerLog, HandlerStop, HandlerTest, HandlerShutdown, HandlerClose, HandlerClear
<1>4. pc \in [Threads -> MainOwn \cup ClientOwn \cup StatusOwn \cup {"off"}]
  BY DEF ServerInv, Labels
<1>5. \/ UNCHANGED <<pc, errno>>
      \/ /\ pc["main"] = "accept" /\ pc'["main"] = "failed" /\ errno' = "EINTR"
         /\ \A c \in Clients : pc'[c] = pc[c]
      \/ /\ pc'["main"] = pc["main"] /\ errno' = errno /\ t \in Clients
         /\ pc[t] = "c_recv" /\ pc'[t] = "c_log_bye"
         /\ \A c \in Clients \ {t} : pc'[c] = pc[c]
  BY <1>3, <1>4 DEF local
<1>6. /\ lock' \in {lock, Free, <<t, Len(frames[t])>>}
      /\ listener' \in {listener, "shut", "closed", "closed twice"}
      /\ listener \in {"closed", "closed twice"} => listener' \in {"closed", "closed twice"}
  BY DEF HandlerLog, HandlerStop, HandlerTest, HandlerShutdown, HandlerClose, HandlerClear, Closed, world
<1>7. running' \in BOOLEAN /\ socket_fd' \in BOOLEAN /\ (socket_fd' => socket_fd)
  <2>1. running \in BOOLEAN /\ socket_fd \in BOOLEAN
    BY DEF ServerInv, Typed
  <2>2. running' = running \/ running' = FALSE
    BY DEF HandlerLog, HandlerStop, HandlerTest, HandlerShutdown, HandlerClose, HandlerClear, world
  <2>3. socket_fd' = socket_fd \/ socket_fd' = FALSE
    BY DEF HandlerLog, HandlerStop, HandlerTest, HandlerShutdown, HandlerClose, HandlerClear, world
  <2>4. running' \in BOOLEAN
    BY <2>1, <2>2, Zenon
  <2>5. socket_fd' \in BOOLEAN
    BY <2>1, <2>3, Zenon
  <2>6. ASSUME socket_fd' PROVE socket_fd
    <3>1. CASE socket_fd' = socket_fd
      BY <2>6, <3>1
    <3>2. CASE socket_fd' = FALSE
      BY <2>6, <3>2
    <3> QED BY <2>3, <3>1, <3>2
  <2> QED BY <2>4, <2>5, <2>6
<1>8. Len(frames[t]) \in Nat
  <2>1. frames[t] \in Seq(HandlerLabels)
    BY DEF ServerInv, Typed
  <2> QED BY <2>1
<1>9. Typed'
  <2>1. lock' = Free \/ \E u \in Threads, n \in Nat : lock' = <<u, n>>
    BY <1>6, <1>8 DEF ServerInv, Typed
  <2> QED BY <1>1, <1>2, <1>5, <1>6, <1>7, <2>1 DEF ServerInv, Typed
<1>10. (Signalled /\ Told)'
  BY <1>2 DEF Signalled, Told
<1>11. (Failed /\ Published)'
  BY <1>5, <1>6, <1>7 DEF ServerInv, Failed, Published
<1>12. Handed'
  BY <1>1, <1>5, ZenonT(60) DEF ServerInv, Handed
<1> QED BY <1>9, <1>10, <1>11, <1>12 DEF Rest

\* The inductive step.
LEMMA NextServerInv ==
  ASSUME ServerInv, [Next]_vars PROVE ServerInv'
<1>1. Labels'
  BY LabelsStep DEF ServerInv
<1>2. CASE UNCHANGED vars
  <2>1. Typed'
    BY <1>2 DEF ServerInv, Typed, vars
  <2>2. (Signalled /\ Failed /\ Published /\ Told /\ Handed)'
    BY <1>2 DEF ServerInv, Signalled, Failed, Published, Told, Handed, vars
  <2> QED BY <1>1, <2>1, <2>2 DEF ServerInv
<1>3. ASSUME Main PROVE Rest'
  BY <1>3, StartInv, LoopInv, CleanupInv DEF Main
<1>4. ASSUME NEW t \in Threads, ThreadStep(t) PROVE Rest'
  BY <1>3, <1>4, LogInv, ClientInv, StatusInv, HandlerInv DEF ThreadStep
<1>5. ASSUME Environment PROVE Rest'
  BY <1>5, StatusInv, ConnectInv, ClientInv, DeliverInv DEF Environment
<1> QED BY <1>1, <1>2, <1>4, <1>5 DEF Next, Over, Rest, ServerInv

\* The invariant holds always.
LEMMA AlwaysServerInv == Spec => []ServerInv
<1> QED BY InitServerInv, NextServerInv, PTL DEF Spec

-----------------------------------------------------------------------------

\* Every variable of the server keeps its type, for any number of clients,
\* signals and failing calls; main, the client threads and the status thread
\* are always at a label of the program.
THEOREM ServerTypes == Spec => []TypeOK
<1>1. ServerInv => TypeOK
  <2> SUFFICES ASSUME ServerInv PROVE TypeOK
    OBVIOUS
  <2>1. pc \in [Threads -> MainLabels \cup ClientLabels \cup StatusLabels \cup DOMAIN LogNext
                             \cup {"off", "crashed"}]
    BY LogDomain DEF ServerInv, Labels, MainOwn, ClientOwn, StatusOwn
  <2>2. lock = Free \/ lock[1] \in Threads
    <3>1. ASSUME NEW t \in Threads, NEW n \in Nat, lock = <<t, n>> PROVE lock[1] \in Threads
      BY <3>1
    <3> QED BY <3>1 DEF ServerInv, Typed
  <2>3. \A t \in Threads : frames[t] \in Seq(HandlerLabels)
    BY DEF ServerInv, Typed
  <2> QED BY <2>1, <2>2, <2>3 DEF ServerInv, Typed, TypeOK
<1> QED BY <1>1, AlwaysServerInv, PTL

\* No failure in the accept loop ends the server: while the listening socket is
\* open and published, main leaves the loop only after a signal was delivered.
THEOREM ServerEndsOnlyWhenTold == Spec => []EndsOnlyWhenTold
<1>1. ServerInv => EndsOnlyWhenTold
  BY DEF ServerInv, Told, Published, EndsOnlyWhenTold
<1> QED BY <1>1, AlwaysServerInv, PTL

\* The connection of a client is closed once, by its thread, or by the accept
\* loop when the thread could not be created; and it is open without a thread
\* only while the loop is creating one.
THEOREM EveryConnectionClosedOnce == Spec => []ConnectionsClosedOnce
<1>1. ServerInv => ConnectionsClosedOnce
  BY DEF ServerInv, Handed, ConnectionsClosedOnce
<1> QED BY <1>1, AlwaysServerInv, PTL
=============================================================================
