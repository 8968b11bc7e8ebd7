----------------------------- MODULE RawGateway -----------------------------
(***************************************************************************)
(* The raw TCP/JetDirect gateway (src/airprint_server/raw_proxy.py): the   *)
(* process that systemd keeps running as airprint-server-raw.service.      *)
(*                                                                         *)
(* serve() binds one listener per configured route, starts one             *)
(* serve_forever thread per listener, waits for SIGTERM or SIGINT, and     *)
(* then shuts down and closes what it opened.  Each accepted connection    *)
(* gets a daemon thread that takes one of the JobSlots slots all listeners *)
(* share, spools the bytes it receives to a temporary file, gives the file *)
(* to lp and returns the slot.  The threads interleave freely, a bind, a   *)
(* thread start, a write or lp may fail, a client may send slowly, stop,   *)
(* reset or say nothing, and the process may be killed at any step.        *)
(*                                                                         *)
(* Route number i is the i-th of load_routes' sorted list and also names   *)
(* the queue of that route.  A byte stands for one unit of the client's    *)
(* data.  A connection is served once; a client that connects again is     *)
(* another member of Conns.                                                *)
(***************************************************************************)
EXTENDS Integers, Sequences, FiniteSets

CONSTANTS
  Conns,          \* the connections clients may open
  PrivateConns,   \* those whose peer address client_address_allowed accepts
  NRoutes,        \* number of configured routes
  JobSlots,       \* slots of the semaphore (4 in the code)
  MaxBytes,       \* MAX_JOB_BYTES
  ClientBytes     \* bound: the most bytes a client sends

ASSUME ConnsAssumption    == IsFiniteSet(Conns) /\ PrivateConns \subseteq Conns
ASSUME RoutesAssumption   == NRoutes \in Nat \ {0}
ASSUME SlotsAssumption    == JobSlots \in Nat \ {0}
ASSUME BytesAssumption    == MaxBytes \in Nat \ {0} /\ ClientBytes \in Nat

Routes == 1..NRoutes

VARIABLES
  main,     \* where serve() is
  at,       \* position of serve() in the list of the loop it is in
  servers,  \* length of the list `servers': listeners constructed so far
  started,  \* length of the list `started_servers'
  failed,   \* an exception is leaving serve()'s try block
  stopped,  \* the Event the signal handlers set
  sock,     \* per route, its listening socket
  loop,     \* per route, its serve_forever thread
  asked,    \* per route, whether shutdown() was called
  slots,    \* value of the semaphore
  st,       \* per connection, where its client or handler is
  via,      \* per connection, the route it arrived on (0: none yet)
  sent,     \* per connection, bytes the client wrote
  fin,      \* per connection, "open", "fin" (closed cleanly) or "reset"
  got,      \* per connection, the local variable `received'
  spool,    \* per connection, size of the temporary file, or NoFile
  how,      \* per connection, how reading or the connection ended
  logged,   \* connections for which a warning or an error was logged
  printed   \* per connection, the jobs CUPS queued for it

mainVars   == <<main, at, servers, started, failed, stopped>>
listenVars == <<sock, loop, asked>>
clientVars == <<via, sent, fin>>
jobVars    == <<got, spool, how, logged, printed>>
vars == <<mainVars, listenVars, slots, st, clientVars, jobVars>>

NoFile == -1

MainStates == {"bind", "start", "wait", "shutdown", "close", "returned", "exited"}
SlotStates == {"opening", "receiving", "submitting", "queued", "leaving"}
LiveStates == {"pending", "handler"} \cup SlotStates
ConnStates == {"away", "closed"} \cup LiveStates
Endings    == {"none", "eof", "idle", "reset", "toolarge", "ioerror", "refused", "killed"}
JobRecords == [queue : Routes, bytes : Nat]

Holders == {c \in Conns : st[c] \in SlotStates}
Running == main # "exited"

Init ==
  /\ main = "bind" /\ at = 1 /\ servers = 0 /\ started = 0
  /\ failed = FALSE /\ stopped = FALSE
  /\ sock = [r \in Routes |-> "none"]
  /\ loop = [r \in Routes |-> "none"]
  /\ asked = [r \in Routes |-> FALSE]
  /\ slots = JobSlots
  /\ st = [c \in Conns |-> "away"]
  /\ via = [c \in Conns |-> 0]
  /\ sent = [c \in Conns |-> 0]
  /\ fin = [c \in Conns |-> "open"]
  /\ got = [c \in Conns |-> 0]
  /\ spool = [c \in Conns |-> NoFile]
  /\ how = [c \in Conns |-> "none"]
  /\ logged = {}
  /\ printed = [c \in Conns |-> <<>>]

-----------------------------------------------------------------------------
(* The clients.  Bytes a client sends after the gateway has stopped        *)
(* reading its connection go nowhere and are left out.                     *)

Connect(c, r) ==
  /\ st[c] = "away" /\ sock[r] = "listening"
  /\ st' = [st EXCEPT ![c] = "pending"]
  /\ via' = [via EXCEPT ![c] = r]
  /\ UNCHANGED <<mainVars, listenVars, slots, sent, fin, jobVars>>

ClientWrites(c) == st[c] \in {"pending", "handler", "opening", "receiving"}

Send(c) ==
  /\ ClientWrites(c) /\ fin[c] = "open" /\ sent[c] < ClientBytes
  /\ sent' = [sent EXCEPT ![c] = @ + 1]
  /\ UNCHANGED <<mainVars, listenVars, slots, st, via, fin, jobVars>>

\* The client closes its side cleanly ("fin") or the connection is reset.
Hangup(c) ==
  /\ ClientWrites(c)
  /\ \E end \in {"fin", "reset"} :
       /\ fin[c] \notin {end, "reset"}
       /\ fin' = [fin EXCEPT ![c] = end]
  /\ UNCHANGED <<mainVars, listenVars, slots, st, via, sent, jobVars>>

-----------------------------------------------------------------------------
(* The main thread: serve().                                               *)

\* An exception leaves the try block: the finally clause starts.
Raise ==
  /\ failed' = TRUE /\ main' = "shutdown" /\ at' = 1

\* for route in routes: servers.append(_RawTCPServer(...)).  The constructor
\* closes its own socket when the bind fails.
Bind ==
  /\ main = "bind"
  /\ \/ /\ servers' = at
        /\ sock' = [sock EXCEPT ![at] = "listening"]
        /\ IF at = NRoutes THEN main' = "start" /\ at' = 1
                           ELSE main' = main /\ at' = at + 1
        /\ UNCHANGED failed
     \/ Raise /\ UNCHANGED <<servers, sock>>
  /\ UNCHANGED <<started, stopped, loop, asked, slots, st, clientVars, jobVars>>

\* for server in servers: thread.start(), started_servers.append(server).
Start ==
  /\ main = "start"
  /\ \/ /\ started' = at
        /\ loop' = [loop EXCEPT ![at] = "serving"]
        /\ IF at = NRoutes THEN main' = "wait" /\ at' = 1
                           ELSE main' = main /\ at' = at + 1
        /\ UNCHANGED failed
     \/ Raise /\ UNCHANGED <<started, loop>>
  /\ UNCHANGED <<servers, stopped, sock, asked, slots, st, clientVars, jobVars>>

Signal ==
  /\ Running /\ ~stopped
  /\ stopped' = TRUE
  /\ UNCHANGED <<main, at, servers, started, failed, listenVars, slots, st,
                 clientVars, jobVars>>

Wait ==
  /\ main = "wait" /\ stopped
  /\ main' = "shutdown" /\ at' = 1
  /\ UNCHANGED <<servers, started, failed, stopped, listenVars, slots, st,
                 clientVars, jobVars>>

\* Mutant: the finally clause shuts down every listener it constructed.
ShutdownList_AllServers == servers

\* The length of the list the first loop of the finally clause walks.
ShutdownList == started

\* server.shutdown() sets the request flag, then waits for the loop to end.
AskShutdown ==
  /\ main = "shutdown" /\ at <= ShutdownList /\ ~asked[at]
  /\ asked' = [asked EXCEPT ![at] = TRUE]
  /\ UNCHANGED <<mainVars, sock, loop, slots, st, clientVars, jobVars>>

AwaitShutdown ==
  /\ main = "shutdown" /\ at <= ShutdownList /\ asked[at] /\ loop[at] = "ended"
  /\ at' = at + 1
  /\ UNCHANGED <<main, servers, started, failed, stopped, listenVars, slots, st,
                 clientVars, jobVars>>

ShutdownDone ==
  /\ main = "shutdown" /\ at > ShutdownList
  /\ main' = "close" /\ at' = 1
  /\ UNCHANGED <<servers, started, failed, stopped, listenVars, slots, st,
                 clientVars, jobVars>>

\* Mutant: only the listeners whose thread was started are closed.
CloseList_Started == started

\* The length of the list the second loop of the finally clause walks.
CloseList == servers

\* server.server_close(): the kernel resets what was not accepted yet.  Daemon
\* handler threads are not joined.
Close ==
  /\ main = "close" /\ at <= CloseList
  /\ sock' = [sock EXCEPT ![at] = "closed"]
  /\ st' = [c \in Conns |-> IF st[c] = "pending" /\ via[c] = at THEN "closed"
                                                               ELSE st[c]]
  /\ at' = at + 1
  /\ UNCHANGED <<main, servers, started, failed, stopped, loop, asked, slots,
                 clientVars, jobVars>>

\* The join()s are bounded and the loops have ended: serve() returns or raises.
Return ==
  /\ main = "close" /\ at > CloseList
  /\ main' = "returned"
  /\ UNCHANGED <<at, servers, started, failed, stopped, listenVars, slots, st,
                 clientVars, jobVars>>

\* The process ends, and with it every daemon handler thread, lp child and
\* socket; the unit's PrivateTmp removes the spool files.
ProcessEnds ==
  /\ main' = "exited" /\ at' = 1 /\ servers' = 0 /\ started' = 0
  /\ sock' = [r \in Routes |-> "none"]
  /\ loop' = [r \in Routes |-> "none"]
  /\ asked' = [r \in Routes |-> FALSE]
  /\ slots' = JobSlots
  /\ st' = [c \in Conns |-> IF st[c] \in LiveStates THEN "closed" ELSE st[c]]
  /\ how' = [c \in Conns |-> IF st[c] \in LiveStates THEN "killed" ELSE how[c]]
  /\ spool' = [c \in Conns |-> NoFile]
  /\ UNCHANGED <<failed, stopped, clientVars, got, logged, printed>>

Exit == main = "returned" /\ ProcessEnds

\* SIGKILL, out of memory, power.
Kill == Running /\ main # "returned" /\ ProcessEnds

\* Restart=on-failure after an error, systemctl restart otherwise.
Restart ==
  /\ main = "exited"
  /\ main' = "bind" /\ failed' = FALSE /\ stopped' = FALSE
  /\ UNCHANGED <<at, servers, started, listenVars, slots, st, clientVars, jobVars>>

-----------------------------------------------------------------------------
(* The serve_forever threads.                                              *)

\* A shutdown request is seen between two requests; the request in hand is
\* still handled.
LoopEnds(r) ==
  /\ loop[r] = "serving" /\ asked[r]
  /\ loop' = [loop EXCEPT ![r] = "ended"]
  /\ UNCHANGED <<mainVars, sock, asked, slots, st, clientVars, jobVars>>

\* ThreadingMixIn.process_request: a handler thread, or, when no thread can be
\* started, handle_error and shutdown_request.
Accept(c) ==
  /\ st[c] = "pending" /\ loop[via[c]] = "serving"
  /\ \/ st' = [st EXCEPT ![c] = "handler"] /\ UNCHANGED <<how, logged>>
     \/ /\ st' = [st EXCEPT ![c] = "closed"]
        /\ how' = [how EXCEPT ![c] = "refused"]
        /\ logged' = logged \cup {c}
  /\ UNCHANGED <<mainVars, listenVars, slots, clientVars, got, spool, printed>>

-----------------------------------------------------------------------------
(* The handler threads: _RawRequestHandler.handle and receive_raw_job.     *)

Refused(c) ==
  /\ st' = [st EXCEPT ![c] = "closed"]
  /\ how' = [how EXCEPT ![c] = "refused"]
  /\ logged' = logged \cup {c}

\* Mutant: the acquire stands inside the try, so a refusal releases a slot.
RefuseFull_Releases(c) ==
  /\ st[c] = "handler" /\ c \in PrivateConns /\ slots = 0
  /\ Refused(c) /\ slots' = slots + 1
  /\ UNCHANGED <<mainVars, listenVars, clientVars, got, spool, printed>>

RefuseAddress(c) ==
  /\ st[c] = "handler" /\ c \notin PrivateConns
  /\ Refused(c)
  /\ UNCHANGED <<mainVars, listenVars, slots, clientVars, got, spool, printed>>

RefuseFull(c) ==
  /\ st[c] = "handler" /\ c \in PrivateConns /\ slots = 0
  /\ Refused(c)
  /\ UNCHANGED <<mainVars, listenVars, slots, clientVars, got, spool, printed>>

\* Mutant: every listener has a semaphore of its own.
Acquire_PerListener(c) ==
  /\ st[c] = "handler" /\ c \in PrivateConns
  /\ \A d \in Holders : via[d] # via[c]
  /\ st' = [st EXCEPT ![c] = "opening"]
  /\ UNCHANGED <<mainVars, listenVars, slots, clientVars, jobVars>>

\* job_slots.acquire(blocking=False)
Acquire(c) ==
  /\ st[c] = "handler" /\ c \in PrivateConns /\ slots > 0
  /\ slots' = slots - 1
  /\ st' = [st EXCEPT ![c] = "opening"]
  /\ UNCHANGED <<mainVars, listenVars, clientVars, jobVars>>

\* An exception handle() catches and logs: receive_raw_job's finally clause
\* has removed the spool file.
Fails(c, end) ==
  /\ st' = [st EXCEPT ![c] = "leaving"]
  /\ spool' = [spool EXCEPT ![c] = NoFile]
  /\ how' = [how EXCEPT ![c] = end]
  /\ logged' = logged \cup {c}

\* tempfile.mkstemp
OpenSpool(c) ==
  /\ st[c] = "opening"
  /\ \/ /\ st' = [st EXCEPT ![c] = "receiving"]
        /\ spool' = [spool EXCEPT ![c] = 0]
        /\ UNCHANGED <<how, logged>>
     \/ Fails(c, "ioerror")
  /\ UNCHANGED <<mainVars, listenVars, slots, clientVars, got, printed>>

\* Mutant: the limit is compared before the chunk is added.
TooLarge_Late(received) == received > MaxBytes + 1

TooLarge(received) == received > MaxBytes

\* Size of the spool file after output.write of n more bytes.
Written(c, n) == spool[c] + n

\* recv returns some of what the client sent; the chunk is counted, checked
\* against the limit and then written, and the write may fail.
RecvData(c) ==
  /\ st[c] = "receiving"
  /\ \E n \in 1..(sent[c] - got[c]) :
       /\ got' = [got EXCEPT ![c] = @ + n]
       /\ IF TooLarge(got[c] + n)
          THEN Fails(c, "toolarge")
          ELSE \/ /\ spool' = [spool EXCEPT ![c] = Written(c, n)]
                  /\ UNCHANGED <<st, how, logged>>
               \/ Fails(c, "ioerror")
  /\ UNCHANGED <<mainVars, listenVars, slots, clientVars, printed>>

RecvReset(c) ==
  /\ st[c] = "receiving" /\ fin[c] = "reset"
  /\ Fails(c, "reset")
  /\ UNCHANGED <<mainVars, listenVars, slots, clientVars, got, printed>>

\* The receive loop breaks: a job that received something is submitted, and an
\* empty one only removes its spool file.
StopReading(c, end) ==
  /\ how' = [how EXCEPT ![c] = end]
  /\ IF got[c] > 0
     THEN st' = [st EXCEPT ![c] = "submitting"] /\ UNCHANGED spool
     ELSE /\ st' = [st EXCEPT ![c] = "leaving"]
          /\ spool' = [spool EXCEPT ![c] = NoFile]
  /\ UNCHANGED <<mainVars, listenVars, slots, clientVars, got, logged, printed>>

RecvEof(c) ==
  /\ st[c] = "receiving" /\ fin[c] = "fin" /\ sent[c] = got[c]
  /\ StopReading(c, "eof")

\* Mutant: no settimeout, so recv waits for a silent client for ever.
RecvTimeout_Never(c) == FALSE /\ StopReading(c, "idle")

\* Nothing arrived for IDLE_TIMEOUT_SECONDS.
RecvTimeout(c) ==
  /\ st[c] = "receiving" /\ fin[c] = "open" /\ sent[c] = got[c]
  /\ StopReading(c, "idle")

\* Mutant: the handler classes close over the loop variable `route'.
QueueOf_LateBinding(c) == NRoutes

\* self.server.route.queue
QueueOf(c) == via[c]

\* CUPS takes the file that lp was started on.
LpQueues(c) ==
  /\ st[c] = "submitting"
  /\ st' = [st EXCEPT ![c] = "queued"]
  /\ printed' = [printed EXCEPT ![c] =
                   Append(@, [queue |-> QueueOf(c), bytes |-> spool[c]])]
  /\ UNCHANGED <<mainVars, listenVars, slots, clientVars, got, spool, how, logged>>

\* lp exits with 0 once the job is queued.
LpReturns(c) ==
  /\ st[c] = "queued"
  /\ st' = [st EXCEPT ![c] = "leaving"]
  /\ spool' = [spool EXCEPT ![c] = NoFile]
  /\ UNCHANGED <<mainVars, listenVars, slots, clientVars, got, how, logged, printed>>

\* Mutant: submit_raw_job does not look at lp's return code.
LpFails_Unchecked(c) ==
  /\ st[c] \in {"submitting", "queued"}
  /\ st' = [st EXCEPT ![c] = "leaving"]
  /\ spool' = [spool EXCEPT ![c] = NoFile]
  /\ UNCHANGED <<mainVars, listenVars, slots, clientVars, got, how, logged, printed>>

\* lp cannot be run, exits with an error, or is killed after 120 seconds, when
\* the job may already be queued.
LpFails(c) ==
  /\ st[c] \in {"submitting", "queued"}
  /\ Fails(c, how[c])
  /\ UNCHANGED <<mainVars, listenVars, slots, clientVars, got, printed>>

\* Mutant: the release follows the try statement's success path only.
Release_OnSuccess(c) ==
  /\ st[c] = "leaving"
  /\ st' = [st EXCEPT ![c] = "closed"]
  /\ slots' = IF c \in logged THEN slots ELSE slots + 1
  /\ UNCHANGED <<mainVars, listenVars, clientVars, jobVars>>

\* The finally clause of handle().
Release(c) ==
  /\ st[c] = "leaving"
  /\ st' = [st EXCEPT ![c] = "closed"]
  /\ slots' = slots + 1
  /\ UNCHANGED <<mainVars, listenVars, clientVars, jobVars>>

Handler(c) ==
  \/ RefuseAddress(c) \/ RefuseFull(c) \/ Acquire(c) \/ OpenSpool(c)
  \/ RecvData(c) \/ RecvReset(c) \/ RecvEof(c) \/ RecvTimeout(c)
  \/ LpQueues(c) \/ LpReturns(c) \/ LpFails(c) \/ Release(c)

Serve ==
  \/ Bind \/ Start \/ Wait \/ AskShutdown \/ AwaitShutdown \/ ShutdownDone
  \/ Close \/ Return \/ Exit

Next ==
  \/ Serve \/ Signal \/ Kill \/ Restart
  \/ \E r \in Routes : LoopEnds(r)
  \/ \E c \in Conns :
       \/ \E r \in Routes : Connect(c, r)
       \/ Send(c) \/ Hangup(c) \/ Accept(c) \/ Handler(c)

Spec == Init /\ [][Next]_vars

\* Every thread of the process is scheduled, recv and lp return because both
\* have a timeout, and a listener's thread keeps accepting.  Clients, signals,
\* kills and restarts are owed nothing.
Fairness ==
  /\ WF_vars(Serve)
  /\ \A r \in Routes : WF_vars(LoopEnds(r))
  /\ \A c \in Conns : WF_vars(Accept(c)) /\ WF_vars(Handler(c))

FairSpec == Spec /\ Fairness

-----------------------------------------------------------------------------
TypeOK ==
  /\ main \in MainStates /\ at \in 1..(NRoutes + 1)
  /\ servers \in 0..NRoutes /\ started \in 0..NRoutes
  /\ failed \in BOOLEAN /\ stopped \in BOOLEAN
  /\ sock \in [Routes -> {"none", "listening", "closed"}]
  /\ loop \in [Routes -> {"none", "serving", "ended"}]
  /\ asked \in [Routes -> BOOLEAN]
  /\ slots \in 0..JobSlots
  /\ st \in [Conns -> ConnStates]
  /\ via \in [Conns -> 0..NRoutes]
  /\ sent \in [Conns -> 0..ClientBytes]
  /\ fin \in [Conns -> {"open", "fin", "reset"}]
  /\ got \in [Conns -> 0..ClientBytes]
  /\ spool \in [Conns -> NoFile..MaxBytes]
  /\ how \in [Conns -> Endings]
  /\ logged \subseteq Conns
  /\ printed \in [Conns -> Seq(JobRecords)]

\* The semaphore and the handlers agree: the slots that are free and the
\* handlers that hold one make up JobSlots, whatever way handlers ended
\* (BoundedSemaphore, handle's try/finally).
SlotsConserved == slots + Cardinality(Holders) = JobSlots

\* What unfinished jobs may take on disk: no more than JobSlots spool files,
\* each within MaxBytes and each belonging to a handler that holds a slot.
SpoolBounded ==
  /\ Cardinality({c \in Conns : spool[c] # NoFile}) <= JobSlots
  /\ \A c \in Conns : spool[c] # NoFile => c \in Holders /\ spool[c] <= MaxBytes

\* One connection is at most one job, in the queue of the listener the client
\* connected to, of exactly the bytes received, none missing and none added;
\* a connection that was refused, reset, too large or failed to spool left no
\* job behind (receive_raw_job, submit_raw_job).
JobFaithful ==
  \A c \in Conns : printed[c] # <<>> =>
    /\ printed[c] = <<[queue |-> via[c], bytes |-> got[c]]>>
    /\ got[c] \in 1..MaxBytes
    /\ how[c] \in {"eof", "idle", "killed"}

\* A job that the gateway received and did not hand over to CUPS is always in
\* the log, unless the process was ended under it.
NoSilentLoss ==
  \A c \in Conns :
    st[c] = "closed" /\ got[c] > 0 /\ how[c] # "killed" =>
      printed[c] # <<>> \/ c \in logged

\* serve() waits for the loop of a listener only if that loop was started, so
\* shutdown() cannot block it for ever.
ShutdownWaitsForStarted ==
  main = "shutdown" /\ at <= ShutdownList => loop[at] # "none"

\* When serve() returns or raises, no listener is left open and no accept loop
\* runs, also when binding or starting failed half way.
CleanReturn ==
  main = "returned" =>
    \A r \in Routes : sock[r] # "listening" /\ loop[r] # "serving"

\* After a signal, or an exception that leaves the try block, the process ends.
StopLeadsToExit == (Running /\ (stopped \/ failed)) ~> main = "exited"

\* Whatever its client does or fails to do, a connection ends, and with it the
\* slot it holds comes back.
ConnectionEnds == \A c \in Conns : st[c] \in LiveStates ~> st[c] = "closed"

\* The gateway implements RawJobs: a connection is active from the moment it
\* has a slot until it gives the slot back.
Phase == [c \in Conns |-> CASE st[c] \in SlotStates -> "active"
                            [] st[c] = "closed" -> "done"
                            [] OTHER -> "new"]

Jobs == INSTANCE RawJobs WITH Queues <- Routes, phase <- Phase, jobs <- printed

ImplementsRawJobs == Jobs!Spec

=============================================================================
