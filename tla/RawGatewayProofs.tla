-------------------------- MODULE RawGatewayProofs --------------------------
(***************************************************************************)
(* Proofs about RawGateway for any finite set of connections, any number   *)
(* of listeners and slots and any size limit.                              *)
(*                                                                         *)
(* Three invariants, each inductive by itself or on top of the one before: *)
(*   MainInv   what serve()'s lists, sockets and accept loops are at each  *)
(*             point of serve();                                           *)
(*   ConnInv   what a connection's counters, spool file and job are in     *)
(*             each state of its handler;                                  *)
(*   SlotInv   the semaphore and the handlers account for every slot.      *)
(* The properties the TLC runs check follow from them.                     *)
(***************************************************************************)
EXTENDS RawGateway, FiniteSetTheorems, TLAPS

-----------------------------------------------------------------------------
(* serve()                                                                 *)

MainTypes ==
  /\ main \in MainStates /\ at \in Nat
  /\ servers \in 0..NRoutes /\ started \in 0..NRoutes
  /\ sock \in [Routes -> {"none", "listening", "closed"}]
  /\ loop \in [Routes -> {"none", "serving", "ended"}]

\* Where each loop of serve() stands in its list.
MainPositions ==
  /\ main = "bind" => at \in Routes /\ servers = at - 1 /\ started = 0
  /\ main = "start" => at \in Routes /\ servers = NRoutes /\ started = at - 1
  /\ main = "wait" => at = 1 /\ servers = NRoutes /\ started = NRoutes
  /\ main = "shutdown" => at \in 1..(started + 1)
  /\ main = "close" => at \in 1..(servers + 1)
  /\ main = "returned" => at \in 1..(servers + 1)
  /\ main = "exited" => at = 1 /\ servers = 0 /\ started = 0
  /\ started <= servers

\* A listening socket belongs to a listener of the list that is not closed yet.
SocketsListed ==
  \A r \in Routes : sock[r] = "listening" =>
    /\ r <= servers
    /\ main = "close" => at <= r
    /\ main # "returned"

\* started_servers is the list of the listeners whose thread was started.
LoopsListed == \A r \in Routes : loop[r] # "none" <=> r <= started

\* A loop that still runs has not been waited for.
LoopsEnded ==
  \A r \in Routes : loop[r] = "serving" =>
    /\ main \notin {"close", "returned"}
    /\ main = "shutdown" => at <= r

MainInv ==
  MainTypes /\ MainPositions /\ SocketsListed /\ LoopsListed /\ LoopsEnded

LEMMA MainInit == Init => MainInv
  BY RoutesAssumption
  DEF Init, MainInv, MainTypes, MainPositions, SocketsListed, LoopsListed,
      LoopsEnded, MainStates, Routes

\* The steps of clients and handlers leave serve() and its listeners alone.
LEMMA ConnectionStepsKeepMain ==
  ASSUME NEW c \in Conns,
         \/ \E r \in Routes : Connect(c, r)
         \/ Send(c) \/ Hangup(c) \/ Accept(c) \/ Handler(c)
  PROVE  UNCHANGED <<mainVars, listenVars>>
  BY DEF Connect, Send, Hangup, Accept, Handler, RefuseAddress, RefuseFull,
         Acquire, OpenSpool, RecvData, RecvReset, RecvEof, RecvTimeout,
         StopReading, LpQueues, LpReturns, LpFails, Release

LEMMA MainStep == MainInv /\ [Next]_vars => MainInv'
<1> SUFFICES ASSUME MainInv, [Next]_vars PROVE MainInv'
  OBVIOUS
<1> USE RoutesAssumption DEF Routes, MainInv
<1>1. CASE Bind
  BY <1>1
  DEF Bind, Raise, MainTypes, MainPositions, SocketsListed, LoopsListed,
      LoopsEnded, MainStates
<1>2. CASE Start
  BY <1>2
  DEF Start, Raise, MainTypes, MainPositions, SocketsListed, LoopsListed,
      LoopsEnded, MainStates
<1>3. CASE Signal
  BY <1>3
  DEF Signal, listenVars, MainTypes, MainPositions, SocketsListed, LoopsListed,
      LoopsEnded
<1>4. CASE Wait
  BY <1>4
  DEF Wait, listenVars, MainTypes, MainPositions, SocketsListed, LoopsListed,
      LoopsEnded, MainStates
<1>5. CASE AskShutdown
  BY <1>5
  DEF AskShutdown, mainVars, ShutdownList, MainTypes, MainPositions,
      SocketsListed, LoopsListed, LoopsEnded
<1>6. CASE AwaitShutdown
  BY <1>6
  DEF AwaitShutdown, listenVars, ShutdownList, MainTypes, MainPositions,
      SocketsListed, LoopsListed, LoopsEnded
<1>7. CASE ShutdownDone
  BY <1>7
  DEF ShutdownDone, listenVars, ShutdownList, MainTypes, MainPositions,
      SocketsListed, LoopsListed, LoopsEnded, MainStates
<1>8. CASE Close
  BY <1>8
  DEF Close, CloseList, MainTypes, MainPositions, SocketsListed, LoopsListed,
      LoopsEnded
<1>9. CASE Return
  BY <1>9
  DEF Return, listenVars, CloseList, MainTypes, MainPositions, SocketsListed,
      LoopsListed, LoopsEnded, MainStates
<1>10. CASE Exit \/ Kill
  BY <1>10
  DEF Exit, Kill, ProcessEnds, MainTypes, MainPositions, SocketsListed,
      LoopsListed, LoopsEnded, MainStates
<1>11. CASE Restart
  BY <1>11
  DEF Restart, listenVars, MainTypes, MainPositions, SocketsListed,
      LoopsListed, LoopsEnded, MainStates
<1>12. ASSUME NEW r \in Routes, LoopEnds(r) PROVE MainInv'
  BY <1>12
  DEF LoopEnds, mainVars, MainTypes, MainPositions, SocketsListed, LoopsListed,
      LoopsEnded
<1>13. CASE UNCHANGED <<mainVars, listenVars>>
  BY <1>13
  DEF mainVars, listenVars, MainTypes, MainPositions, SocketsListed,
      LoopsListed, LoopsEnded
<1>14. CASE UNCHANGED vars
  BY <1>13, <1>14 DEF vars
<1> QED
  BY <1>1, <1>2, <1>3, <1>4, <1>5, <1>6, <1>7, <1>8, <1>9, <1>10, <1>11,
     <1>12, <1>13, <1>14, ConnectionStepsKeepMain
  DEF Next, Serve

\* serve()'s lists, sockets and loops agree at every step of every behaviour.
THEOREM MainInvariant == Spec => []MainInv
  BY MainInit, MainStep, PTL DEF Spec

\* The shutdown loop never waits for a listener whose thread was not started,
\* whatever bind or thread start failed before it.
THEOREM ShutdownNeverBlocks == Spec => []ShutdownWaitsForStarted
<1>1. MainInv => ShutdownWaitsForStarted
  BY RoutesAssumption
  DEF MainInv, MainTypes, MainPositions, LoopsListed, ShutdownWaitsForStarted,
      ShutdownList, Routes
<1> QED
  BY <1>1, MainInvariant, PTL

\* serve() leaves no open listener and no running accept loop behind, on every
\* path out of it.
THEOREM ReturnIsClean == Spec => []CleanReturn
<1>1. MainInv => CleanReturn
  BY DEF MainInv, SocketsListed, LoopsEnded, CleanReturn
<1> QED
  BY <1>1, MainInvariant, PTL

-----------------------------------------------------------------------------
(* Connections                                                             *)

ConnTypes ==
  /\ st \in [Conns -> ConnStates]
  /\ via \in [Conns -> 0..NRoutes]
  /\ sent \in [Conns -> 0..ClientBytes]
  /\ fin \in [Conns -> {"open", "fin", "reset"}]
  /\ got \in [Conns -> 0..ClientBytes]
  /\ spool \in [Conns -> NoFile..MaxBytes]
  /\ how \in [Conns -> Endings]
  /\ logged \subseteq Conns
  /\ printed \in [Conns -> Seq(JobRecords)]

\* The one job connection c may become.
JobOf(c) == <<[queue |-> via[c], bytes |-> got[c]]>>

Unread(c)  == got[c] = 0 /\ spool[c] = NoFile /\ how[c] = "none" /\ printed[c] = <<>>
Reading(c) == spool[c] = got[c] /\ got[c] <= MaxBytes /\ how[c] = "none" /\ printed[c] = <<>>
Read(c)    == spool[c] = got[c] /\ got[c] \in 1..MaxBytes /\ how[c] \in {"eof", "idle"}
Printed(c) == printed[c] = JobOf(c) /\ got[c] \in 1..MaxBytes /\ how[c] \in {"eof", "idle", "killed"}

ConnFacts(c) ==
  /\ got[c] <= sent[c]
  /\ st[c] # "away" => via[c] \in Routes
  /\ st[c] \in {"away", "pending", "handler", "opening"} => Unread(c)
  /\ st[c] = "receiving" => Reading(c)
  /\ st[c] = "submitting" => Read(c) /\ printed[c] = <<>>
  /\ st[c] = "queued" => Read(c) /\ Printed(c)
  /\ st[c] \in {"leaving", "closed"} =>
       /\ spool[c] = NoFile
       /\ printed[c] = <<>> \/ Printed(c)
       /\ got[c] > 0 /\ how[c] # "killed" => printed[c] # <<>> \/ c \in logged

ConnInv == ConnTypes /\ \A c \in Conns : ConnFacts(c)

LEMMA ConnInit == Init => ConnInv
  BY RoutesAssumption, BytesAssumption
  DEF Init, ConnInv, ConnTypes, ConnFacts, Unread, ConnStates, LiveStates,
      SlotStates, Endings, NoFile, Routes

\* What a step of another connection leaves of connection d.
Same(d) ==
  /\ st'[d] = st[d] /\ via'[d] = via[d] /\ sent'[d] = sent[d] /\ fin'[d] = fin[d]
  /\ got'[d] = got[d] /\ spool'[d] = spool[d] /\ how'[d] = how[d]
  /\ printed'[d] = printed[d] /\ (d \in logged' <=> d \in logged)

\* A step of one connection has to be looked at for that connection only.
LEMMA OneConnection ==
  ASSUME NEW c \in Conns, ConnInv, ConnTypes', ConnFacts(c)',
         \A d \in Conns \ {c} : Same(d)
  PROVE  ConnInv'
<1>1. ASSUME NEW d \in Conns \ {c} PROVE ConnFacts(d)'
  BY <1>1 DEF Same, ConnInv, ConnFacts, Unread, Reading, Read, Printed, JobOf
<1> QED
  BY <1>1 DEF ConnInv

\* The failure path keeps the types of what it assigns.
LEMMA FailsTypes ==
  ASSUME ConnTypes, NEW c \in Conns, NEW end \in Endings, Fails(c, end)
  PROVE  /\ st' \in [Conns -> ConnStates]
         /\ spool' \in [Conns -> NoFile..MaxBytes]
         /\ how' \in [Conns -> Endings]
         /\ logged' \subseteq Conns
  BY BytesAssumption
  DEF ConnTypes, Fails, ConnStates, LiveStates, SlotStates, NoFile

LEMMA ConnStep == ConnInv /\ [Next]_vars => ConnInv'
<1> SUFFICES ASSUME ConnInv, [Next]_vars PROVE ConnInv'
  OBVIOUS
<1>facts. ConnTypes /\ \A c \in Conns : ConnFacts(c)
  BY DEF ConnInv
<1> USE RoutesAssumption, BytesAssumption DEF Routes, NoFile
<1>1. ASSUME NEW c \in Conns, NEW r \in Routes, Connect(c, r) PROVE ConnInv'
  <2>1. ConnTypes'
    BY <1>facts, <1>1 DEF Connect, jobVars, ConnTypes, ConnFacts, ConnStates, LiveStates,
       SlotStates, Endings, Unread, Reading, Read
  <2>2. ConnFacts(c)'
    BY <1>facts, <1>1 DEF Connect, jobVars, ConnTypes, ConnFacts, Unread, Reading, Read,
       Printed, JobOf
  <2>3. ASSUME NEW d \in Conns \ {c} PROVE Same(d)
    BY <1>facts, <1>1 DEF Connect, jobVars, ConnTypes, Same
  <2> QED
    BY <2>1, <2>2, <2>3, OneConnection
<1>2. ASSUME NEW c \in Conns, Send(c) PROVE ConnInv'
  <2>1. ConnTypes'
    BY <1>facts, <1>2 DEF Send, ClientWrites, jobVars, ConnTypes, ConnFacts, ConnStates, LiveStates,
       SlotStates, Endings, Unread, Reading, Read
  <2>2. ConnFacts(c)'
    BY <1>facts, <1>2 DEF Send, ClientWrites, jobVars, ConnTypes, ConnFacts, Unread, Reading, Read,
       Printed, JobOf
  <2>3. ASSUME NEW d \in Conns \ {c} PROVE Same(d)
    BY <1>facts, <1>2 DEF Send, ClientWrites, jobVars, ConnTypes, Same
  <2> QED
    BY <2>1, <2>2, <2>3, OneConnection
<1>3. ASSUME NEW c \in Conns, Hangup(c) PROVE ConnInv'
  <2>1. ConnTypes'
    BY <1>facts, <1>3 DEF Hangup, ClientWrites, jobVars, ConnTypes, ConnFacts, ConnStates, LiveStates,
       SlotStates, Endings, Unread, Reading, Read
  <2>2. ConnFacts(c)'
    BY <1>facts, <1>3 DEF Hangup, ClientWrites, jobVars, ConnTypes, ConnFacts, Unread, Reading, Read,
       Printed, JobOf
  <2>3. ASSUME NEW d \in Conns \ {c} PROVE Same(d)
    BY <1>facts, <1>3 DEF Hangup, ClientWrites, jobVars, ConnTypes, Same
  <2> QED
    BY <2>1, <2>2, <2>3, OneConnection
<1>4. ASSUME NEW c \in Conns, Accept(c) PROVE ConnInv'
  <2>1. ConnTypes'
    BY <1>facts, <1>4 DEF Accept, clientVars, ConnTypes, ConnFacts, ConnStates, LiveStates,
       SlotStates, Endings, Unread, Reading, Read
  <2>2. ConnFacts(c)'
    BY <1>facts, <1>4 DEF Accept, clientVars, ConnTypes, ConnFacts, Unread, Reading, Read,
       Printed, JobOf
  <2>3. ASSUME NEW d \in Conns \ {c} PROVE Same(d)
    BY <1>facts, <1>4 DEF Accept, clientVars, ConnTypes, Same
  <2> QED
    BY <2>1, <2>2, <2>3, OneConnection
<1>5. ASSUME NEW c \in Conns, RefuseAddress(c) \/ RefuseFull(c) PROVE ConnInv'
  <2>1. ConnTypes'
    BY <1>facts, <1>5 DEF RefuseAddress, RefuseFull, Refused, clientVars, ConnTypes, ConnFacts, ConnStates, LiveStates,
       SlotStates, Endings, Unread, Reading, Read
  <2>2. ConnFacts(c)'
    BY <1>facts, <1>5 DEF RefuseAddress, RefuseFull, Refused, clientVars, ConnTypes, ConnFacts, Unread, Reading, Read,
       Printed, JobOf
  <2>3. ASSUME NEW d \in Conns \ {c} PROVE Same(d)
    BY <1>facts, <1>5 DEF RefuseAddress, RefuseFull, Refused, clientVars, ConnTypes, Same
  <2> QED
    BY <2>1, <2>2, <2>3, OneConnection
<1>6. ASSUME NEW c \in Conns, Acquire(c) PROVE ConnInv'
  <2>1. ConnTypes'
    BY <1>facts, <1>6 DEF Acquire, clientVars, jobVars, ConnTypes, ConnFacts, ConnStates, LiveStates,
       SlotStates, Endings, Unread, Reading, Read
  <2>2. ConnFacts(c)'
    BY <1>facts, <1>6 DEF Acquire, clientVars, jobVars, ConnTypes, ConnFacts, Unread, Reading, Read,
       Printed, JobOf
  <2>3. ASSUME NEW d \in Conns \ {c} PROVE Same(d)
    BY <1>facts, <1>6 DEF Acquire, clientVars, jobVars, ConnTypes, Same
  <2> QED
    BY <2>1, <2>2, <2>3, OneConnection
<1>7. ASSUME NEW c \in Conns, OpenSpool(c) PROVE ConnInv'
  <2>1. ConnTypes'
    <3> USE <1>facts DEF ConnTypes, ConnStates, LiveStates, SlotStates, Endings
    <3>1. CASE Fails(c, "ioerror")
      BY <1>7, <3>1, FailsTypes DEF OpenSpool, clientVars
    <3>2. CASE /\ st' = [st EXCEPT ![c] = "receiving"]
               /\ spool' = [spool EXCEPT ![c] = 0] /\ UNCHANGED <<how, logged>>
      BY <1>7, <3>2 DEF OpenSpool, clientVars
    <3> QED
      BY <1>7, <3>1, <3>2 DEF OpenSpool
  <2>2. ConnFacts(c)'
    BY <1>facts, <1>7 DEF OpenSpool, Fails, clientVars, ConnTypes, ConnFacts, Unread, Reading, Read,
       Printed, JobOf
  <2>3. ASSUME NEW d \in Conns \ {c} PROVE Same(d)
    BY <1>facts, <1>7 DEF OpenSpool, Fails, clientVars, ConnTypes, Same
  <2> QED
    BY <2>1, <2>2, <2>3, OneConnection
<1>8. ASSUME NEW c \in Conns, RecvData(c) PROVE ConnInv'
  <2>1. ConnTypes'
    <3> USE <1>facts DEF ConnTypes
    <3>1. PICK n \in 1..(sent[c] - got[c]) :
            /\ got' = [got EXCEPT ![c] = @ + n]
            /\ IF TooLarge(got[c] + n)
               THEN Fails(c, "toolarge")
               ELSE \/ /\ spool' = [spool EXCEPT ![c] = Written(c, n)]
                       /\ UNCHANGED <<st, how, logged>>
                    \/ Fails(c, "ioerror")
      BY <1>8, Zenon DEF RecvData
    <3>2. got' \in [Conns -> 0..ClientBytes]
      BY <3>1
    <3>3. CASE Fails(c, "toolarge") \/ Fails(c, "ioerror")
      BY <1>8, <3>2, <3>3, FailsTypes DEF RecvData, clientVars, Endings
    <3>4. CASE /\ got[c] + n <= MaxBytes
               /\ spool' = [spool EXCEPT ![c] = spool[c] + n]
               /\ UNCHANGED <<st, how, logged>>
      <4>1. spool[c] + n \in NoFile..MaxBytes
        BY <1>8, <3>1, <3>4 DEF RecvData, ConnFacts, Reading
      <4> QED
        BY <1>8, <3>2, <3>4, <4>1 DEF RecvData, clientVars
    <3>5. ~TooLarge(got[c] + n) <=> got[c] + n <= MaxBytes
      BY <1>8, <3>1 DEF TooLarge
    <3> QED
      BY <3>1, <3>3, <3>4, <3>5, Zenon DEF Written
  <2>2. ConnFacts(c)'
    BY <1>facts, <1>8 DEF RecvData, TooLarge, Written, Fails, clientVars, ConnTypes, ConnFacts, Unread, Reading, Read,
       Printed, JobOf
  <2>3. ASSUME NEW d \in Conns \ {c} PROVE Same(d)
    BY <1>facts, <1>8 DEF RecvData, TooLarge, Written, Fails, clientVars, ConnTypes, Same
  <2> QED
    BY <2>1, <2>2, <2>3, OneConnection
<1>9. ASSUME NEW c \in Conns, RecvReset(c) PROVE ConnInv'
  <2>1. ConnTypes'
    BY <1>facts, <1>9 DEF RecvReset, Fails, clientVars, ConnTypes, ConnFacts, ConnStates, LiveStates,
       SlotStates, Endings, Unread, Reading, Read
  <2>2. ConnFacts(c)'
    BY <1>facts, <1>9 DEF RecvReset, Fails, clientVars, ConnTypes, ConnFacts, Unread, Reading, Read,
       Printed, JobOf
  <2>3. ASSUME NEW d \in Conns \ {c} PROVE Same(d)
    BY <1>facts, <1>9 DEF RecvReset, Fails, clientVars, ConnTypes, Same
  <2> QED
    BY <2>1, <2>2, <2>3, OneConnection
<1>10. ASSUME NEW c \in Conns, RecvEof(c) \/ RecvTimeout(c) PROVE ConnInv'
  <2>1. ConnTypes'
    <3> USE <1>facts DEF ConnTypes
    <3>1. PICK end \in {"eof", "idle"} : StopReading(c, end)
      BY <1>10 DEF RecvEof, RecvTimeout
    <3>2. UNCHANGED <<via, sent, fin, got, logged, printed>>
      BY <3>1 DEF StopReading, clientVars
    <3>3. how' \in [Conns -> Endings]
      BY <3>1 DEF StopReading, Endings
    <3>4. st' \in [Conns -> ConnStates]
      BY <3>1 DEF StopReading, ConnStates, LiveStates, SlotStates
    <3>5. spool' \in [Conns -> NoFile..MaxBytes]
      BY <3>1 DEF StopReading
    <3> QED
      BY <3>2, <3>3, <3>4, <3>5
  <2>2. ConnFacts(c)'
    BY <1>facts, <1>10 DEF RecvEof, RecvTimeout, StopReading, clientVars, ConnTypes, ConnFacts, Unread, Reading, Read,
       Printed, JobOf
  <2>3. ASSUME NEW d \in Conns \ {c} PROVE Same(d)
    BY <1>facts, <1>10 DEF RecvEof, RecvTimeout, StopReading, clientVars, ConnTypes, Same
  <2> QED
    BY <2>1, <2>2, <2>3, OneConnection
<1>11. ASSUME NEW c \in Conns, LpQueues(c) PROVE ConnInv'
  <2>1. ConnTypes'
    <3> USE <1>facts DEF ConnTypes
    <3>1. [queue |-> via[c], bytes |-> spool[c]] \in JobRecords
      BY <1>11 DEF LpQueues, ConnFacts, Read, JobRecords
    <3>2. printed' \in [Conns -> Seq(JobRecords)]
      BY <1>11, <3>1 DEF LpQueues, QueueOf
    <3>3. st' \in [Conns -> ConnStates]
      BY <1>11 DEF LpQueues, ConnStates, LiveStates, SlotStates
    <3> QED
      BY <1>11, <3>2, <3>3 DEF LpQueues, clientVars
  <2>2. ConnFacts(c)'
    <3> DEFINE job == [queue |-> via[c], bytes |-> spool[c]]
    <3> HIDE DEF job
    <3>a. printed[c] = <<>> /\ printed'[c] = Append(printed[c], job)
      BY <1>facts, <1>11 DEF LpQueues, QueueOf, ConnTypes, ConnFacts, job
    <3>b. Append(<<>>, job) = <<job>>
      OBVIOUS
    <3>1. printed'[c] = <<[queue |-> via[c], bytes |-> spool[c]]>>
      BY <3>a, <3>b DEF job
    <3>2. Read(c) /\ printed'[c] = JobOf(c)
      BY <1>facts, <1>11, <3>1 DEF LpQueues, ConnFacts, Read, JobOf
    <3> QED
      BY <1>facts, <1>11, <3>2 DEF LpQueues, clientVars, ConnTypes, ConnFacts,
         Read, Printed, JobOf
  <2>3. ASSUME NEW d \in Conns \ {c} PROVE Same(d)
    BY <1>facts, <1>11 DEF LpQueues, QueueOf, clientVars, ConnTypes, Same
  <2> QED
    BY <2>1, <2>2, <2>3, OneConnection
<1>12. ASSUME NEW c \in Conns, LpReturns(c) PROVE ConnInv'
  <2>1. ConnTypes'
    BY <1>facts, <1>12 DEF LpReturns, clientVars, ConnTypes, ConnFacts, ConnStates, LiveStates,
       SlotStates, Endings, Unread, Reading, Read
  <2>2. ConnFacts(c)'
    <3>1. printed[c] = JobOf(c) /\ JobOf(c) # <<>>
      BY <1>facts, <1>12 DEF LpReturns, ConnFacts, Printed, JobOf
    <3> QED
      BY <1>facts, <1>12, <3>1 DEF LpReturns, clientVars, ConnTypes, ConnFacts,
         Read, Printed, JobOf
  <2>3. ASSUME NEW d \in Conns \ {c} PROVE Same(d)
    BY <1>facts, <1>12 DEF LpReturns, clientVars, ConnTypes, Same
  <2> QED
    BY <2>1, <2>2, <2>3, OneConnection
<1>13. ASSUME NEW c \in Conns, LpFails(c) PROVE ConnInv'
  <2>1. ConnTypes'
    BY <1>facts, <1>13 DEF LpFails, Fails, clientVars, ConnTypes, ConnFacts, ConnStates, LiveStates,
       SlotStates, Endings, Unread, Reading, Read
  <2>2. ConnFacts(c)'
    BY <1>facts, <1>13 DEF LpFails, Fails, clientVars, ConnTypes, ConnFacts, Unread, Reading, Read,
       Printed, JobOf
  <2>3. ASSUME NEW d \in Conns \ {c} PROVE Same(d)
    BY <1>facts, <1>13 DEF LpFails, Fails, clientVars, ConnTypes, Same
  <2> QED
    BY <2>1, <2>2, <2>3, OneConnection
<1>14. ASSUME NEW c \in Conns, Release(c) PROVE ConnInv'
  <2>1. ConnTypes'
    BY <1>facts, <1>14 DEF Release, clientVars, jobVars, ConnTypes, ConnFacts, ConnStates, LiveStates,
       SlotStates, Endings, Unread, Reading, Read
  <2>2. ConnFacts(c)'
    BY <1>facts, <1>14 DEF Release, clientVars, jobVars, ConnTypes, ConnFacts, Unread, Reading, Read,
       Printed, JobOf
  <2>3. ASSUME NEW d \in Conns \ {c} PROVE Same(d)
    BY <1>facts, <1>14 DEF Release, clientVars, jobVars, ConnTypes, Same
  <2> QED
    BY <2>1, <2>2, <2>3, OneConnection
<1>15. CASE Close
  <2>1. ConnTypes'
    BY <1>facts, <1>15 DEF Close, clientVars, jobVars, ConnTypes, ConnStates
  <2>2. ASSUME NEW d \in Conns PROVE ConnFacts(d)'
    BY <1>facts, <1>15, <2>2 DEF Close, clientVars, jobVars, ConnTypes, ConnFacts,
       Unread, Reading, Read, Printed, JobOf
  <2> QED
    BY <2>1, <2>2 DEF ConnInv
<1>16. CASE Exit \/ Kill
  <2>1. ConnTypes'
    BY <1>facts, <1>16 DEF Exit, Kill, ProcessEnds, clientVars, ConnTypes,
       ConnStates, Endings
  <2>2. ASSUME NEW d \in Conns PROVE ConnFacts(d)'
    BY <1>facts, <1>16, <2>2 DEF Exit, Kill, ProcessEnds, clientVars, ConnTypes,
       ConnStates, LiveStates, SlotStates, ConnFacts, Unread, Reading, Read,
       Printed, JobOf
  <2> QED
    BY <2>1, <2>2 DEF ConnInv
<1>17. CASE UNCHANGED <<st, clientVars, jobVars>>
  BY <1>facts, <1>17 DEF ConnInv, clientVars, jobVars, ConnTypes, ConnFacts,
     Unread, Reading, Read, Printed, JobOf
<1>18. CASE \/ Bind \/ Start \/ Signal \/ Wait \/ AskShutdown \/ AwaitShutdown
            \/ ShutdownDone \/ Return \/ Restart
            \/ (\E r \in Routes : LoopEnds(r)) \/ UNCHANGED vars
  <2>1. UNCHANGED <<st, clientVars, jobVars>>
    BY <1>18 DEF Bind, Start, Signal, Wait, AskShutdown, AwaitShutdown,
                 ShutdownDone, Return, Restart, LoopEnds, vars
  <2> QED
    BY <2>1, <1>17
<1> QED
  BY <1>1, <1>2, <1>3, <1>4, <1>5, <1>6, <1>7, <1>8, <1>9, <1>10, <1>11, <1>12,
     <1>13, <1>14, <1>15, <1>16, <1>18
  DEF Next, Serve, Handler

\* A connection's counters, spool file and job fit the state of its handler.
THEOREM ConnInvariant == Spec => []ConnInv
  BY ConnInit, ConnStep, PTL DEF Spec

-----------------------------------------------------------------------------
(* Slots                                                                   *)

SlotInv == slots \in Nat /\ SlotsConserved

LEMMA HoldersFinite ==
  IsFiniteSet(Holders) /\ Cardinality(Holders) \in Nat
  BY ConnsAssumption, FS_Subset, FS_CardinalityType DEF Holders

LEMMA SlotInit == Init => SlotInv
<1> SUFFICES ASSUME Init PROVE SlotInv
  OBVIOUS
<1>1. Holders = {}
  BY DEF Init, Holders, SlotStates
<1>2. slots = JobSlots
  BY DEF Init
<1> QED
  BY <1>1, <1>2, FS_EmptySet, SlotsAssumption DEF SlotInv, SlotsConserved

\* A step that moves no handler into or out of the slot states and leaves the
\* semaphore alone.
LEMMA SlotsUntouched ==
  ASSUME SlotInv, UNCHANGED slots, Holders' = Holders
  PROVE  SlotInv'
  BY DEF SlotInv, SlotsConserved

LEMMA SlotStep == ConnInv /\ SlotInv /\ [Next]_vars => SlotInv'
<1> SUFFICES ASSUME ConnInv, SlotInv, [Next]_vars PROVE SlotInv'
  OBVIOUS
<1>st. st \in [Conns -> ConnStates]
  BY DEF ConnInv, ConnTypes
<1> USE SlotsAssumption DEF SlotInv, SlotsConserved
<1>1. ASSUME NEW c \in Conns, Acquire(c) PROVE SlotInv'
  <2>1. Holders' = Holders \cup {c} /\ c \notin Holders
    BY <1>st, <1>1 DEF Acquire, Holders, SlotStates
  <2>2. Cardinality(Holders') = Cardinality(Holders) + 1
    BY <2>1, HoldersFinite, FS_AddElement
  <2>3. slots' = slots - 1 /\ slots > 0
    BY <1>1 DEF Acquire
  <2> QED
    BY <2>2, <2>3, HoldersFinite
<1>2. ASSUME NEW c \in Conns, Release(c) PROVE SlotInv'
  <2>1. Holders' = Holders \ {c} /\ c \in Holders
    BY <1>st, <1>2 DEF Release, Holders, SlotStates
  <2>2. Cardinality(Holders') = Cardinality(Holders) - 1
    BY <2>1, HoldersFinite, FS_RemoveElement
  <2>3. slots' = slots + 1
    BY <1>2 DEF Release
  <2> QED
    BY <2>2, <2>3, HoldersFinite
<1>3. CASE Exit \/ Kill
  <2>1. Holders' = {}
    BY <1>st, <1>3 DEF Exit, Kill, ProcessEnds, Holders, LiveStates, SlotStates
  <2>2. slots' = JobSlots
    BY <1>3 DEF Exit, Kill, ProcessEnds
  <2> QED
    BY <2>1, <2>2, FS_EmptySet
<1>4. ASSUME NEW c \in Conns,
             \/ OpenSpool(c) \/ RecvData(c) \/ RecvReset(c) \/ RecvEof(c)
             \/ RecvTimeout(c) \/ LpQueues(c) \/ LpReturns(c) \/ LpFails(c)
      PROVE  SlotInv'
  <2>1. slots' = slots
    BY <1>4 DEF OpenSpool, RecvData, RecvReset, RecvEof, RecvTimeout,
                StopReading, LpQueues, LpReturns, LpFails
  <2>2. st[c] \in SlotStates
    BY <1>4 DEF OpenSpool, RecvData, RecvReset, RecvEof, RecvTimeout,
                LpQueues, LpReturns, LpFails, SlotStates
  <2>3. \E s \in SlotStates : st' = [st EXCEPT ![c] = s]
    BY <1>st, <1>4 DEF OpenSpool, RecvData, RecvReset, RecvEof, RecvTimeout,
       StopReading, Fails, LpQueues, LpReturns, LpFails, SlotStates
  <2>4. Holders' = Holders
    BY <1>st, <2>2, <2>3 DEF Holders
  <2> QED
    BY <2>1, <2>4, SlotsUntouched
<1>5. ASSUME NEW c \in Conns,
             \/ \E r \in Routes : Connect(c, r)
             \/ Send(c) \/ Hangup(c) \/ Accept(c) \/ RefuseAddress(c) \/ RefuseFull(c)
      PROVE  SlotInv'
  <2>1. slots' = slots
    BY <1>5 DEF Connect, Send, Hangup, Accept, RefuseAddress, RefuseFull
  <2>2. Holders' = Holders
    BY <1>st, <1>5 DEF Connect, Send, Hangup, Accept, RefuseAddress,
       RefuseFull, Refused, Holders, SlotStates
  <2> QED
    BY <2>1, <2>2, SlotsUntouched
<1>6. CASE Close
  <2>1. Holders' = Holders
    BY <1>st, <1>6 DEF Close, Holders, SlotStates
  <2> QED
    BY <1>6, <2>1, SlotsUntouched DEF Close
<1>7. CASE \/ Bind \/ Start \/ Signal \/ Wait \/ AskShutdown \/ AwaitShutdown
           \/ ShutdownDone \/ Return \/ Restart
           \/ (\E r \in Routes : LoopEnds(r)) \/ UNCHANGED vars
  <2>1. UNCHANGED <<slots, st>>
    BY <1>7 DEF Bind, Start, Signal, Wait, AskShutdown, AwaitShutdown,
                ShutdownDone, Return, Restart, LoopEnds, vars
  <2> QED
    BY <2>1, SlotsUntouched DEF Holders
<1> QED
  BY <1>1, <1>2, <1>3, <1>4, <1>5, <1>6, <1>7 DEF Next, Serve, Handler

\* The free slots and the handlers that hold one are always JobSlots together:
\* no path through a handler leaks a slot or returns one twice.
THEOREM SlotsAreConserved == Spec => []SlotsConserved
<1>1. Spec => []SlotInv
  BY SlotInit, SlotStep, ConnInvariant, PTL DEF Spec
<1> QED
  BY <1>1, PTL DEF SlotInv

\* What is spooled is bounded: at most JobSlots files of at most MaxBytes.
THEOREM SpoolIsBounded == Spec => []SpoolBounded
<1>1. ConnInv /\ SlotInv => SpoolBounded
  <2> SUFFICES ASSUME ConnInv, SlotInv PROVE SpoolBounded
    OBVIOUS
  <2> DEFINE Files == {c \in Conns : spool[c] # NoFile}
  <2>1. \A c \in Conns : spool[c] # NoFile => c \in Holders /\ spool[c] <= MaxBytes
    BY BytesAssumption DEF ConnInv, ConnTypes, ConnFacts, ConnStates, LiveStates,
       SlotStates, Holders, Unread, NoFile
  <2>2. Cardinality(Files) <= Cardinality(Holders) /\ Cardinality(Files) \in Nat
    BY <2>1, HoldersFinite, FS_Subset, FS_CardinalityType
  <2> QED
    BY <2>1, <2>2, HoldersFinite, SlotsAssumption
    DEF SlotInv, SlotsConserved, SpoolBounded
<1>2. Spec => []SlotInv
  BY SlotInit, SlotStep, ConnInvariant, PTL DEF Spec
<1> QED
  BY <1>1, <1>2, ConnInvariant, PTL

\* Every job in a CUPS queue is one connection's whole received data, in the
\* queue of the listener it came to.
THEOREM JobsAreFaithful == Spec => []JobFaithful
<1>1. ConnInv => JobFaithful
  BY BytesAssumption DEF ConnInv, ConnTypes, ConnFacts, ConnStates, LiveStates,
     SlotStates, Unread, Reading, Read, Printed, JobOf, JobFaithful
<1> QED
  BY <1>1, ConnInvariant, PTL

\* A received job is handed to CUPS or in the log, or its process was ended.
THEOREM LossIsLogged == Spec => []NoSilentLoss
<1>1. ConnInv => NoSilentLoss
  BY DEF ConnInv, ConnFacts, NoSilentLoss
<1> QED
  BY <1>1, ConnInvariant, PTL

-----------------------------------------------------------------------------
(* Types                                                                   *)

FlagTypes == failed \in BOOLEAN /\ stopped \in BOOLEAN /\ asked \in [Routes -> BOOLEAN]

LEMMA FlagStep == FlagTypes /\ [Next]_vars => FlagTypes'
<1> SUFFICES ASSUME FlagTypes, [Next]_vars PROVE FlagTypes'
  OBVIOUS
<1> USE DEF FlagTypes
<1>1. CASE Serve
  BY <1>1 DEF Serve, Bind, Start, Raise, Wait, AskShutdown, AwaitShutdown,
     ShutdownDone, Close, Return, Exit, ProcessEnds, listenVars, mainVars
<1>2. CASE Signal \/ Kill \/ Restart
  BY <1>2 DEF Signal, Kill, Restart, ProcessEnds, listenVars
<1>3. ASSUME NEW r \in Routes, LoopEnds(r) PROVE FlagTypes'
  BY <1>3 DEF LoopEnds, mainVars
<1>4. CASE UNCHANGED <<mainVars, listenVars>>
  BY <1>4 DEF mainVars, listenVars
<1> QED
  BY <1>1, <1>2, <1>3, <1>4, ConnectionStepsKeepMain DEF Next, vars

\* Type correctness.
THEOREM TypeCorrect == Spec => []TypeOK
<1>1. Init => FlagTypes
  <2> SUFFICES ASSUME Init PROVE FlagTypes
    OBVIOUS
  <2>1. failed = FALSE /\ stopped = FALSE /\ asked = [r \in Routes |-> FALSE]
    BY Zenon DEF Init
  <2>2. asked \in [Routes -> BOOLEAN]
    BY <2>1, Zenon
  <2> QED
    BY <2>1, <2>2, Zenon DEF FlagTypes
<1>2. Spec => []FlagTypes
  BY <1>1, FlagStep, PTL DEF Spec
<1>3. MainInv => main \in MainStates /\ at \in 1..(NRoutes + 1)
  BY RoutesAssumption DEF MainInv, MainTypes, MainPositions, MainStates, Routes
<1>4. SlotInv => slots \in 0..JobSlots
  BY HoldersFinite, SlotsAssumption DEF SlotInv, SlotsConserved
<1>5. MainInv /\ ConnInv /\ SlotInv /\ FlagTypes => TypeOK
  BY <1>3, <1>4 DEF MainInv, MainTypes, ConnInv, ConnTypes, FlagTypes, TypeOK
<1>6. Spec => []SlotInv
  BY SlotInit, SlotStep, ConnInvariant, PTL DEF Spec
<1> QED
  BY <1>2, <1>5, <1>6, MainInvariant, ConnInvariant, PTL

-----------------------------------------------------------------------------
(* Refinement                                                              *)

LEMMA PhaseCases ==
  ASSUME NEW c \in Conns, st[c] \in ConnStates
  PROVE  /\ Phase[c] = "active" <=> st[c] \in SlotStates
         /\ Phase[c] = "done" <=> st[c] = "closed"
         /\ Phase[c] = "new" <=> st[c] \in {"away", "pending", "handler"}
  BY DEF Phase, ConnStates, LiveStates, SlotStates

\* Phase follows st, so a step that leaves st alone leaves Phase alone.
LEMMA PhaseOfState ==
  ASSUME UNCHANGED st
  PROVE  UNCHANGED Phase
  BY DEF Phase

\* A step that closes exactly the connections of S is Finish(S).
LEMMA ClosingFinishes ==
  ASSUME st \in [Conns -> ConnStates], NEW S \in SUBSET Conns,
         \A c \in S : st[c] # "closed",
         st' = [c \in Conns |-> IF c \in S THEN "closed" ELSE st[c]],
         UNCHANGED printed
  PROVE  Jobs!Finish(S)
<1>1. \A c \in S : Phase[c] # "done"
  BY PhaseCases
<1>2. Phase' = [c \in Conns |-> IF c \in S THEN "done" ELSE Phase[c]]
  BY DEF Phase, SlotStates
<1> QED
  BY <1>1, <1>2 DEF Jobs!Finish

\* A step that moves a connection between states of one phase is a stutter.
LEMMA MovingStutters ==
  ASSUME st \in [Conns -> ConnStates], NEW c \in Conns, NEW s,
         st' = [st EXCEPT ![c] = s],
         \/ {st[c], s} \subseteq SlotStates
         \/ {st[c], s} \subseteq {"away", "pending", "handler"},
         UNCHANGED printed
  PROVE  UNCHANGED <<Phase, printed>>
  BY DEF Phase, SlotStates, ConnStates, LiveStates

\* RawJobs counts with the same Cardinality.
LEMMA SameCardinality ==
  ASSUME NEW S
  PROVE  Jobs!Cardinality(S) = Cardinality(S)
  BY Zenon DEF Jobs!Cardinality, Cardinality

LEMMA RefinesInit == Init => Jobs!Init
  BY DEF Init, Jobs!Init, Phase, SlotStates

LEMMA RefinesStep ==
  ConnInv /\ SlotInv /\ [Next]_vars => [Jobs!Next]_<<Phase, printed>>
<1> SUFFICES ASSUME ConnInv, SlotInv, [Next]_vars
             PROVE  Jobs!Next \/ UNCHANGED <<Phase, printed>>
  OBVIOUS
<1>st. st \in [Conns -> ConnStates] /\ printed \in [Conns -> Seq(JobRecords)]
  BY DEF ConnInv, ConnTypes
<1>1. ASSUME NEW c \in Conns, Acquire(c) PROVE Jobs!Admit(c)
  <2>1. Jobs!Active = Holders
    BY <1>st, PhaseCases DEF Jobs!Active, Holders
  <2>2. Cardinality(Jobs!Active) < JobSlots
    BY <1>1, <2>1, HoldersFinite, SlotsAssumption
    DEF Acquire, SlotInv, SlotsConserved
  <2>3. Phase[c] = "new"
    BY <1>st, <1>1, PhaseCases DEF Acquire
  <2>4. Phase' = [Phase EXCEPT ![c] = "active"]
    BY <1>st, <1>1 DEF Acquire, Phase, SlotStates
  <2>5. UNCHANGED printed
    BY <1>1 DEF Acquire, jobVars
  <2> QED
    BY <2>2, <2>3, <2>4, <2>5, SameCardinality DEF Jobs!Admit
<1>2. ASSUME NEW c \in Conns, LpQueues(c) PROVE Jobs!Submit(c)
  <2> DEFINE job == [queue |-> via[c], bytes |-> spool[c]]
  <2>1. ConnFacts(c)
    BY DEF ConnInv
  <2>2. printed[c] = <<>> /\ spool[c] \in 1..MaxBytes /\ via[c] \in Routes
    BY <1>2, <2>1 DEF LpQueues, ConnFacts, Read
  <2>3. Phase[c] = "active" /\ UNCHANGED Phase
    BY <1>st, <1>2, PhaseCases DEF LpQueues, Phase, SlotStates
  <2>4. printed' = [printed EXCEPT ![c] = Append(printed[c], job)]
    BY <1>2 DEF LpQueues, QueueOf
  <2>5. Append(<<>>, job) = <<job>>
    <3> HIDE DEF job
    <3> QED OBVIOUS
  <2>6. printed' = [printed EXCEPT ![c] = <<job>>]
    <3> HIDE DEF job
    <3> QED BY <1>st, <2>2, <2>4, <2>5
  <2> QED
    BY <2>2, <2>3, <2>6 DEF Jobs!Submit
<1>3. ASSUME NEW c \in Conns,
             \/ Release(c) \/ RefuseAddress(c) \/ RefuseFull(c)
             \/ Accept(c) /\ st'[c] = "closed"
      PROVE  Jobs!Finish({c})
  <2>1. st' = [d \in Conns |-> IF d \in {c} THEN "closed" ELSE st[d]]
    BY <1>st, <1>3 DEF Release, RefuseAddress, RefuseFull, Refused, Accept
  <2>2. st[c] # "closed" /\ UNCHANGED printed
    BY <1>3 DEF Release, RefuseAddress, RefuseFull, Accept, jobVars
  <2> QED
    BY <1>st, <2>1, <2>2, ClosingFinishes
<1>4. CASE Close
  <2> DEFINE S == {c \in Conns : st[c] = "pending" /\ via[c] = at}
  <2>1. st' = [c \in Conns |-> IF c \in S THEN "closed" ELSE st[c]]
    BY <1>4 DEF Close
  <2>2. UNCHANGED printed
    BY <1>4 DEF Close, jobVars
  <2>3. Jobs!Finish(S)
    BY <1>st, <2>1, <2>2, ClosingFinishes
  <2> QED
    BY <2>3 DEF Jobs!Next
<1>5. CASE Exit \/ Kill
  <2> DEFINE S == {c \in Conns : st[c] \in LiveStates}
  <2>1. st' = [c \in Conns |-> IF c \in S THEN "closed" ELSE st[c]]
    BY <1>5 DEF Exit, Kill, ProcessEnds
  <2>2. UNCHANGED printed
    BY <1>5 DEF Exit, Kill, ProcessEnds
  <2>3. \A c \in S : st[c] # "closed"
    BY DEF LiveStates, SlotStates
  <2>4. Jobs!Finish(S)
    BY <1>st, <2>1, <2>2, <2>3, ClosingFinishes
  <2> QED
    BY <2>4 DEF Jobs!Next
<1>6. ASSUME NEW c \in Conns,
             \/ OpenSpool(c) \/ RecvData(c) \/ RecvReset(c) \/ RecvEof(c)
             \/ RecvTimeout(c) \/ LpReturns(c) \/ LpFails(c)
      PROVE  UNCHANGED <<Phase, printed>>
  <2>1. UNCHANGED printed
    BY <1>6 DEF OpenSpool, RecvData, RecvReset, RecvEof, RecvTimeout,
                StopReading, LpReturns, LpFails
  <2>2. st[c] \in SlotStates
    BY <1>6 DEF OpenSpool, RecvData, RecvReset, RecvEof, RecvTimeout,
                LpReturns, LpFails, SlotStates
  <2>3. PICK s \in SlotStates : st' = [st EXCEPT ![c] = s]
    BY <1>st, <1>6 DEF OpenSpool, RecvData, RecvReset, RecvEof, RecvTimeout,
       StopReading, Fails, LpReturns, LpFails, SlotStates
  <2> QED
    BY <1>st, <2>1, <2>2, <2>3, MovingStutters
<1>7. ASSUME NEW c \in Conns,
             \/ \E r \in Routes : Connect(c, r)
             \/ Accept(c) /\ st'[c] # "closed"
      PROVE  UNCHANGED <<Phase, printed>>
  <2>1. UNCHANGED printed
    BY <1>7 DEF Connect, Accept, jobVars
  <2>2. PICK s \in {"pending", "handler"} : st' = [st EXCEPT ![c] = s]
    BY <1>st, <1>7 DEF Connect, Accept
  <2>3. st[c] \in {"away", "pending"}
    BY <1>7 DEF Connect, Accept
  <2> QED
    BY <1>st, <2>1, <2>2, <2>3, MovingStutters
<1>8. CASE UNCHANGED <<st, printed>>
  BY <1>8, PhaseOfState
<1>9. CASE \/ Bind \/ Start \/ Signal \/ Wait \/ AskShutdown \/ AwaitShutdown
           \/ ShutdownDone \/ Return \/ Restart
           \/ (\E r \in Routes : LoopEnds(r))
           \/ (\E c \in Conns : Send(c) \/ Hangup(c)) \/ UNCHANGED vars
  <2>1. UNCHANGED <<st, printed>>
    BY <1>9 DEF Bind, Start, Signal, Wait, AskShutdown, AwaitShutdown,
       ShutdownDone, Return, Restart, LoopEnds, Send, Hangup, jobVars, vars
  <2> QED
    BY <2>1, <1>8
<1>10. ASSUME NEW c \in Conns, Jobs!Finish({c}) PROVE Jobs!Next
  BY <1>10 DEF Jobs!Next
<1> QED
  BY <1>1, <1>2, <1>3, <1>4, <1>5, <1>6, <1>7, <1>9, <1>10
  DEF Next, Serve, Handler, Jobs!Next

\* The gateway implements its abstract job service, for any number of clients,
\* listeners and slots.
THEOREM GatewayImplementsRawJobs == Spec => ImplementsRawJobs
<1>1. Spec => []SlotInv
  BY SlotInit, SlotStep, ConnInvariant, PTL DEF Spec
<1> QED
  BY <1>1, ConnInvariant, RefinesInit, RefinesStep, PTL
  DEF Spec, ImplementsRawJobs, Jobs!Spec

-----------------------------------------------------------------------------
(* Progress: the part of StopLeadsToExit and ConnectionEnds that is safety. *)
(* With every step of its own a thread comes closer to its end, no step of  *)
(* another thread throws it back, and there always is a step to take.       *)

Leaving == main \in {"shutdown", "close", "returned"}

\* How many steps serve() takes at most until the process has ended.
StepsToExit ==
  IF main = "shutdown"
  THEN 2 * (started + 1 - at) - (IF at <= started /\ asked[at] THEN 1 ELSE 0)
         + servers + 3
  ELSE IF main = "close" THEN servers + 3 - at
  ELSE IF main = "returned" THEN 1 ELSE 0

LEMMA StepsToExitBounded == MainInv => StepsToExit \in 0..(3 * NRoutes + 3)
  BY RoutesAssumption
  DEF MainInv, MainTypes, MainPositions, StepsToExit, Routes

LEMMA ExitApproaches ==
  ASSUME MainInv, FlagTypes, [Next]_vars, Leaving
  PROVE  /\ StepsToExit' <= StepsToExit
         /\ Serve => StepsToExit' < StepsToExit
<1>p. MainInv'
  BY MainStep
<1>0. StepsToExit \in Int /\ StepsToExit' \in Int
  BY <1>p, RoutesAssumption
  DEF MainInv, MainTypes, MainPositions, StepsToExit
<1> USE RoutesAssumption
    DEF MainInv, MainTypes, MainPositions, StepsToExit, Leaving, Routes
<1>1. ASSUME Serve PROVE StepsToExit' < StepsToExit
  <2>1. CASE AskShutdown
    <3>1. asked'[at] /\ ~asked[at] /\ at <= started
      BY <2>1 DEF AskShutdown, ShutdownList, FlagTypes
    <3>2. UNCHANGED <<main, at, servers, started>> /\ main = "shutdown"
      BY <2>1 DEF AskShutdown, mainVars
    <3> QED BY <3>1, <3>2
  <2>2. CASE AwaitShutdown
    BY <2>2 DEF AwaitShutdown, listenVars, ShutdownList
  <2>3. CASE ShutdownDone
    BY <2>3 DEF ShutdownDone, listenVars, ShutdownList
  <2>4. CASE Close
    BY <2>4 DEF Close, CloseList
  <2>5. CASE Return
    BY <2>5 DEF Return, CloseList
  <2>6. CASE Exit
    BY <2>6 DEF Exit, ProcessEnds
  <2> QED
    BY <1>1, <2>1, <2>2, <2>3, <2>4, <2>5, <2>6 DEF Serve, Bind, Start, Wait
<1>2. ASSUME Signal \/ UNCHANGED <<mainVars, listenVars>>
      PROVE  StepsToExit' <= StepsToExit
  BY <1>0, <1>2 DEF Signal, mainVars, listenVars
<1>3. ASSUME Kill PROVE StepsToExit' <= StepsToExit
  BY <1>0, <1>3 DEF Kill, ProcessEnds
<1>4. ASSUME NEW r \in Routes, LoopEnds(r) PROVE StepsToExit' <= StepsToExit
  BY <1>0, <1>4 DEF LoopEnds, mainVars
<1>5. ~Restart
  BY DEF Restart
<1>6. StepsToExit' <= StepsToExit
  <2>1. CASE Serve
    <3> HIDE DEF StepsToExit
    <3> QED BY <1>0, <1>1, <2>1
  <2>2. CASE \E c \in Conns : \/ \E r \in Routes : Connect(c, r)
                             \/ Send(c) \/ Hangup(c) \/ Accept(c) \/ Handler(c)
    BY <1>2, <2>2, ConnectionStepsKeepMain
  <2>3. CASE UNCHANGED vars
    BY <1>2, <2>3 DEF vars
  <2> QED
    BY <1>2, <1>3, <1>4, <1>5, <2>1, <2>2, <2>3 DEF Next
<1> QED
  BY <1>1, <1>6

\* What serve() waits for comes without anybody else's help: the loop it has
\* asked to end, ends by itself.
CanLeave ==
  main = "shutdown" /\ at <= ShutdownList /\ asked[at] =>
    loop[at] = "ended" \/ (loop[at] = "serving" /\ asked[at])

\* Once serve() has left the wait, the process is at most 3 * NRoutes + 3 of its
\* steps from its end, whatever clients, handlers and signals do meanwhile, and
\* never waits for a loop that cannot end.
THEOREM ShutdownIsBounded ==
  Spec => /\ [](Leaving => StepsToExit \in 0..(3 * NRoutes + 3) /\ CanLeave)
          /\ [][Leaving => /\ StepsToExit' <= StepsToExit
                          /\ (Serve => StepsToExit' < StepsToExit)]_vars
<1>1. MainInv => CanLeave
  BY RoutesAssumption
  DEF MainInv, MainTypes, MainPositions, LoopsListed, CanLeave, ShutdownList, Routes
<1>2. MainInv => (Leaving => StepsToExit \in 0..(3 * NRoutes + 3) /\ CanLeave)
  BY <1>1, StepsToExitBounded
<1>3. MainInv /\ FlagTypes /\ [Next]_vars =>
        [Leaving => /\ StepsToExit' <= StepsToExit
                    /\ (Serve => StepsToExit' < StepsToExit)]_vars
  BY ExitApproaches
<1>4. TypeOK => FlagTypes
  BY DEF TypeOK, FlagTypes
<1> QED
  BY <1>2, <1>3, <1>4, MainInvariant, TypeCorrect, PTL DEF Spec

-----------------------------------------------------------------------------
(* The same for a connection.                                              *)

Stages == [away |-> 8, pending |-> 7, handler |-> 6, opening |-> 5, receiving |-> 4,
           submitting |-> 3, queued |-> 2, leaving |-> 1, closed |-> 0]

\* How many steps connection c and its handler take at most until it is closed.
StepsToClose(c) ==
  Stages[st[c]] +
    (IF st[c] \in {"away", "pending", "handler", "opening", "receiving"}
     THEN ClientBytes - got[c] ELSE 0)

\* The step of a connection: it moves on, or reads some more.
MovesOn(c) ==
  \/ got'[c] = got[c] /\ Stages[st'[c]] < Stages[st[c]]
  \/ st'[c] = "receiving" /\ st[c] = "receiving" /\ got'[c] > got[c]
  \/ st'[c] \in {"leaving", "closed"} /\ st[c] = "receiving"

LEMMA StagesOrdered ==
  \A s \in ConnStates :
    /\ Stages[s] \in 0..8
    /\ s \in {"away", "pending", "handler", "opening", "receiving"} <=> Stages[s] >= 4
  BY DEF Stages, ConnStates, LiveStates, SlotStates

LEMMA StepsToCloseType ==
  ASSUME NEW s \in ConnStates, NEW g \in 0..ClientBytes
  PROVE  Stages[s] +
           (IF s \in {"away", "pending", "handler", "opening", "receiving"}
            THEN ClientBytes - g ELSE 0) \in 0..(ClientBytes + 8)
<1>1. Stages[s] \in 0..8
  BY StagesOrdered
<1> QED BY <1>1, BytesAssumption

LEMMA MovingOnIsProgress ==
  ASSUME ConnInv, ConnInv', NEW c \in Conns, MovesOn(c)
  PROVE  StepsToClose(c)' < StepsToClose(c)
<1>1. /\ st[c] \in ConnStates /\ st'[c] \in ConnStates
      /\ got[c] \in 0..ClientBytes /\ got'[c] \in 0..ClientBytes
  BY DEF ConnInv, ConnTypes
<1>2. CASE got'[c] = got[c] /\ Stages[st'[c]] < Stages[st[c]]
  BY <1>1, <1>2, StagesOrdered, BytesAssumption DEF StepsToClose
<1>3. CASE st'[c] = "receiving" /\ st[c] = "receiving" /\ got'[c] > got[c]
  BY <1>1, <1>3, StagesOrdered, BytesAssumption DEF StepsToClose
<1>4. CASE st'[c] \in {"leaving", "closed"} /\ st[c] = "receiving"
  BY <1>1, <1>4, BytesAssumption DEF StepsToClose, Stages
<1> QED BY <1>2, <1>3, <1>4 DEF MovesOn

LEMMA StepsMoveOn ==
  ASSUME ConnInv, [Next]_vars, NEW c \in Conns
  PROVE  /\ MovesOn(c) \/ UNCHANGED <<st[c], got[c]>>
         /\ Accept(c) \/ Handler(c) => MovesOn(c)
<1>st. /\ st \in [Conns -> ConnStates] /\ got \in [Conns -> 0..ClientBytes]
       /\ sent \in [Conns -> 0..ClientBytes]
  BY DEF ConnInv, ConnTypes
<1> USE <1>st DEF MovesOn, Stages
<1>1. ASSUME Accept(c) PROVE MovesOn(c)
  BY <1>1 DEF Accept
<1>2. ASSUME Handler(c) PROVE MovesOn(c)
  <2>1. CASE RefuseAddress(c) \/ RefuseFull(c) \/ Acquire(c)
    BY <2>1 DEF RefuseAddress, RefuseFull, Refused, Acquire, jobVars
  <2>2. CASE OpenSpool(c)
    BY <2>2 DEF OpenSpool, Fails
  <2>3. CASE RecvData(c)
    <3>1. PICK n \in 1..(sent[c] - got[c]) :
            got' = [got EXCEPT ![c] = @ + n] /\ (UNCHANGED st \/ \E e : Fails(c, e))
      BY <2>3 DEF RecvData
    <3> QED BY <2>3, <3>1, BytesAssumption DEF RecvData, Fails
  <2>4. CASE RecvReset(c)
    BY <2>4 DEF RecvReset, Fails
  <2>5. CASE RecvEof(c) \/ RecvTimeout(c)
    BY <2>5 DEF RecvEof, RecvTimeout, StopReading
  <2>6. CASE LpQueues(c) \/ LpReturns(c) \/ Release(c)
    BY <2>6 DEF LpQueues, LpReturns, Release, jobVars
  <2>7. CASE LpFails(c)
    BY <2>7 DEF LpFails, Fails
  <2> QED
    BY <1>2, <2>1, <2>2, <2>3, <2>4, <2>5, <2>6, <2>7 DEF Handler
<1>3. ASSUME NEW r \in Routes, Connect(c, r) PROVE MovesOn(c)
  BY <1>3 DEF Connect, jobVars
<1>4. ASSUME NEW d \in Conns \ {c},
             Handler(d) \/ Accept(d) \/ \E r \in Routes : Connect(d, r)
      PROVE  UNCHANGED <<st[c], got[c]>>
  BY <1>4 DEF Handler, Accept, Connect, RefuseAddress, RefuseFull, Refused, Acquire,
     OpenSpool, Fails, RecvData, RecvReset, RecvEof, RecvTimeout, StopReading,
     LpQueues, LpReturns, LpFails, Release, jobVars
<1>5. ASSUME NEW d \in Conns, Send(d) \/ Hangup(d)
      PROVE  UNCHANGED <<st[c], got[c]>>
  BY <1>5 DEF Send, Hangup, jobVars
<1>6. ASSUME Close PROVE MovesOn(c) \/ UNCHANGED <<st[c], got[c]>>
  BY <1>6 DEF Close, jobVars
<1>7. ASSUME Exit \/ Kill PROVE MovesOn(c) \/ UNCHANGED <<st[c], got[c]>>
  BY <1>7 DEF Exit, Kill, ProcessEnds, LiveStates, SlotStates
<1>8. ASSUME \/ Bind \/ Start \/ Wait \/ AskShutdown \/ AwaitShutdown
             \/ ShutdownDone \/ Return \/ Signal \/ Restart
             \/ (\E r \in Routes : LoopEnds(r)) \/ UNCHANGED vars
      PROVE  UNCHANGED <<st[c], got[c]>>
  BY <1>8 DEF Bind, Start, Wait, AskShutdown, AwaitShutdown, ShutdownDone, Return,
     Signal, Restart, LoopEnds, jobVars, vars
<1> QED
  BY <1>1, <1>2, <1>3, <1>4, <1>5, <1>6, <1>7, <1>8 DEF Next, Serve

\* serve() either accepts a pending connection, or is on its way to do so or to
\* close the listener.
PendingInv ==
  /\ \A c \in Conns : st[c] = "pending" => sock[via[c]] = "listening"
  /\ \A r \in Routes : asked[r] \/ loop[r] = "ended" => Leaving

LEMMA PendingInit == Init => PendingInv
<1> SUFFICES ASSUME Init PROVE PendingInv
  OBVIOUS
<1>1. \A c \in Conns : st[c] = "away"
  BY DEF Init
<1>2. \A r \in Routes : loop[r] = "none" /\ ~asked[r]
  BY DEF Init
<1> QED BY <1>1, <1>2 DEF PendingInv

LEMMA PendingStep ==
  MainInv /\ ConnInv /\ FlagTypes /\ PendingInv /\ [Next]_vars => PendingInv'
<1> SUFFICES ASSUME MainInv, ConnInv, FlagTypes, PendingInv, [Next]_vars
             PROVE  PendingInv'
  OBVIOUS
<1>st. /\ st \in [Conns -> ConnStates] /\ via \in [Conns -> 0..NRoutes]
       /\ sock \in [Routes -> {"none", "listening", "closed"}]
       /\ loop \in [Routes -> {"none", "serving", "ended"}]
       /\ asked \in [Routes -> BOOLEAN]
       /\ \A c \in Conns : st[c] # "away" => via[c] \in Routes
  BY DEF ConnInv, ConnTypes, ConnFacts, MainInv, MainTypes, FlagTypes
<1> USE <1>st DEF PendingInv, Leaving
<1>1. CASE Bind
  <2>1. /\ main = "bind" /\ UNCHANGED <<loop, asked, st, via>>
        /\ sock' = sock \/ sock' = [sock EXCEPT ![at] = "listening"]
    BY <1>1 DEF Bind, clientVars
  <2>2. \A r \in Routes : sock[r] = "listening" => sock'[r] = "listening"
    BY <2>1
  <2> QED BY <2>1, <2>2
<1>2. CASE Start
  BY <1>2 DEF Start, Raise, clientVars, MainInv, MainPositions
<1>3. CASE Signal \/ Wait \/ AwaitShutdown \/ ShutdownDone \/ Return \/ Restart
  BY <1>3 DEF Signal, Wait, AwaitShutdown, ShutdownDone, Return, Restart, clientVars,
     listenVars, MainInv, MainPositions, LoopsListed
<1>4. CASE AskShutdown \/ \E r \in Routes : LoopEnds(r)
  BY <1>4 DEF AskShutdown, LoopEnds, mainVars, clientVars
<1>5. CASE Close
  BY <1>5 DEF Close, clientVars
<1>6. CASE Exit \/ Kill
  BY <1>6 DEF Exit, Kill, ProcessEnds, LiveStates
<1>7. ASSUME NEW c \in Conns, NEW r \in Routes, Connect(c, r) PROVE PendingInv'
  BY <1>7 DEF Connect, mainVars, listenVars
<1>8. ASSUME NEW c \in Conns, Send(c) \/ Hangup(c) \/ Accept(c) \/ Handler(c)
      PROVE  PendingInv'
  <2>1. UNCHANGED <<via, mainVars, listenVars>>
    BY <1>8, ConnectionStepsKeepMain DEF Send, Hangup, Accept, Handler, RefuseAddress,
       RefuseFull, Acquire, OpenSpool, RecvData, RecvReset, RecvEof, RecvTimeout,
       StopReading, LpQueues, LpReturns, LpFails, Release, clientVars
  <2>2. \A d \in Conns : st'[d] = "pending" => st[d] = "pending"
    BY <1>8 DEF Send, Hangup, Accept, Handler, RefuseAddress, RefuseFull, Refused,
       Acquire, OpenSpool, Fails, RecvData, RecvReset, RecvEof, RecvTimeout,
       StopReading, LpQueues, LpReturns, LpFails, Release
  <2> QED BY <2>1, <2>2 DEF mainVars, listenVars
<1>9. CASE UNCHANGED vars
  BY <1>9 DEF vars, mainVars, listenVars, clientVars
<1> QED
  BY <1>1, <1>2, <1>3, <1>4, <1>5, <1>6, <1>7, <1>8, <1>9 DEF Next, Serve

\* A live connection is never left alone: while it is pending its listener's loop
\* runs, or serve() is starting or leaving; while it is read recv has something to
\* return, even if that is the timeout.  In its other states its handler has a
\* step that depends on nobody.
CanMoveOn(c) ==
  /\ st[c] = "pending" =>
       sock[via[c]] = "listening" /\ (loop[via[c]] = "serving" \/ main # "wait")
  /\ st[c] = "receiving" =>
       got[c] < sent[c] \/ fin[c] = "reset"
         \/ (got[c] = sent[c] /\ fin[c] \in {"open", "fin"})

\* A connection is closed after at most ClientBytes + 8 steps of its own, of which
\* no client, no other connection and no signal takes one back, and it always can
\* take the next one.
THEOREM ConnectionsMoveOn ==
  Spec => /\ [](\A c \in Conns : StepsToClose(c) \in 0..(ClientBytes + 8) /\ CanMoveOn(c))
          /\ [][\A c \in Conns :
                 /\ StepsToClose(c)' <= StepsToClose(c)
                 /\ (Accept(c) \/ Handler(c) => StepsToClose(c)' < StepsToClose(c))]_vars
<1>1. ASSUME ConnInv, NEW c \in Conns PROVE StepsToClose(c) \in 0..(ClientBytes + 8)
  BY <1>1, StepsToCloseType DEF ConnInv, ConnTypes, StepsToClose
<1>2. ASSUME MainInv, ConnInv, PendingInv, NEW c \in Conns PROVE CanMoveOn(c)
  <2>1. /\ got[c] \in Nat /\ sent[c] \in Nat /\ got[c] <= sent[c]
        /\ fin[c] \in {"open", "fin", "reset"} /\ (st[c] # "away" => via[c] \in Routes)
    BY <1>2, BytesAssumption DEF ConnInv, ConnTypes, ConnFacts
  <2>2. ASSUME main = "wait", NEW r \in Routes PROVE loop[r] = "serving"
    BY <1>2, <2>2, RoutesAssumption
    DEF PendingInv, Leaving, MainInv, MainTypes, MainPositions, LoopsListed, Routes
  <2> QED BY <1>2, <2>1, <2>2 DEF CanMoveOn, PendingInv
<1>3. ASSUME ConnInv, [Next]_vars, NEW c \in Conns
      PROVE  /\ StepsToClose(c)' <= StepsToClose(c)
             /\ (Accept(c) \/ Handler(c) => StepsToClose(c)' < StepsToClose(c))
  <2>1. ConnInv'
    BY <1>3, ConnStep
  <2>2. StepsToClose(c) \in Int /\ StepsToClose(c)' \in Int
    BY <1>3, <2>1, StepsToCloseType, BytesAssumption DEF ConnInv, ConnTypes, StepsToClose
  <2>3. MovesOn(c) => StepsToClose(c)' < StepsToClose(c)
    BY <1>3, <2>1, MovingOnIsProgress
  <2>4. UNCHANGED <<st[c], got[c]>> => StepsToClose(c)' = StepsToClose(c)
    BY DEF StepsToClose
  <2> QED BY <1>3, <2>2, <2>3, <2>4, StepsMoveOn
<1>4. TypeOK => FlagTypes
  BY DEF TypeOK, FlagTypes
<1>5. Spec => []PendingInv
  BY <1>4, PendingInit, PendingStep, MainInvariant, ConnInvariant, TypeCorrect, PTL
  DEF Spec
<1>6. MainInv /\ ConnInv /\ PendingInv
        => \A c \in Conns : StepsToClose(c) \in 0..(ClientBytes + 8) /\ CanMoveOn(c)
  BY <1>1, <1>2
<1>7. ConnInv /\ [Next]_vars =>
        [\A c \in Conns :
           /\ StepsToClose(c)' <= StepsToClose(c)
           /\ (Accept(c) \/ Handler(c) => StepsToClose(c)' < StepsToClose(c))]_vars
  BY <1>3
<1> QED
  BY <1>5, <1>6, <1>7, MainInvariant, ConnInvariant, PTL DEF Spec
=============================================================================
