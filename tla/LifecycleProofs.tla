--------------------------- MODULE LifecycleProofs ---------------------------
(* The two threads of each program use what is live, and free it once: for *)
(* every set of programs and times, every failure and every interleaving.  *)
(* What orders the threads is where each of them stands when the other     *)
(* frees, so the inductive invariant ties heap and globals to mpc and wpc. *)
EXTENDS Lifecycle, TLAPS

StepNames == {Steps[i] : i \in 1..Len(Steps)}

Exiting == {"exit", "exit2", "exit3", "exited"}

(* Before the launch there is one thread, and at most one failure.         *)
AloneFirst ==
  /\ mpc \in StepNames => failed = {} /\ wpc = "none"
  /\ mpc = "launch" => wpc = "none"

(* main leaves its loop for the teardown only behind the worker, and the   *)
(* worker is stopped before it gives back what the console reads.          *)
JoinedLast ==
  /\ finished => wpc = "returned"
  /\ mpc \in {"grace", "teardown"} => finished
  /\ wpc \in {"wait", "returned"} => console = "stop"

(* The port is live from its configuration to the teardown, and under the  *)
(* worker.                                                                 *)
PortHeld ==
  ~FreedPort =>
    /\ \A b \in bad : b[2] # "port"
    /\ mpc \notin {"lookup"} \union Exiting => heap.port = "live"
    /\ wpc \notin {"none", "returned"} => heap.port = "live"

(* Which program stands where.                                             *)
Whereabouts ==
  /\ wpc \in {"pipe", "clear", "exit2", "exit3"} => prog = "rxer_test"
  /\ wpc \in {"stream", "exit"} => prog # "txer"
  /\ wpc = "fll" => prog # "rxer"
  /\ mpc \in {"exit2", "exit3"} => prog = "rxer_test"
  /\ handler => prog = "rxer_test"
  /\ prog = "rxer_test" /\ wpc \in {"pipe", "stream", "clear"} => record = 1
  /\ wpc \in {"exit", "exit2", "exit3"} => "short" \in failed
  /\ globals \intersect {"stream", "pipe"} # {} => prog = "rxer_test"
  /\ wpc \in {"none", "create", "boot", "setup", "fll"} => "stream" \notin globals

(* What the console is about to read.                                      *)
ConsoleHolds ==
  /\ mpc = "fll" => "fll" \in globals
  /\ heap.fll = "freed" => wpc = "returned" /\ ~Printing
  /\ wpc = "fll" /\ prog = "rxer_test" => heap.stream = "live"
  /\ "stream" \in globals => heap.stream = "live" \/ record = 1
  /\ mpc = "stream" =>
       prog = "rxer_test" /\ (record = 1 \/ "short" \in failed \/ "stream" \in globals)

(* Nothing has gone through exit() while the other thread was running.     *)
Quiet == prog = "rxer_test" => "stats" \notin failed

(* What worker and exit handler are about to use or to free.               *)
BuiltLive ==
  Quiet =>
    /\ \A b \in bad : b[1] \in {"worker", "exit"} => b[2] \notin {"pipe", "stream"}
    /\ prog = "rxer_test" /\ mpc \in Exiting => wpc \in {"none", "returned", "gone"}
    /\ prog # "txer" /\ wpc \in {"fll", "loop", "pipe", "exit"} => heap.pipe = "live"
    /\ prog # "txer" /\ wpc \in {"fll", "loop", "pipe", "stream", "exit", "exit2"} => heap.stream = "live"
    /\ "pipe" \in globals => heap.pipe = "live" \/ wpc \in {"stream", "clear"}
    /\ "stream" \in globals => heap.stream = "live" \/ wpc = "clear"

IInv ==
  /\ TypeOK /\ AloneFirst /\ JoinedLast /\ PortHeld /\ Whereabouts /\ ConsoleHolds
  /\ BuiltLive /\ ConsoleReadsLive

----------------------------------------------------------------------------
(* The invariant holds at first.                                           *)
LEMMA InitIInv == Init => IInv
<1> SUFFICES ASSUME Init PROVE IInv
  OBVIOUS
<1>1. Len(Steps) = 9 /\ Steps[1] = "lookup"
  BY DEF Steps
<1>2. "lookup" \in StepNames
  BY <1>1 DEF StepNames
<1>3. TypeOK
  BY <1>2, LifecycleAssumption DEF Init, TypeOK, Objects, StepNames
<1>4. AloneFirst /\ JoinedLast /\ PortHeld /\ Whereabouts /\ ConsoleHolds /\ BuiltLive
  BY <1>2 DEF Init, AloneFirst, JoinedLast, PortHeld, Whereabouts, ConsoleHolds, BuiltLive, Quiet,
     FreedPort, Exiting, Objects
<1>5. ConsoleReadsLive
  BY DEF Init, ConsoleReadsLive
<1> QED BY <1>3, <1>4, <1>5 DEF IInv

(* What create does, step after step.                                      *)
LEMMA StepFacts ==
  /\ Len(Steps) = 9
  /\ StepNames = {"lookup", "configure", "adjust", "rxpool", "rxq", "txq", "buffer", "txpool", "start"}
  /\ \A i \in 1..9 : Steps[i] \in StepNames /\ StepAt(i + 1) \in StepNames \union {"launch"}
<1>1. /\ Len(Steps) = 9
      /\ Steps[1] = "lookup" /\ Steps[2] = "configure" /\ Steps[3] = "adjust" /\ Steps[4] = "rxpool"
      /\ Steps[5] = "rxq" /\ Steps[6] = "txq" /\ Steps[7] = "buffer" /\ Steps[8] = "txpool"
      /\ Steps[9] = "start"
  BY DEF Steps
<1>2. \A i \in 1..9 : i = 1 \/ i = 2 \/ i = 3 \/ i = 4 \/ i = 5 \/ i = 6 \/ i = 7 \/ i = 8 \/ i = 9
  OBVIOUS
<1>3. ASSUME NEW i \in 1..9 PROVE Steps[i] \in StepNames /\ StepAt(i + 1) \in StepNames \union {"launch"}
  <2>1. CASE i = 9
    BY <1>1, <2>1 DEF StepAt, StepNames
  <2>2. CASE i # 9
    <3>1. i + 1 \in 1..9 /\ ~(i + 1 > 9)
      BY <2>2
    <3> QED BY <1>1, <3>1 DEF StepAt, StepNames
  <2> QED BY <2>1, <2>2
<1>4. StepNames \subseteq {"lookup", "configure", "adjust", "rxpool", "rxq", "txq", "buffer", "txpool", "start"}
  BY <1>1, <1>2 DEF StepNames
<1>5. {"lookup", "configure", "adjust", "rxpool", "rxq", "txq", "buffer", "txpool", "start"} \subseteq StepNames
  BY <1>1 DEF StepNames
<1> QED BY <1>1, <1>3, <1>4, <1>5

(* The types, whatever is used, allocated or freed.                        *)
Heap == [Objects -> {"none", "live", "freed"}]
Uses == {"main", "worker", "exit"} \X Objects

(* The types, through a use of objects,                                    *)
LEMMA UseTypes ==
  ASSUME bad \subseteq Uses, NEW who \in {"main", "worker", "exit"}, NEW objs \in SUBSET Objects, Use(who, objs)
  PROVE  bad' \subseteq Uses
BY DEF Use, Uses

(* ... through freeing them,                                               *)
LEMMA FreeTypes ==
  ASSUME heap \in Heap, bad \subseteq Uses,
         NEW who \in {"main", "worker", "exit"}, NEW objs \in SUBSET Objects, Free(who, objs)
  PROVE  /\ heap' \in Heap /\ bad' \subseteq Uses
         /\ \A o \in Objects : heap'[o] = IF o \in objs THEN "freed" ELSE heap[o]
BY UseTypes DEF Free, Heap

(* ... and through creating them.                                          *)
LEMMA AllocTypes ==
  ASSUME heap \in Heap, NEW objs \in SUBSET Objects, Alloc(objs)
  PROVE  /\ heap' \in Heap
         /\ \A o \in Objects : heap'[o] = IF o \in objs THEN "live" ELSE heap[o]
BY DEF Alloc, Heap

(* TypeOK holds through every step; so does each other part.               *)
LEMMA TypeStep == IInv /\ [Next]_vars => TypeOK'
<1> SUFFICES ASSUME IInv, [Next]_vars PROVE TypeOK'
  OBVIOUS
<1> DEFINE Control ==
      /\ prog \in Programs /\ record \in {0, 1}
      /\ mpc \in StepNames \union
           {"launch", "poll", "delay", "stream?", "stream", "fll?", "fll", "stats",
            "grace", "teardown", "exit", "exit2", "exit3", "exited"}
      /\ wpc \in {"none", "create", "boot", "setup", "fll", "loop", "pipe", "stream", "clear",
                  "stop", "wait", "returned", "exit", "exit2", "exit3", "gone"}
      /\ failed \subseteq StepNames \union {"stats", "short"}
      /\ device \in {"closed", "open", "started"} /\ console \in {"print", "stop"}
      /\ finished \in BOOLEAN /\ handler \in BOOLEAN
    Memory ==
      /\ heap \in Heap /\ bad \subseteq Uses
      /\ \A g \in globals : g \in {"pipe", "stream", "fll"} /\ heap[g] # "none"
      /\ device # "closed" => heap["port"] = "live"
<1>1. TypeOK <=> Control /\ Memory
  BY DEF TypeOK, Heap, Uses, StepNames
<1>2. TypeOK' <=> Control' /\ Memory'
  BY DEF TypeOK, Heap, Uses, StepNames
<1>3. Control /\ Memory
  BY <1>1 DEF IInv
<1>4. Control'
  <2>1. ASSUME NEW i \in 1..Len(Steps), Configure(i) PROVE Control'
    BY <2>1, <1>3, StepFacts, LifecycleAssumption DEF Configure
  <2>2. ASSUME NEW i \in 1..Len(Steps), ConfigureFails(i) PROVE Control'
    BY <2>2, <1>3, StepFacts, LifecycleAssumption DEF ConfigureFails, Free, NegativeRet
  <2>3. CASE LeaveLoop
    BY <2>3, <1>3, StepFacts, LifecycleAssumption DEF LeaveLoop, At
  <2>4. CASE MainExits
    <3>1. UNCHANGED <<prog, record, failed, device, console, finished>>
      BY <2>4 DEF MainExits, ExitPipe, ExitStream
    <3>2. wpc' = wpc /\ mpc' \in {"exit2", "exit3", "exited"}
      BY <2>4 DEF MainExits
    <3>3. handler' \in BOOLEAN
      BY <2>4, <1>3 DEF MainExits, ExitPipe, ExitStream
    <3> QED BY <3>1, <3>2, <3>3, <1>3
  <2>5. CASE WorkerExits
    <3>1. UNCHANGED <<prog, record, failed, device, console, finished>>
      BY <2>5 DEF WorkerExits, ExitPipe, ExitStream
    <3>2. wpc' \in {"exit2", "exit3", "gone"} /\ mpc' \in {mpc, "exited"}
      BY <2>5 DEF WorkerExits, At
    <3>3. handler' \in BOOLEAN
      BY <2>5, <1>3 DEF WorkerExits, ExitPipe, ExitStream
    <3> QED BY <3>1, <3>2, <3>3, <1>3
  <2>6. CASE ReadStats \/ LastStats
    <3>1. /\ UNCHANGED <<prog, record, wpc, device, console, finished, handler>>
          /\ failed' \subseteq failed \union {"stats"}
          /\ mpc' \in {"exit", "grace", "poll", "teardown"}
      BY <2>6 DEF ReadStats, LastStats, StatsThen, LoopEnd
    <3> QED BY <3>1, <1>3
  <2>7. CASE Launch \/ Delay \/ Grace \/ Teardown \/ UNCHANGED vars
    BY <2>7, <1>3 DEF Launch, Delay, LoopEnd, Grace, Teardown, vars
  <2>11. CASE TestStream \/ ReadStream \/ TestFll \/ ReadFll
    BY <2>11, <1>3 DEF TestStream, ReadStream, TestFll, ReadFll
  <2>10. CASE Poll
    BY <2>10, <1>3 DEF Poll, WorkerEnded
  <2>8. CASE CreatePool \/ LinkUp \/ NoLink
    BY <2>8, <1>3 DEF CreatePool, At, LinkUp, NoLink
  <2>12. CASE Build
    BY <2>12, <1>3 DEF At, Build
  <2>13. CASE CreateFll \/ Turn \/ Short
    BY <2>13, <1>3 DEF At, CreateFll, Turn, Short
  <2>9. CASE ReleasePipe \/ ReleaseStream \/ Clear \/ StopConsole \/ WaitAndFree
    BY <2>9, <1>3 DEF ReleasePipe, At, ReleaseStream, Clear, StopConsole, WaitAndFree
  <2> QED BY <2>1, <2>2, <2>3, <2>4, <2>5, <2>6, <2>7, <2>8, <2>9, <2>10, <2>11, <2>12,
             <2>13
          DEF IInv, Next, MainNext, WorkerNext, WorkerEnds
<1>5. Memory'
  <2> USE <1>3, FreeTypes, AllocTypes, UseTypes, LifecycleAssumption DEF Objects
  <2>1. ASSUME NEW i \in 1..Len(Steps), Configure(i) PROVE Memory'
    BY <2>1 DEF Configure
  <2>2. ASSUME NEW i \in 1..Len(Steps), ConfigureFails(i) PROVE Memory'
    BY <2>2 DEF ConfigureFails,
       NegativeRet
  <2>3. CASE Teardown
    BY <2>3 DEF Teardown
  <2>4. CASE MainExits
    BY <2>4 DEF MainExits, ExitPipe,
       ExitStream
  <2>5. CASE CreatePool
    BY <2>5 DEF CreatePool, At
  <2>6. CASE Build
    BY <2>6 DEF Build, At
  <2>7. CASE CreateFll
    <3>1. /\ heap' \in Heap /\ bad' = bad /\ device' = device
          /\ \A o \in Objects : heap'[o] = IF o = "fll" THEN "live" ELSE heap[o]
      BY <2>7 DEF CreateFll
    <3>2. /\ globals' \subseteq globals \union {"stream", "fll"}
          /\ "stream" \in globals' => "stream" \in globals \/ prog = "rxer_test"
      BY <2>7 DEF CreateFll
    <3>3. wpc = "fll" /\ prog = "rxer_test" => heap["stream"] # "none"
      BY <2>7 DEF IInv, ConsoleHolds
    <3> QED BY <3>1, <3>2, <3>3, <2>7 DEF CreateFll, At
  <2>8. CASE Turn \/ LeaveLoop
    BY <2>8 DEF Turn, At, InLoop,
       LeaveLoop
  <2>9. CASE ReleasePipe \/ ReleaseStream
    BY <2>9 DEF ReleasePipe, At,
       ReleaseStream
  <2>10. CASE Clear
    BY <2>10 DEF Clear, At
  <2>11. CASE WaitAndFree
    BY <2>11 DEF WaitAndFree, At
  <2>12. CASE WorkerExits
    BY <2>12 DEF WorkerExits, At,
       ExitPipe, ExitStream
  <2>13. CASE Launch \/ ReadFll
    BY <2>13 DEF Launch, ReadFll
  <2>14. CASE ReadStream
    BY <2>14 DEF ReadStream, Uses
  <2>15. CASE ReadStats \/ LastStats
    BY <2>15 DEF ReadStats, StatsThen,
       LoopEnd, LastStats
  <2>16. CASE LinkUp \/ NoLink
    BY <2>16 DEF LinkUp, At, NoLink,
       Objects
  <2>17. CASE Poll \/ Delay \/ TestStream \/ TestFll \/ Grace \/ Short \/ StopConsole \/ UNCHANGED
       vars
    BY <2>17 DEF Poll, WorkerEnded, Delay,
       LoopEnd, TestStream, TestFll, Grace, Short, At, StopConsole, vars
  <2> QED BY <2>1, <2>2, <2>3, <2>4, <2>5, <2>6, <2>7, <2>8, <2>9, <2>10, <2>11, <2>12, <2>13,
       <2>14, <2>15, <2>16, <2>17 DEF IInv, Next, MainNext, WorkerNext, WorkerEnds
<1> QED BY <1>2, <1>4, <1>5

(* Nothing but main runs before the launch,                                *)
LEMMA AloneStep == IInv /\ [Next]_vars => AloneFirst'
<1> SUFFICES ASSUME IInv, [Next]_vars PROVE AloneFirst'
  OBVIOUS
<1> USE StepFacts, LifecycleAssumption
    DEF IInv, TypeOK, AloneFirst, StepNames, Exiting
<1>1. ASSUME NEW i \in 1..Len(Steps), Configure(i) PROVE AloneFirst'
  BY <1>1 DEF Configure, Alloc
<1>2. ASSUME NEW i \in 1..Len(Steps), ConfigureFails(i) PROVE AloneFirst'
  BY <1>2 DEF ConfigureFails, Free, Use, NegativeRet
<1>3. CASE Launch
  BY <1>3 DEF Launch, Use
<1>4. CASE LeaveLoop
  BY <1>4 DEF LeaveLoop, At, Use, InLoop
<1>5. CASE WorkerExits \/ MainExits
  BY <1>5 DEF WorkerExits, At, ExitPipe, ExitStream, Free, Use, MainExits
<1>6. CASE Poll \/ Delay \/ TestStream \/ ReadStream \/ TestFll \/ ReadFll \/ ReadStats \/
     LastStats \/ Grace \/ Teardown \/ CreatePool \/ LinkUp \/ NoLink \/ Build \/ CreateFll \/
     Turn \/ Short \/ ReleasePipe \/ ReleaseStream \/ Clear \/ StopConsole \/ WaitAndFree \/
     UNCHANGED vars
  BY <1>6 DEF Poll, WorkerEnded, Delay, LoopEnd, TestStream, ReadStream, TestFll, ReadFll, Use,
     ReadStats, StatsThen, LastStats, Grace, Teardown, Free, CreatePool, At, Alloc, LinkUp,
     NoLink, Build, CreateFll, Turn, InLoop, Short, ReleasePipe, ReleaseStream, Clear,
     StopConsole, WaitAndFree, vars
<1> QED BY <1>1, <1>2, <1>3, <1>4, <1>5, <1>6 DEF Next, MainNext, WorkerNext, WorkerEnds

(* ... and main leaves its loop behind the worker.                         *)
LEMMA JoinedStep == IInv /\ [Next]_vars => JoinedLast'
<1> SUFFICES ASSUME IInv, [Next]_vars PROVE JoinedLast'
  OBVIOUS
<1> USE StepFacts, LifecycleAssumption
    DEF IInv, TypeOK, AloneFirst, JoinedLast, StepNames
<1>1. ASSUME NEW i \in 1..Len(Steps), Configure(i) PROVE JoinedLast'
  BY <1>1 DEF Configure, Alloc
<1>2. ASSUME NEW i \in 1..Len(Steps), ConfigureFails(i) PROVE JoinedLast'
  BY <1>2 DEF ConfigureFails, Free, Use, NegativeRet
<1>3. CASE Poll
  BY <1>3 DEF Poll, WorkerEnded
<1>4. CASE LeaveLoop
  BY <1>4 DEF LeaveLoop, At, Use, InLoop
<1>5. CASE WorkerExits \/ MainExits
  BY <1>5 DEF WorkerExits, At, ExitPipe, ExitStream, Free, Use, MainExits
<1>6. CASE StopConsole
  BY <1>6 DEF StopConsole, At
<1>7. CASE WaitAndFree
  BY <1>7 DEF WaitAndFree, At, Free, Use
<1>8. CASE Launch \/ Delay \/ TestStream \/ ReadStream \/ TestFll \/ ReadFll \/ ReadStats \/
     LastStats \/ Grace \/ Teardown \/ CreatePool \/ LinkUp \/ NoLink \/ Build \/ CreateFll \/
     Turn \/ Short \/ ReleasePipe \/ ReleaseStream \/ Clear \/ UNCHANGED vars
  BY <1>8 DEF Launch, Use, Delay, LoopEnd, TestStream, ReadStream, TestFll, ReadFll, ReadStats,
     StatsThen, LastStats, Grace, Teardown, Free, CreatePool, At, Alloc, LinkUp, NoLink, Build,
     CreateFll, Turn, InLoop, Short, ReleasePipe, ReleaseStream, Clear, vars
<1> QED BY <1>1, <1>2, <1>3, <1>4, <1>5, <1>6, <1>7, <1>8 DEF Next, MainNext, WorkerNext,
     WorkerEnds

(* The port is stopped by the teardown only.                               *)
LEMMA PortStep == IInv /\ [Next]_vars => PortHeld'
<1> SUFFICES ASSUME IInv, [Next]_vars PROVE PortHeld'
  OBVIOUS
<1> USE StepFacts, LifecycleAssumption
    DEF IInv, TypeOK, AloneFirst, JoinedLast, PortHeld, FreedPort, StepNames, Exiting, Objects
<1>1. ASSUME NEW i \in 1..Len(Steps), Configure(i) PROVE PortHeld'
  BY <1>1 DEF Configure, Alloc
<1>2. ASSUME NEW i \in 1..Len(Steps), ConfigureFails(i) PROVE PortHeld'
  <2>1. wpc' = "none" /\ (FreedPort' \/ mpc' = "exit")
    BY <1>2 DEF ConfigureFails, NegativeRet
  <2>2. ~FreedPort' => \A b \in bad' : b[2] # "port"
    BY <1>2 DEF ConfigureFails, Free, Use
  <2> QED BY <2>1, <2>2
<1>3. CASE Launch
  BY <1>3 DEF Launch, Use
<1>4. CASE Teardown
  BY <1>4 DEF Teardown, Free, Use
<1>5. CASE MainExits
  BY <1>5 DEF MainExits, ExitPipe, ExitStream, Free, Use
<1>6. CASE CreatePool
  BY <1>6 DEF CreatePool, At, Use, Alloc
<1>7. CASE LinkUp \/ NoLink
  BY <1>7 DEF LinkUp, At, Use, NoLink
<1>8. CASE Build \/ CreateFll
  BY <1>8 DEF Build, At, Alloc, CreateFll
<1>9. CASE Turn
  BY <1>9 DEF Turn, At, Use, InLoop
<1>10. CASE LeaveLoop
  BY <1>10 DEF LeaveLoop, At, Use, InLoop
<1>11. CASE ReleasePipe \/ ReleaseStream
  BY <1>11 DEF ReleasePipe, At, Free, Use, ReleaseStream
<1>12. CASE Clear
  BY <1>12 DEF Clear, At, Free, Use
<1>13. CASE WaitAndFree
  BY <1>13 DEF WaitAndFree, At, Free, Use
<1>14. CASE WorkerExits
  BY <1>14 DEF WorkerExits, At, ExitPipe, ExitStream, Free, Use
<1>15. CASE ReadStats \/ LastStats
  BY <1>15 DEF ReadStats, StatsThen, LoopEnd, Use, LastStats
<1>16. CASE ReadStream \/ ReadFll
  BY <1>16 DEF ReadStream, ReadFll, Use
<1>17. CASE Poll \/ Delay \/ TestStream \/ TestFll \/ Grace \/ Short \/ StopConsole \/ UNCHANGED
     vars
  BY <1>17 DEF Poll, WorkerEnded, Delay, LoopEnd, TestStream, TestFll, Grace, Short, At,
     StopConsole, vars
<1> QED BY <1>1, <1>2, <1>3, <1>4, <1>5, <1>6, <1>7, <1>8, <1>9, <1>10, <1>11, <1>12, <1>13,
     <1>14, <1>15, <1>16, <1>17 DEF Next, MainNext, WorkerNext, WorkerEnds

(* Each program stays on its own path.                                     *)
LEMMA WhereaboutsStep == IInv /\ [Next]_vars => Whereabouts'
<1> SUFFICES ASSUME IInv, [Next]_vars PROVE Whereabouts'
  OBVIOUS
<1> USE StepFacts, LifecycleAssumption
    DEF IInv, TypeOK, Whereabouts, AloneFirst, StepNames
<1>1. ASSUME NEW i \in 1..Len(Steps), Configure(i) PROVE Whereabouts'
  BY <1>1 DEF Configure, Alloc
<1>2. ASSUME NEW i \in 1..Len(Steps), ConfigureFails(i) PROVE Whereabouts'
  BY <1>2 DEF ConfigureFails, Free, Use, NegativeRet
<1>3. CASE MainExits
  BY <1>3 DEF MainExits, ExitPipe, ExitStream, Free, Use
<1>4. CASE Build
  BY <1>4 DEF Build, At, Alloc
<1>5. CASE CreateFll
  BY <1>5 DEF CreateFll, At, Alloc
<1>6. CASE LeaveLoop
  BY <1>6 DEF LeaveLoop, At, Use, InLoop
<1>7. CASE ReleaseStream
  BY <1>7 DEF ReleaseStream, At, Free, Use
<1>8. CASE Clear
  BY <1>8 DEF Clear, At, Free, Use
<1>9. CASE WorkerExits
  BY <1>9 DEF WorkerExits, At, ExitPipe, ExitStream, Free, Use
<1>10. CASE Launch \/ Poll \/ Delay \/ TestStream \/ ReadStream \/ TestFll \/ ReadFll \/ ReadStats
     \/ LastStats \/ Grace \/ Teardown \/ CreatePool \/ LinkUp \/ NoLink \/ Turn \/ Short \/
     ReleasePipe \/ StopConsole \/ WaitAndFree \/ UNCHANGED vars
  BY <1>10 DEF Launch, Use, Poll, WorkerEnded, Delay, LoopEnd, TestStream, ReadStream, TestFll,
     ReadFll, ReadStats, StatsThen, LastStats, Grace, Teardown, Free, CreatePool, At, Alloc,
     LinkUp, NoLink, Turn, InLoop, Short, ReleasePipe, StopConsole, WaitAndFree, vars
<1> QED BY <1>1, <1>2, <1>3, <1>4, <1>5, <1>6, <1>7, <1>8, <1>9, <1>10 DEF Next, MainNext,
     WorkerNext, WorkerEnds

(* What the console looked up outlives the look.                           *)
LEMMA ConsoleStep == IInv /\ [Next]_vars => ConsoleHolds'
<1> SUFFICES ASSUME IInv, [Next]_vars PROVE ConsoleHolds'
  OBVIOUS
<1> USE StepFacts, LifecycleAssumption
    DEF IInv, TypeOK, Whereabouts, AloneFirst, JoinedLast, ConsoleHolds, Printing, StepNames, Objects
<1>1. ASSUME NEW i \in 1..Len(Steps), Configure(i) PROVE ConsoleHolds'
  BY <1>1 DEF Configure, Alloc
<1>2. ASSUME NEW i \in 1..Len(Steps), ConfigureFails(i) PROVE ConsoleHolds'
  BY <1>2 DEF ConfigureFails, Free, Use, NegativeRet
<1>3. CASE Delay
  BY <1>3 DEF Delay, LoopEnd
<1>4. CASE TestStream \/ TestFll
  BY <1>4 DEF TestStream, TestFll
<1>5. CASE ReadStats \/ LastStats
  BY <1>5 DEF ReadStats, StatsThen, LoopEnd, Use, LastStats
<1>6. CASE MainExits
  BY <1>6 DEF MainExits, ExitPipe, ExitStream, Free, Use
<1>7. CASE Build
  BY <1>7 DEF Build, At, Alloc
<1>8. CASE CreateFll
  BY <1>8 DEF CreateFll, At, Alloc
<1>9. CASE LeaveLoop
  BY <1>9 DEF LeaveLoop, At, Use, InLoop
<1>10. CASE ReleasePipe \/ ReleaseStream
  BY <1>10 DEF ReleasePipe, At, Free, Use, ReleaseStream
<1>11. CASE Clear
  BY <1>11 DEF Clear, At, Free, Use
<1>12. CASE WaitAndFree
  BY <1>12 DEF WaitAndFree, At, Free, Use
<1>13. CASE WorkerExits
  BY <1>13 DEF WorkerExits, At, ExitPipe, ExitStream, Free, Use
<1>14. CASE Teardown
  BY <1>14 DEF Teardown, Free, Use
<1>15. CASE Launch \/ Poll \/ ReadStream \/ ReadFll \/ Grace \/ CreatePool \/ LinkUp \/ NoLink \/
     Turn \/ Short \/ StopConsole \/ UNCHANGED vars
  BY <1>15 DEF Launch, Use, Poll, WorkerEnded, ReadStream, ReadFll, Grace, CreatePool, At, Alloc,
     LinkUp, NoLink, Turn, InLoop, Short, StopConsole, vars
<1> QED BY <1>1, <1>2, <1>3, <1>4, <1>5, <1>6, <1>7, <1>8, <1>9, <1>10, <1>11, <1>12, <1>13,
     <1>14, <1>15 DEF Next, MainNext, WorkerNext, WorkerEnds

(* So the console reads what is live.                                      *)
LEMMA ReadsStep == IInv /\ [Next]_vars => ConsoleReadsLive'
<1> SUFFICES ASSUME IInv, [Next]_vars PROVE ConsoleReadsLive'
  OBVIOUS
<1> USE StepFacts, LifecycleAssumption
    DEF IInv, TypeOK, Whereabouts, AloneFirst, ConsoleHolds, ConsoleReadsLive, Printing, StepNames, Objects
<1>1. ASSUME NEW i \in 1..Len(Steps), Configure(i) PROVE ConsoleReadsLive'
  BY <1>1 DEF Configure, Alloc
<1>2. ASSUME NEW i \in 1..Len(Steps), ConfigureFails(i) PROVE ConsoleReadsLive'
  BY <1>2 DEF ConfigureFails, Free, Use, NegativeRet
<1>3. CASE ReadStream
  BY <1>3 DEF ReadStream
<1>4. CASE ReadFll
  BY <1>4 DEF ReadFll, Use
<1>5. CASE Turn
  BY <1>5 DEF Turn, At, Use, InLoop
<1>6. CASE LeaveLoop
  BY <1>6 DEF LeaveLoop, At, Use, InLoop
<1>7. CASE MainExits \/ WorkerExits
  BY <1>7 DEF MainExits, ExitPipe, ExitStream, Free, Use, WorkerExits, At
<1>8. CASE WaitAndFree
  BY <1>8 DEF WaitAndFree, At, Free, Use
<1>9. CASE Launch \/ Poll \/ Delay \/ TestStream \/ TestFll \/ ReadStats \/ LastStats \/ Grace \/
     Teardown \/ CreatePool \/ LinkUp \/ NoLink \/ Build \/ CreateFll \/ Short \/ ReleasePipe \/
     ReleaseStream \/ Clear \/ StopConsole \/ UNCHANGED vars
  BY <1>9 DEF Launch, Use, Poll, WorkerEnded, Delay, LoopEnd, TestStream, TestFll, ReadStats,
     StatsThen, LastStats, Grace, Teardown, Free, CreatePool, At, Alloc, LinkUp, NoLink, Build,
     CreateFll, Short, ReleasePipe, ReleaseStream, Clear, StopConsole, vars
<1> QED BY <1>1, <1>2, <1>3, <1>4, <1>5, <1>6, <1>7, <1>8, <1>9 DEF Next, MainNext, WorkerNext,
     WorkerEnds

(* The worker and the exit handler come to pipeline and stream one after   *)
(* the other.                                                              *)
LEMMA BuiltStep == IInv /\ [Next]_vars => BuiltLive'
<1> SUFFICES ASSUME IInv, [Next]_vars PROVE BuiltLive'
  OBVIOUS
<1> USE StepFacts, LifecycleAssumption
    DEF IInv, TypeOK, Whereabouts, AloneFirst, JoinedLast, BuiltLive, Quiet, StepNames, Exiting, Objects
<1>1. ASSUME NEW i \in 1..Len(Steps), Configure(i) PROVE BuiltLive'
  BY <1>1 DEF Configure, Alloc
<1>2. ASSUME NEW i \in 1..Len(Steps), ConfigureFails(i) PROVE BuiltLive'
  BY <1>2 DEF ConfigureFails, Free, Use, NegativeRet
<1>3. CASE ReadStats \/ LastStats
  BY <1>3 DEF ReadStats, StatsThen, LoopEnd, Use, LastStats
<1>4. CASE Teardown
  BY <1>4 DEF Teardown, Free, Use
<1>5. CASE MainExits
  BY <1>5 DEF MainExits, ExitPipe, ExitStream, Free, Use
<1>6. CASE Build
  BY <1>6 DEF Build, At, Alloc
<1>7. CASE CreateFll
  BY <1>7 DEF CreateFll, At, Alloc
<1>8. CASE Turn
  BY <1>8 DEF Turn, At, Use, InLoop
<1>9. CASE LeaveLoop
  BY <1>9 DEF LeaveLoop, At, Use, InLoop
<1>10. CASE ReleasePipe
  BY <1>10 DEF ReleasePipe, At, Free, Use
<1>11. CASE ReleaseStream
  BY <1>11 DEF ReleaseStream, At, Free, Use
<1>12. CASE Clear
  BY <1>12 DEF Clear, At, Free, Use
<1>13. CASE WaitAndFree
  BY <1>13 DEF WaitAndFree, At, Free, Use
<1>14. CASE WorkerExits
  BY <1>14 DEF WorkerExits, At, ExitPipe, ExitStream, Free, Use
<1>15. CASE Launch \/ Poll \/ Delay \/ TestStream \/ ReadStream \/ TestFll \/ ReadFll \/ Grace \/
     CreatePool \/ LinkUp \/ NoLink \/ Short \/ StopConsole \/ UNCHANGED vars
  BY <1>15 DEF Launch, Use, Poll, WorkerEnded, Delay, LoopEnd, TestStream, ReadStream, TestFll,
     ReadFll, Grace, CreatePool, At, Alloc, LinkUp, NoLink, Short, StopConsole, vars
<1> QED BY <1>1, <1>2, <1>3, <1>4, <1>5, <1>6, <1>7, <1>8, <1>9, <1>10, <1>11, <1>12, <1>13,
     <1>14, <1>15 DEF Next, MainNext, WorkerNext, WorkerEnds

----------------------------------------------------------------------------
(* Every failure of port_configure, every way out of either thread and     *)
(* every interleaving of the two keeps the invariant.                      *)
THEOREM Invariance == Spec => []IInv
<1>1. IInv /\ [Next]_vars => IInv'
  BY TypeStep, AloneStep, JoinedStep, PortStep, WhereaboutsStep, ConsoleStep, ReadsStep, BuiltStep
  DEF IInv
<1> QED BY InitIInv, <1>1, PTL DEF Spec

(* The types; a global points to what was allocated, and the NIC is open   *)
(* under a live port only.                                                 *)
THEOREM TypeCorrect == Spec => []TypeOK
<1>1. IInv => TypeOK
  BY DEF IInv
<1> QED BY <1>1, Invariance, PTL

(* No thread works on a port that is not configured or already released,   *)
(* unless port_configure itself reported a released port as configured.    *)
THEOREM PortStaysLive == Spec => []PortLive
<1>1. IInv => PortLive
  BY DEF IInv, PortHeld, PortLive
<1> QED BY <1>1, Invariance, PTL

(* What the console reads without a lock is live, but for the stream of    *)
(* rxer_test, whose release waits for nobody.                              *)
THEOREM ConsoleIsSafe == Spec => []ConsoleReadsLive
<1>1. IInv => ConsoleReadsLive
  BY DEF IInv
<1> QED BY <1>1, Invariance, PTL

(* Pipeline and stream are released once, whichever of the worker and the  *)
(* exit handlers does it, unless the console exits under the worker.       *)
THEOREM ReleasedOnce == Spec => []FreedOnce
<1>1. IInv => FreedOnce
  BY DEF IInv, BuiltLive, Quiet, FreedOnce
<1> QED BY <1>1, Invariance, PTL

=============================================================================
