------------------------------ MODULE Lifecycle ------------------------------
(***************************************************************************)
(* How txer, rxer and rxer_test start and stop: main configures the port,  *)
(* launches the worker on its core, prints statistics (the console) while  *)
(* the worker runs, and closes the port behind it.  The two threads share  *)
(* the port, the flag console_status and, in txer and rxer_test, pointers  *)
(* to what the worker creates and frees.  No lock guards any of it.        *)
(*                                                                         *)
(* What the worker does with packets is one step that uses what it uses;   *)
(* a use of what is freed is recorded in "bad" and the program goes on.    *)
(***************************************************************************)
EXTENDS Naturals, Sequences, FiniteSets

CONSTANTS
  Programs,    (* of "txer", "rxer", "rxer_test"                           *)
  RecordTimes  (* values of benchmark_loop's record_time: rxer_test passes *)
               (* 0, with which the loop has no end; 1 is for a measurement *)

ASSUME LifecycleAssumption ==
  Programs \subseteq {"txer", "rxer", "rxer_test"} /\ RecordTimes \subseteq {0, 1}

VARIABLES
  prog, record, (* which program, and its record_time                      *)
  mpc, wpc,     (* where main and the worker stand                         *)
  failed,       (* what failed: a step of port_configure, "stats", "short" *)
  device,       (* the port of the NIC: "closed", "open" or "started"      *)
  heap,         (* what is allocated: "none", "live" or "freed"            *)
  globals,      (* which of g_pipe, g_stream and g_fll are not null        *)
  console,      (* console_status: "print" or "stop"                       *)
  finished,     (* the local of main's loop                                *)
  handler,      (* release_resources is registered with atexit             *)
  bad           (* history: uses of what was not live                      *)

vars == <<prog, record, mpc, wpc, failed, device, heap, globals, console, finished, handler, bad>>

Objects == {"port", "buffer", "pool", "pipe", "stream", "fll"}

(* The steps of port_configure, in their order.                            *)
Steps == << "lookup", "configure", "adjust", "rxpool", "rxq", "txq", "buffer", "txpool", "start" >>
StepAt(i) == IF i > Len(Steps) THEN "launch" ELSE Steps[i]

Init ==
  /\ prog \in Programs
  /\ record \in IF prog = "rxer_test" THEN RecordTimes ELSE {0}
  /\ mpc = "lookup" /\ wpc = "none" /\ failed = {} /\ device = "closed"
  /\ heap = [o \in Objects |-> "none"] /\ globals = {}
  /\ console = "stop" /\ finished = FALSE /\ handler = FALSE /\ bad = {}

(* A thread uses objects; what it finds freed, or never allocated, counts. *)
Use(who, objs) == bad' = bad \union {<<who, o>> : o \in {p \in objs : heap[p] # "live"}}

(* Objects are freed, a second time if need be.                            *)
Free(who, objs) ==
  /\ heap' = [o \in Objects |-> IF o \in objs THEN "freed" ELSE heap[o]]
  /\ Use(who, objs)

Alloc(objs) == heap' = [o \in Objects |-> IF o \in objs THEN "live" ELSE heap[o]]

----------------------------------------------------------------------------
(* main: port_configure.                                                   *)

Configure(i) ==
  /\ mpc = Steps[i]
  /\ mpc' = StepAt(i + 1)
  /\ Alloc({"port"} \union IF Steps[i] = "buffer" THEN {"buffer"} ELSE {})
  /\ device' = CASE Steps[i] = "configure" -> "open"
                 [] Steps[i] = "start"     -> "started"
                 [] OTHER                  -> device
  /\ UNCHANGED <<prog, record, wpc, failed, globals, console, finished, handler, bad>>

(* Mutant: ret is tested but not returned when the NIC does not start.     *)
StartReturnsZero == {"configure", "adjust", "rxq", "txq"}

(* The steps that leave a negative ret behind; the allocations of the pool *)
(* and of the buffer leave the 0 of the call before them.                  *)
NegativeRet == {"configure", "adjust", "rxq", "txq", "start"}

(* Nothing has been allocated when the port is not found, tx_pool exits on *)
(* its own; the others release the port, and with a negative ret the       *)
(* caller exits.  Otherwise it takes the freed port for a configured one.  *)
ConfigureFails(i) ==
  /\ mpc = Steps[i]
  /\ failed' = {Steps[i]}
  /\ IF Steps[i] \in {"lookup", "txpool"}
     THEN UNCHANGED <<heap, device, bad>>
     ELSE Free("main", {"port"}) /\ device' = "closed"
  /\ mpc' = IF Steps[i] \in {"lookup", "txpool"} \union NegativeRet THEN "exit" ELSE "launch"
  /\ UNCHANGED <<prog, record, wpc, globals, console, finished, handler>>

(* rte_eal_mp_remote_launch: every core runs the worker function, and all  *)
(* but core 3 return at once.                                              *)
Launch ==
  /\ mpc = "launch"
  /\ wpc' = "create"
  /\ mpc' = "poll"
  /\ Use("main", {"port"})
  /\ UNCHANGED <<prog, record, failed, device, heap, globals, console, finished, handler>>

----------------------------------------------------------------------------
(* main: the console loop.                                                 *)

(* Mutant: a core that has finished but was not joined counts as running.  *)
WaitsForJoin == wpc = "none"

(* rte_eal_get_lcore_state(...) # RUNNING.                                 *)
WorkerEnded == wpc = "returned"

Poll ==
  /\ mpc = "poll"
  /\ finished' = WorkerEnded
  /\ mpc' = "delay"
  /\ UNCHANGED <<prog, record, wpc, failed, device, heap, globals, console, handler, bad>>

(* while (!finished).                                                      *)
LoopEnd == IF finished THEN "grace" ELSE "poll"

(* rte_delay_ms(CONSOLE_FREQ), and the test of console_status behind it.   *)
Delay ==
  /\ mpc = "delay"
  /\ mpc' = IF console = "stop" THEN LoopEnd ELSE IF prog = "rxer_test" THEN "stream?" ELSE "fll?"
  /\ UNCHANGED <<prog, record, wpc, failed, device, heap, globals, console, finished, handler, bad>>

(* rxer has no g_fll, and only rxer_test a g_stream.                       *)
TestStream ==
  /\ mpc = "stream?"
  /\ mpc' = IF "stream" \in globals THEN "stream" ELSE "fll?"
  /\ UNCHANGED <<prog, record, wpc, failed, device, heap, globals, console, finished, handler, bad>>

(* g_stream is read a second time, and may be null by now.                 *)
ReadStream ==
  /\ mpc = "stream"
  /\ mpc' = "fll?"
  /\ bad' = IF "stream" \in globals /\ heap.stream = "live" THEN bad ELSE bad \union {<<"main", "stream">>}
  /\ UNCHANGED <<prog, record, wpc, failed, device, heap, globals, console, finished, handler>>

TestFll ==
  /\ mpc = "fll?"
  /\ mpc' = IF "fll" \in globals THEN "fll" ELSE "stats"
  /\ UNCHANGED <<prog, record, wpc, failed, device, heap, globals, console, finished, handler, bad>>

ReadFll ==
  /\ mpc = "fll"
  /\ mpc' = "stats"
  /\ Use("main", {"fll"})
  /\ UNCHANGED <<prog, record, wpc, failed, device, heap, globals, console, finished, handler>>

(* dataplane_read_stats: rte_exit if the NIC does not answer.              *)
StatsThen(next) ==
  /\ Use("main", {"port"})
  /\ \/ (mpc' = next /\ UNCHANGED failed)
     \/ (mpc' = "exit" /\ failed' = failed \union {"stats"})
  /\ UNCHANGED <<prog, record, wpc, device, heap, globals, console, finished, handler>>

ReadStats == mpc = "stats" /\ StatsThen(LoopEnd)

(* After the loop; txer reads the statistics a last time.                  *)
LastStats == mpc = "grace" /\ prog = "txer" /\ StatsThen("teardown")

Grace ==
  /\ mpc = "grace" /\ prog # "txer"
  /\ mpc' = "teardown"
  /\ UNCHANGED <<prog, record, wpc, failed, device, heap, globals, console, finished, handler, bad>>

(* port_release and rte_eal_cleanup.                                       *)
Teardown ==
  /\ mpc = "teardown"
  /\ device' = "closed" /\ Free("main", {"port"})
  /\ mpc' = "exit"
  /\ UNCHANGED <<prog, record, wpc, failed, globals, console, finished, handler>>

(* exit(), from rte_exit or behind main: release_resources, if it is       *)
(* registered and no other thread has taken it off the list, first the     *)
(* pipeline and then the stream, while the other thread runs on.           *)
ExitPipe ==
  /\ handler' = FALSE
  /\ IF handler /\ "pipe" \in globals
     THEN Free("exit", {"pipe"}) /\ globals' = globals \ {"pipe"}
     ELSE UNCHANGED <<heap, bad, globals>>
  /\ UNCHANGED <<prog, record, failed, device, console, finished>>

ExitStream ==
  /\ IF "stream" \in globals
     THEN Free("exit", {"stream"}) /\ globals' = globals \ {"stream"}
     ELSE UNCHANGED <<heap, bad, globals>>
  /\ UNCHANGED <<prog, record, failed, device, console, finished, handler>>

(* The process is gone when either thread is through.                      *)
MainExits ==
  \/ mpc = "exit" /\ mpc' = (IF handler THEN "exit2" ELSE "exited") /\ ExitPipe /\ UNCHANGED wpc
  \/ mpc = "exit2" /\ mpc' = "exit3" /\ ExitStream /\ UNCHANGED wpc
  \/ mpc = "exit3" /\ mpc' = "exited"
     /\ UNCHANGED <<prog, record, wpc, failed, device, heap, globals, console, finished, handler, bad>>

----------------------------------------------------------------------------
(* The worker.  The process is gone once main has exited.                  *)

At(p, q) == mpc # "exited" /\ wpc = p /\ wpc' = q

(* The worker finds its core in the port; txer prepares its packet pool.   *)
CreatePool ==
  /\ At("create", "boot")
  /\ Use("worker", {"port"})
  /\ IF prog = "txer" THEN Alloc({"pool"}) ELSE UNCHANGED heap
  /\ UNCHANGED <<prog, record, mpc, failed, device, globals, console, finished, handler>>

(* The wait for the link of a started port, and two seconds more.          *)
LinkUp ==
  /\ At("boot", "setup") /\ device = "started"
  /\ Use("worker", {"port"})
  /\ console' = "print"
  /\ UNCHANGED <<prog, record, mpc, failed, device, heap, globals, finished, handler>>

(* The link of a freed port is looked for in vain.                         *)
NoLink ==
  /\ At("boot", "boot")
  /\ Use("worker", {"port"})
  /\ UNCHANGED <<prog, record, mpc, failed, device, heap, globals, console, finished, handler>>

(* rx_stream_create and pipeline_build, in rxer_test with g_pipe and       *)
(* atexit; txer has neither.                                               *)
Build ==
  /\ At("setup", IF prog = "rxer" THEN "loop" ELSE "fll")
  /\ IF prog = "txer" THEN UNCHANGED <<heap, globals, handler>>
     ELSE /\ Alloc({"stream", "pipe"})
          /\ IF prog = "rxer_test" THEN globals' = globals \union {"pipe"} /\ handler' = TRUE
             ELSE UNCHANGED <<globals, handler>>
  /\ UNCHANGED <<prog, record, mpc, failed, device, console, finished, bad>>

(* Mutant: g_fll is set before there is anything that it could point to.   *)
PublishFirst ==
  /\ At("fll", "loop")
  /\ globals' = globals \union IF prog = "rxer_test" THEN {"stream", "fll"} ELSE {"fll"}
  /\ UNCHANGED <<prog, record, mpc, failed, device, heap, console, finished, handler, bad>>

(* fll_create, and the globals that the console looks at.                  *)
CreateFll ==
  /\ At("fll", "loop")
  /\ Alloc({"fll"})
  /\ globals' = globals \union IF prog = "rxer_test" THEN {"stream", "fll"} ELSE {"fll"}
  /\ UNCHANGED <<prog, record, mpc, failed, device, console, finished, handler, bad>>

InLoop == CASE prog = "txer"      -> {"port", "buffer", "pool", "fll"}
            [] prog = "rxer"      -> {"port", "stream", "pipe"}
            [] prog = "rxer_test" -> {"port", "buffer", "stream", "pipe", "fll"}

(* One turn of the loop.                                                   *)
Turn ==
  /\ At("loop", "loop")
  /\ Use("worker", InLoop)
  /\ UNCHANGED <<prog, record, mpc, failed, device, heap, globals, console, finished, handler>>

(* rx_stream_mtop finds the ring of the stream short: rte_exit, from here. *)
Short ==
  /\ At("loop", "exit") /\ prog # "txer"
  /\ failed' = failed \union {"short"}
  /\ UNCHANGED <<prog, record, mpc, device, heap, globals, console, finished, handler, bad>>

WorkerExits ==
  \/ /\ At("exit", IF handler THEN "exit2" ELSE "gone") /\ ExitPipe
     /\ mpc' = IF handler THEN mpc ELSE "exited"
  \/ At("exit2", "exit3") /\ ExitStream /\ UNCHANGED mpc
  \/ At("exit3", "gone") /\ mpc' = "exited"
     /\ UNCHANGED <<prog, record, failed, device, heap, globals, console, finished, handler, bad>>

(* Behind the loop: what rxer_test and rxer free while the console prints, *)
(* and the flush of txer.                                                  *)
LeaveLoop ==
  /\ At("loop", CASE prog = "txer" -> "stop" [] prog = "rxer" -> "stream" [] prog = "rxer_test" -> "pipe")
  /\ prog = "rxer_test" => record = 1
  /\ Use("worker", InLoop)
  /\ UNCHANGED <<prog, record, mpc, failed, device, heap, globals, console, finished, handler>>

ReleasePipe ==
  /\ At("pipe", "stream")
  /\ Free("worker", {"pipe"})
  /\ UNCHANGED <<prog, record, mpc, failed, device, globals, console, finished, handler>>

ReleaseStream ==
  /\ At("stream", IF prog = "rxer" THEN "stop" ELSE "clear")
  /\ Free("worker", {"stream"})
  /\ UNCHANGED <<prog, record, mpc, failed, device, globals, console, finished, handler>>

(* Mutant: the pointers that the exit handler frees by are left alone.     *)
ClearNone ==
  /\ At("clear", "stop")
  /\ Free("worker", {"buffer"})
  /\ UNCHANGED <<prog, record, mpc, failed, device, globals, console, finished, handler>>

(* g_stream and g_pipe are cleared when both are freed; then the buffer.   *)
Clear ==
  /\ At("clear", "stop")
  /\ globals' = globals \ {"stream", "pipe"}
  /\ Free("worker", {"buffer"})
  /\ UNCHANGED <<prog, record, mpc, failed, device, console, finished, handler>>

(* Mutant: txer frees before it has stopped the console.                   *)
StopAndFree ==
  /\ At("stop", "wait")
  /\ console' = "stop"
  /\ IF prog = "rxer_test" THEN UNCHANGED <<heap, bad>>
     ELSE Free("worker", IF prog = "txer" THEN {"fll"} ELSE {})
  /\ UNCHANGED <<prog, record, mpc, failed, device, globals, finished, handler>>

StopConsole ==
  /\ At("stop", "wait")
  /\ console' = "stop"
  /\ UNCHANGED <<prog, record, mpc, failed, device, heap, globals, finished, handler, bad>>

Printing == mpc \in {"stream?", "stream", "fll?", "fll", "stats"}

(* rte_delay_ms(CONSOLE_FREQ): what the console was printing is printed.   *)
(* rxer_test has nothing left to free; g_fll of txer keeps its value.      *)
WaitAndFree ==
  /\ ~Printing
  /\ At("wait", "returned")
  /\ Free("worker", CASE prog = "txer"      -> {"buffer", "fll", "pool"}
                      [] prog = "rxer"      -> {"buffer"}
                      [] prog = "rxer_test" -> {})
  /\ UNCHANGED <<prog, record, mpc, failed, device, globals, console, finished, handler>>

----------------------------------------------------------------------------
MainNext ==
  \/ \E i \in 1..Len(Steps) : Configure(i) \/ ConfigureFails(i)
  \/ Launch \/ Poll \/ Delay \/ TestStream \/ ReadStream \/ TestFll \/ ReadFll \/ ReadStats
  \/ LastStats \/ Grace \/ Teardown \/ MainExits

WorkerEnds ==
  \/ LeaveLoop \/ ReleasePipe \/ ReleaseStream \/ Clear \/ StopConsole \/ WaitAndFree \/ WorkerExits

WorkerNext == CreatePool \/ LinkUp \/ NoLink \/ Build \/ CreateFll \/ Turn \/ Short \/ WorkerEnds

Next == MainNext \/ WorkerNext

(* Both threads run; the link of a started port comes up, and a loop that  *)
(* has an end is given the packets to reach it.                            *)
Spec ==
  /\ Init /\ [][Next]_vars
  /\ WF_vars(MainNext) /\ WF_vars(CreatePool \/ LinkUp \/ Build \/ CreateFll) /\ WF_vars(WorkerEnds)

----------------------------------------------------------------------------
(* Properties.                                                             *)

(* Beside the types: a global points to what has been allocated, and the   *)
(* NIC is open only under a port that is live.                             *)
TypeOK ==
  /\ prog \in Programs /\ record \in {0, 1}
  /\ mpc \in {Steps[i] : i \in 1..Len(Steps)} \union
       {"launch", "poll", "delay", "stream?", "stream", "fll?", "fll", "stats",
        "grace", "teardown", "exit", "exit2", "exit3", "exited"}
  /\ wpc \in {"none", "create", "boot", "setup", "fll", "loop", "pipe", "stream", "clear",
              "stop", "wait", "returned", "exit", "exit2", "exit3", "gone"}
  /\ failed \subseteq {Steps[i] : i \in 1..Len(Steps)} \union {"stats", "short"}
  /\ device \in {"closed", "open", "started"} /\ console \in {"print", "stop"}
  /\ heap \in [Objects -> {"none", "live", "freed"}]
  /\ globals \subseteq {g \in {"pipe", "stream", "fll"} : heap[g] # "none"}
  /\ finished \in BOOLEAN /\ handler \in BOOLEAN
  /\ bad \subseteq {"main", "worker", "exit"} \X Objects
  /\ device # "closed" => heap.port = "live"

(* Neither thread uses the port before it is configured or after it is     *)
(* released, across all errors of port_configure and every way out of      *)
(* main, but for the one gap that the code leaves: without memory for the  *)
(* rx pool or the tx_buffer port_configure releases the port and reports   *)
(* success (ret is still 0), and both threads work on the freed port.      *)
FreedPort == failed \intersect {"rxpool", "buffer"} # {}
PortLive == (\E b \in bad : b[2] = "port") => FreedPort

(* The console reads nothing that the worker has freed: txer frees its fll *)
(* after a delay that outlasts what is being printed, so that g_fll may    *)
(* keep pointing to it.  Except in rxer_test, which has no such delay      *)
(* before it frees the stream: behind a loop that has an end, or on the    *)
(* exit of rx_stream_mtop.                                                 *)
ConsoleReadsLive ==
  \A b \in bad : b[1] = "main" /\ b[2] \in {"stream", "fll"} =>
    b[2] = "stream" /\ prog = "rxer_test" /\ (record = 1 \/ "short" \in failed)

(* Pipeline and stream are freed once, by the worker or at exit, and not   *)
(* under the worker, unless the console exits for want of statistics: that *)
(* does not stop the worker, and frees what it is working with or has just *)
(* freed itself.                                                           *)
FreedOnce ==
  (\E b \in bad : b[1] \in {"worker", "exit"} /\ b[2] \in {"pipe", "stream"})
    => prog = "rxer_test" /\ "stats" \in failed

(* The program ends, with the NIC closed and no worker running unless the  *)
(* program exits for an error; but rxer_test never does with the           *)
(* record_time that it passes, nor any program on a freed port.            *)
Ends ==
  (prog = "rxer_test" => record = 1) ~>
    \/ FreedPort
    \/ /\ mpc = "exited"
       /\ failed \intersect {"txpool", "stats", "short"} # {} \/ (device = "closed" /\ wpc \in {"none", "returned"})

=============================================================================
