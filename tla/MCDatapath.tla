----------------------------- MODULE MCDatapath -----------------------------
(* Small pipelines of the shapes that the benchmark scripts build.         *)
EXTENDS Datapath

Buffered(n, w) == [wrap |-> "buffered", size |-> n, work |-> w]
Bypass(n, w)   == [wrap |-> "bypass", size |-> n, work |-> w]
Only(w)        == [wrap |-> "only", size |-> 1, work |-> w]

(* pipeline-make-wq: every element buffered.  With a ring of 8 the first   *)
(* just fits a burst of 3, the second is one slot too long.                *)
Fits    == <<Buffered(2, "forward"), Buffered(1, "forward"), Buffered(1, "drop")>>
TooLong == <<Buffered(2, "forward"), Buffered(2, "forward"), Buffered(1, "drop")>>

(* pipeline-make-nq: el_bypass_timer_create still buffers, the rest does   *)
(* not.                                                                    *)
NoQueue == <<Buffered(3, "forward"), Bypass(2, "forward"), Bypass(1, "drop")>>

(* test-rxer/benchmark.c, and the same with every element buffered.        *)
FastPath == <<Buffered(1, "forward"), Bypass(2, "fastpass"), Bypass(1, "forward"), Bypass(2, "drop")>>
FastPathQueued == <<Buffered(1, "forward"), Buffered(2, "fastpass"), Buffered(1, "drop")>>

(* paper-benchmarks.sh runs naive_ elements behind a timer of batch size 1.        *)
Naive == <<Buffered(1, "forward"), Only("naive"), Only("naive"), Bypass(2, "drop")>>

MCPipelines == {Fits, TooLong, NoQueue, FastPath, FastPathQueued, Naive}
=============================================================================
