----------------------------- MODULE MCPipeline -----------------------------
(* One kind for each way to be connected: in between (also the one whose   *)
(* bypass buffers), to two elements, and to none.  With four elements      *)
(* there is room for two removals and the insertions behind them.          *)
EXTENDS Pipeline
=============================================================================
