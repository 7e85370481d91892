------------------------------ MODULE Pipeline ------------------------------
(***************************************************************************)
(* How a pipeline is put together and changed (src/pipeline.c): elements   *)
(* made by the constructors of src/benchmark_helper.c, the array of a      *)
(* pipeline_t, and the ports by which they are connected, which alone say  *)
(* where packets go: pipeline_process starts with elements[0] and never    *)
(* looks at the array again.                                               *)
(*                                                                         *)
(* A wrapper (buffered_element.c, bypass_element.c) is an element with     *)
(* ports of its own, copied when it is made; connect, disconnect and       *)
(* hop_at of a wrapper go to the element within and leave the copy alone.  *)
(*                                                                         *)
(* All programs build their pipelines with pipeline_element_add alone; the *)
(* two other operations are modelled as the header offers them.  Datapath  *)
(* has what flows through a pipeline, and its release.                     *)
(***************************************************************************)
EXTENDS Naturals, Sequences, SequencesExt

CONSTANTS
  Kinds,     (* the kinds of elements that are made                        *)
  Ways,      (* of "only", "buffered" and "bypass": how they are made      *)
  PortCount, (* ELEMENT_MAX_PORT_COUNT                                     *)
  MaxSize,   (* bound: elements made; MAX_PIPELINE_SIZE is not reached     *)
  Null

(* What is wrapped, or not, is one of these; of its computation only the   *)
(* ports matter on which it dispatches.                                    *)
BppKinds == {"bpp_checksum", "bpp_routing", "bpp_measurement"}
Drops    == {"drop", "drop_mbuf"}
AllKinds ==
  {"merged_fastpass", "merged_opt", "merged", "fastpass", "identity", "timer",
   "naive_checksum", "batching_checksum", "bp_checksum", "checksum",
   "routing", "naive_routing", "batching_routing", "bp_routing",
   "naive_measurement", "batching_measurement", "bp_measurement", "measurement"}
  \union BppKinds \union Drops

ASSUME PipelineAssumption ==
  /\ Kinds \subseteq AllKinds /\ Ways \subseteq {"only", "buffered", "bypass"}
  /\ PortCount \in Nat \ {0, 1} /\ MaxSize \in Nat
  /\ Null \notin 0..MaxSize

VARIABLES
  made,     (* the elements made: a sequence, elements are its indices     *)
  elements, (* pipeline_t                                                  *)
  size,
  crashed,  (* a call through a null pointer                               *)
  op        (* history: the last operation                                 *)

vars == <<made, elements, size, crashed, op>>

Ids     == 1..Len(made)
PortIds == 0..(PortCount - 1)

(* The drop_mbuf on port 1 of each fastpass, in no pipeline.               *)
OwnDrop == 0

(* kind and wrap of an element; the ports of what is wrapped (of itself if *)
(* it is not), and the copy of them in the wrapper.                        *)
Element == [kind : Kinds, wrap : Ways \union {"buffered"},
            ports : [PortIds -> Ids \union {Null, OwnDrop}],
            copy  : [PortIds -> Ids \union {Null, OwnDrop}]]

Init ==
  /\ made = <<>> /\ elements = [i \in 0..MaxSize |-> Null] /\ size = 0
  /\ crashed = FALSE /\ op = [name |-> "create", pos |-> 0]

----------------------------------------------------------------------------
(* Mutant: a fastpass is left without its drop_mbuf.                       *)
PortsAlike(kind) == [p \in PortIds |-> Null]

(* el_only_*: a new element; only a fastpass is already connected.         *)
OnlyPorts(kind) ==
  [p \in PortIds |-> IF kind = "fastpass" /\ p = 1 THEN OwnDrop ELSE Null]

(* el_bypass_*: el_bypass_timer_create buffers.                            *)
BypassWrap(kind) == IF kind = "timer" THEN "buffered" ELSE "bypass"

(* el_* buffers.                                                           *)
WrapOf(kind, way) == IF way = "bypass" THEN BypassWrap(kind) ELSE way

(* A new element, wrapped as it is made: the copy is taken then.           *)
NewElement(kind, way) ==
  [kind |-> kind, wrap |-> WrapOf(kind, way), ports |-> OnlyPorts(kind), copy |-> OnlyPorts(kind)]

(* e->connect: the wrapper passes it on.                                   *)
Connect(els, e, port, next) == [els EXCEPT ![e].ports[port] = next]

(* What a caller reads in e->ports.                                        *)
PortsField(e) == IF made[e].wrap = "only" THEN made[e].ports ELSE made[e].copy

(* pipeline_element_add of a new element.                                  *)
ElementAdd(kind, way) ==
  LET e   == Len(made) + 1
      new == Append(made, NewElement(kind, way))
  IN
  /\ ~crashed /\ e <= MaxSize
  /\ made' = IF size > 0 THEN Connect(new, elements[size - 1], 0, e) ELSE new
  /\ elements' = [elements EXCEPT ![size] = e]
  /\ size' = size + 1
  /\ op' = [name |-> "add", pos |-> size]
  /\ UNCHANGED crashed

(* One turn of the loop of pipeline_element_insert at index i.             *)
ShiftIn(s, i) ==
  LET tmp == s.elements[i] IN
  [made |-> Connect(s.made, s.ele, 0, tmp), elements |-> [s.elements EXCEPT ![i] = s.ele], ele |-> tmp]

(* That many turns, from index pos on.                                     *)
InsertTurns(e, new, pos, turns) ==
  LET s[n \in 0..turns] ==
        IF n = 0 THEN [made |-> new, elements |-> elements, ele |-> e]
        ELSE ShiftIn(s[n - 1], pos + n - 1)
  IN s[turns]

(* Mutant: the loop stops before the slot behind the last element.         *)
InsertStopsEarly(e, new, pos) == InsertTurns(e, new, pos, size - pos)

(* Up to and including elements[size], which is null, or what a removal    *)
(* has left there.                                                         *)
InsertLoop(e, new, pos) == InsertTurns(e, new, pos, size - pos + 1)

(* pipeline_element_insert in front of the element at pos; at the end it   *)
(* is pipeline_element_add.  What the loop has pushed out is disconnected. *)
ElementInsert(kind, way, pos) ==
  LET e == Len(made) + 1
      s == InsertLoop(e, Append(made, NewElement(kind, way)), pos)
  IN
  /\ ~crashed /\ e <= MaxSize
  /\ pos < size
  /\ elements' = s.elements
  /\ IF s.ele = Null
     THEN crashed' = TRUE /\ made' = s.made /\ UNCHANGED size
     ELSE made' = Connect(s.made, s.ele, 0, Null) /\ size' = size + 1 /\ UNCHANGED crashed
  /\ op' = [name |-> "insert", pos |-> pos]

(* Mutant: the element is asked for its next hop.                          *)
RemovedHop(e) == made[e].ports[0]

(* ele->ports[0].                                                          *)
NextOfRemoved(e) == PortsField(e)[0]

(* pipeline_element_remove of the element at pos; the first has no prev.   *)
(* The last entry is moved up, and stays where it was as well.             *)
ElementRemove(pos) ==
  /\ ~crashed /\ pos < size
  /\ IF pos = 0 THEN crashed' = TRUE /\ UNCHANGED <<made, elements, size>>
     ELSE /\ made' = Connect(made, elements[pos - 1], 0, NextOfRemoved(elements[pos]))
          /\ size' = size - 1
          /\ elements' = [i \in 0..MaxSize |-> IF i \in pos..(size - 2) THEN elements[i + 1] ELSE elements[i]]
          /\ UNCHANGED crashed
  /\ op' = [name |-> "remove", pos |-> pos]

Next ==
  \/ \E k \in Kinds, w \in Ways : ElementAdd(k, w) \/ \E pos \in 0..(MaxSize - 1) : ElementInsert(k, w, pos)
  \/ \E pos \in 0..(MaxSize - 1) : ElementRemove(pos)

Spec == Init /\ [][Next]_vars

----------------------------------------------------------------------------
(* Properties.                                                             *)

TypeOK ==
  /\ made \in Seq(Element) /\ Len(made) <= MaxSize
  /\ size \in 0..Len(made) /\ elements \in [0..MaxSize -> Ids \union {Null}]
  /\ \A i \in 0..(size - 1) : elements[i] # Null
  /\ crashed \in BOOLEAN
  /\ op \in [name : {"create", "add", "insert", "remove"}, pos : 0..MaxSize]

(* What the array says.                                                    *)
Listed == [i \in 1..size |-> elements[i - 1]]

(* Where packets go: from elements[0] on by port 0.  Longer than Listed if *)
(* the way does not end.                                                   *)
Further(way) ==
  IF way = <<>> \/ made[Last(way)].ports[0] = Null THEN way
  ELSE Append(way, made[Last(way)].ports[0])
Way ==
  LET w[n \in 0..MaxSize] ==
        IF n = 0 THEN IF size = 0 THEN <<>> ELSE <<elements[0]>> ELSE Further(w[n - 1])
  IN w[MaxSize]

(* The ports on which an element dispatches.  routing sends a batch to the *)
(* sum of the ports of its packets: 0, with the routes in data/.           *)
DispatchPorts(kind) == IF kind \in Drops THEN {} ELSE IF kind = "fastpass" THEN {0, 1} ELSE {0}

(* In a pipeline of added elements that ends with a drop, whatever is      *)
(* wrapped how, no element dispatches on a port that is not connected, and *)
(* packets pass the elements in the order of the array.                    *)
AddedOnly == \A e \in Ids : e <= size /\ elements[e - 1] = e
BuiltToDrop ==
  AddedOnly /\ size > 0 /\ made[Len(made)].kind \in Drops =>
    /\ Way = Listed
    /\ \A e \in Ids : \A p \in DispatchPorts(made[e].kind) : made[e].ports[p] # Null

(* The edits that keep the way of the packets and the array in step, once  *)
(* they are.  Not among them: an insertion anywhere but in front, because  *)
(* the element before it keeps its port; one in front after the last       *)
(* element was removed, because the element now last is connected to that; *)
(* and the removal of a wrapped element from the middle, because the copy  *)
(* of its ports was taken before it was connected.                         *)
KeepsWay ==
  \/ op'.name = "add"
  \/ op'.name = "insert" /\ op'.pos = 0 /\ elements[size] = elements[size - 1]
  \/ op'.name = "remove" /\ (made[elements[op'.pos]].wrap = "only" \/ op'.pos = size - 1)

(* Null is called for an insertion into a pipeline that has lost no        *)
(* element before, and for the removal of the first element.               *)
CallsNull ==
  \/ op'.name = "insert" /\ elements[size] = Null
  \/ op'.name = "remove" /\ op'.pos = 0

(* Each edit of a pipeline whose packets go where the array says crashes,  *)
(* or leaves it so, in exactly these cases: an insertion never works on a  *)
(* pipeline as the programs build it.                                      *)
EditsKeepWay ==
  [][Way = Listed =>
       /\ crashed' <=> CallsNull
       /\ ~crashed' => (Way' = Listed' <=> KeepsWay)]_vars

=============================================================================
