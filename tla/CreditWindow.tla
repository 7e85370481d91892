---------------------------- MODULE CreditWindow ----------------------------
(***************************************************************************)
(* What the flow control loop promises, without messages, counts or a      *)
(* receiver: a generator that holds credit, spends it by sending, and is   *)
(* granted more as packets leave the loop.  Fll implements it (see         *)
(* FllInvariant).                                                          *)
(*                                                                         *)
(* fll_ack grants window and one packet more than it acknowledges; a reset *)
(* grants a whole window without a look at what is still on its way, so    *)
(* what may be out grows with each time the generator starts over.         *)
(***************************************************************************)
EXTENDS Integers

CONSTANT Window   (* FLL_WND_SIZE                                          *)

VARIABLES
  inflight, (* packets sent that are neither processed nor lost            *)
  credit,   (* packets the generator may send before it hears more         *)
  starts    (* times the generator started counting                        *)

vars == <<inflight, credit, starts>>

Init == inflight = 0 /\ credit = Window /\ starts = 1

Send ==
  /\ \E n \in 1..credit : credit' = credit - n /\ inflight' = inflight + n
  /\ UNCHANGED starts

(* Processed by the receiver, or lost anywhere on the way there.           *)
Leave ==
  /\ inflight' \in 0..(inflight - 1)
  /\ UNCHANGED <<credit, starts>>

(* Whatever an ack says, and whenever it comes.                            *)
Grant ==
  /\ credit' \in Nat /\ inflight + credit' <= starts * (Window + 1)
  /\ UNCHANGED <<inflight, starts>>

StartOver ==
  /\ starts' = starts + 1 /\ credit' = Window
  /\ UNCHANGED inflight

Next == Send \/ Leave \/ Grant \/ StartOver

Spec == Init /\ [][Next]_vars

=============================================================================
