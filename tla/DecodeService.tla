---------------------------- MODULE DecodeService ----------------------------
(***************************************************************************)
(* What demo_decode_file promises to the process that calls it and to the  *)
(* picture server, without packets, threads or a codec: pictures are told  *)
(* to the server one at a time, under rising numbers, each waiting for the *)
(* reply to the one before; the decode returns, fails before any picture,  *)
(* or takes its process with it.                                           *)
(***************************************************************************)
EXTENDS Naturals, Sequences

CONSTANT Numbers  (* the numbers a picture may get, naturals *)

VARIABLES state,  (* decoding, asking, returned, failed or crashed         *)
          told    (* numbers of the pictures told to the server            *)

vars == <<state, told>>

Init == state = "decoding" /\ told = <<>>

Goto(from, to) == state = from /\ state' = to

Tell(n) == /\ Goto("decoding", "asking")
           /\ \A i \in DOMAIN told : told[i] < n
           /\ told' = Append(told, n)

Answered == Goto("asking", "decoding") /\ UNCHANGED told

Return == Goto("decoding", "returned") /\ UNCHANGED told

Fail == Goto("decoding", "failed") /\ told = <<>> /\ UNCHANGED told

(* Also by what the process does otherwise, while it waits. *)
Crash == /\ state \in {"decoding", "asking"}
         /\ state' = "crashed"
         /\ UNCHANGED told

Next == (\E n \in Numbers : Tell(n)) \/ Answered \/ Return \/ Fail \/ Crash

Spec == Init /\ [][Next]_vars

=============================================================================
