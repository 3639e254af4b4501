--------------------------- MODULE DispatchService ---------------------------
(***************************************************************************)
(* What demo_file_decoding promises about the files of its directory,      *)
(* without sockets, forks or counters: a file goes to one process at most, *)
(* which has no other meanwhile, and is given up only for a process that   *)
(* is gone.                                                                *)
(***************************************************************************)
CONSTANTS Files, Children, None

VARIABLES todo,  (* files no process has received                          *)
          held,  (* the file each process decodes                          *)
          gone   (* processes that have left or died                       *)

vars == <<todo, held, gone>>

Init == /\ todo = Files
        /\ held = [c \in Children |-> None]
        /\ gone = {}

Hand(c, f) == /\ c \in Children \ gone
              /\ held[c] = None
              /\ f \in todo
              /\ todo' = todo \ {f}
              /\ held' = [held EXCEPT ![c] = f]
              /\ UNCHANGED gone

Finish(c) == /\ held[c] # None
             /\ held' = [held EXCEPT ![c] = None]
             /\ UNCHANGED <<todo, gone>>

(* The file it decodes, and one on its way to it, go along. *)
Leave(c) == /\ c \in Children \ gone
            /\ gone' = gone \cup {c}
            /\ held' = [held EXCEPT ![c] = None]
            /\ todo' = todo \/ \E f \in todo : todo' = todo \ {f}

(* Sent to a process that had gone. *)
Lose(f) == /\ gone # {}
           /\ f \in todo
           /\ todo' = todo \ {f}
           /\ UNCHANGED <<held, gone>>

Next == \/ \E c \in Children, f \in Files : Hand(c, f)
        \/ \E c \in Children : Finish(c) \/ Leave(c)
        \/ \E f \in Files : Lose(f)

Spec == Init /\ [][Next]_vars

=============================================================================
