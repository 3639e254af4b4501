--------------------------- MODULE PictureService ---------------------------
(***************************************************************************)
(* What a picture consumer on port 8003 promises to the decoders, with no  *)
(* threads, locks or signals: a decoder that saved a picture submits it    *)
(* and waits; the consumer puts it at the end of a backlog before it       *)
(* acknowledges it; workers take pictures from the front of the backlog,   *)
(* one each, and only the worker that holds a picture deletes its file.    *)
(* demo_process_picture.c is shown to implement it (PictureServer).        *)
(***************************************************************************)
EXTENDS Naturals, Sequences

CONSTANTS Clients,      (* decoder processes, one outstanding request each *)
          Workers,      (* threads that consume pictures                   *)
          MaxRequests,  (* bound: pictures a decoder submits               *)
          Blank,        (* a backlog entry that names no picture           *)
          NoMsg         (* absence of a message                            *)

VARIABLES files,    (* pictures present in the output directory           *)
          sent,     (* pictures each client has submitted so far           *)
          waiting,  (* clients that wait for their acknowledgement         *)
          pending,  (* submitted, not yet in the backlog                   *)
          backlog,  (* accepted, in the order of acceptance                *)
          serving   (* the message each worker holds                       *)

vars == <<files, sent, waiting, pending, backlog, serving>>

Kinds == {"file", "badjson"}

Message == [client : Clients, num : 1 .. MaxRequests, kind : Kinds]

Removable == {m \in Message : m.kind = "file"}

Init == /\ files = {}
        /\ sent = [c \in Clients |-> 0]
        /\ waiting = {}
        /\ pending = {}
        /\ backlog = <<>>
        /\ serving = [w \in Workers |-> NoMsg]

Submit(c, kind) ==
    LET m == [client |-> c, num |-> sent[c] + 1, kind |-> kind]
    IN  /\ c \notin waiting
        /\ sent[c] < MaxRequests
        /\ sent' = [sent EXCEPT ![c] = @ + 1]
        /\ files' = files \cup {m}
        /\ pending' = pending \cup {m}
        /\ waiting' = waiting \cup {c}
        /\ UNCHANGED <<backlog, serving>>

Accept(m) == /\ m \in pending
             /\ pending' = pending \ {m}
             /\ backlog' = Append(backlog, m)
             /\ UNCHANGED <<files, sent, waiting, serving>>

AcceptBlank == /\ backlog' = Append(backlog, Blank)
               /\ UNCHANGED <<files, sent, waiting, pending, serving>>

Acknowledge(c) == /\ c \in waiting
                  /\ \A m \in pending : m.client # c
                  /\ waiting' = waiting \ {c}
                  /\ UNCHANGED <<files, sent, pending, backlog, serving>>

Serve(w) == /\ serving[w] = NoMsg
            /\ backlog # <<>>
            /\ serving' = [serving EXCEPT ![w] = Head(backlog)]
            /\ backlog' = Tail(backlog)
            /\ UNCHANGED <<files, sent, waiting, pending>>

Finish(w) == /\ serving[w] # NoMsg
             /\ files' = files \ ({serving[w]} \cap Removable)
             /\ serving' = [serving EXCEPT ![w] = NoMsg]
             /\ UNCHANGED <<sent, waiting, pending, backlog>>

Next == \/ \E c \in Clients, k \in Kinds : Submit(c, k)
        \/ \E m \in Message : Accept(m)
        \/ AcceptBlank
        \/ \E c \in Clients : Acknowledge(c)
        \/ \E w \in Workers : Serve(w) \/ Finish(w)

Spec == Init /\ [][Next]_vars

=============================================================================
