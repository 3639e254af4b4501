------------------------------- MODULE InferSim -------------------------------
(***************************************************************************)
(* infer_sim_20240606.py, the other consumer on port 8003: the main thread *)
(* runs zmq_server, the other threads run handle_thread, and between them  *)
(* is a queue.Queue of bounded size, whose put and get are atomic and      *)
(* block. A thread that raises an exception is gone, the process is not.   *)
(*                                                                         *)
(* The decoders are those of PictureServer. A "badjson" message has a file *)
(* name that the text cannot carry: json.loads raises, or recv_string does *)
(* when the name is not UTF-8.                                             *)
(***************************************************************************)
EXTENDS Naturals, Sequences, FiniteSets

CONSTANTS Clients,      (* decoder processes                               *)
          Workers,      (* handler threads, sys.argv[1] of them            *)
          QueueSize,    (* of msgs_q, 32 in the code                       *)
          Blank,        (* of PictureService; never queued here            *)
          NoMsg,        (* an empty hand                                   *)
          MaxRequests   (* bound: pictures per client                      *)

VARIABLES files,    (* pictures on the ramfs                               *)
          sent,     (* per client: pictures submitted                      *)
          waiting,  (* clients blocked until the reply                     *)
          inbox,    (* requests that arrived at the REP socket             *)
          spc,      (* where zmq_server is                                 *)
          msg,      (* its local msg                                       *)
          msgs_q,   (* the queue                                           *)
          hand,     (* the msg of each handler                             *)
          gone      (* handlers that raised an exception                   *)

clientVars == <<files, sent, waiting, inbox>>
vars == <<files, sent, waiting, inbox, spc, msg, msgs_q, hand, gone>>

Kinds == {"file", "badjson"}

Message == [client : Clients, num : 1 .. MaxRequests, kind : Kinds]

Removable == {m \in Message : m.kind = "file"}

ASSUME SizesAssumption == QueueSize \in Nat \ {0} /\ MaxRequests \in Nat

ASSUME NamesAssumption == /\ Blank \notin Message
                          /\ NoMsg \notin Message \cup {Blank}

ASSUME FiniteAssumption == IsFiniteSet(Clients) /\ IsFiniteSet(Workers)

Init == /\ files = {}
        /\ sent = [c \in Clients |-> 0]
        /\ waiting = {}
        /\ inbox = {}
        /\ spc = "recv"
        /\ msg = NoMsg
        /\ msgs_q = <<>>
        /\ hand = [w \in Workers |-> NoMsg]
        /\ gone = {}

-----------------------------------------------------------------------------
(* save_yuv in a decoder. *)
ClientSubmit(c, kind) ==
    LET m == [client |-> c, num |-> sent[c] + 1, kind |-> kind]
    IN  /\ c \notin waiting
        /\ sent[c] < MaxRequests
        /\ sent' = [sent EXCEPT ![c] = @ + 1]
        /\ files' = files \cup {m}
        /\ inbox' = inbox \cup {m}
        /\ waiting' = waiting \cup {c}
        /\ UNCHANGED <<spc, msg, msgs_q, hand, gone>>

-----------------------------------------------------------------------------
(* zmq_server. *)

ServerGoto(from, to) == spc = from /\ spc' = to

(* Mutant: the reply goes out before the put. *)
RecvReplies(m) == /\ ServerGoto("recv", "put")
                  /\ m \in inbox
                  /\ inbox' = inbox \ {m}
                  /\ msg' = m
                  /\ waiting' = waiting \ {m.client}
                  /\ UNCHANGED <<files, sent, msgs_q, hand, gone>>

(* socket.recv_string() *)
Recv(m) == /\ ServerGoto("recv", "put")
           /\ m \in inbox
           /\ inbox' = inbox \ {m}
           /\ msg' = m
           /\ UNCHANGED <<files, sent, waiting, msgs_q, hand, gone>>

(* recv_string raises UnicodeDecodeError: zmq_server is over. *)
RecvRaises(m) == /\ ServerGoto("recv", "gone")
                 /\ m \in inbox
                 /\ m.kind = "badjson"
                 /\ inbox' = inbox \ {m}
                 /\ msg' = m
                 /\ UNCHANGED <<files, sent, waiting, msgs_q, hand, gone>>

(* Mutant: a queue without a bound. *)
PutUnbounded == /\ ServerGoto("put", "send")
                /\ msgs_q' = Append(msgs_q, msg)
                /\ UNCHANGED <<clientVars, msg, hand, gone>>

(* msgs_q.put(msg) blocks while the queue is full. *)
Put == /\ ServerGoto("put", "send")
       /\ Len(msgs_q) < QueueSize
       /\ msgs_q' = Append(msgs_q, msg)
       /\ UNCHANGED <<clientVars, msg, hand, gone>>

(* Mutant: nothing is sent. *)
SendNothing == /\ ServerGoto("send", "recv")
               /\ msg' = NoMsg
               /\ UNCHANGED <<clientVars, msgs_q, hand, gone>>

(* socket.send_string("0") *)
Send == /\ ServerGoto("send", "recv")
        /\ waiting' = waiting \ {msg.client}
        /\ msg' = NoMsg
        /\ UNCHANGED <<files, sent, inbox, msgs_q, hand, gone>>

ServerStep == (\E m \in inbox : Recv(m)) \/ Put \/ Send

-----------------------------------------------------------------------------
(* handle_thread. *)

(* msgs_q.get() blocks while the queue is empty. *)
Get(w) == /\ w \notin gone
          /\ hand[w] = NoMsg
          /\ msgs_q # <<>>
          /\ hand' = [hand EXCEPT ![w] = Head(msgs_q)]
          /\ msgs_q' = Tail(msgs_q)
          /\ UNCHANGED <<clientVars, spc, msg, gone>>

(* Mutant: the file is not removed. *)
HandleKept(w) == /\ hand[w] \in files \cap Removable
                 /\ hand' = [hand EXCEPT ![w] = NoMsg]
                 /\ UNCHANGED <<clientVars, spc, msg, msgs_q, gone>>

(* json.loads, os.remove. *)
Handle(w) == /\ hand[w] \in files \cap Removable
             /\ files' = files \ {hand[w]}
             /\ hand' = [hand EXCEPT ![w] = NoMsg]
             /\ UNCHANGED <<sent, waiting, inbox, spc, msg, msgs_q, gone>>

(* json.loads raises, or os.remove does because the file is not there.     *)
HandleRaises(w) == /\ hand[w] # NoMsg
                   /\ hand[w] \notin files \cap Removable
                   /\ hand' = [hand EXCEPT ![w] = NoMsg]
                   /\ gone' = gone \cup {w}
                   /\ UNCHANGED <<clientVars, spc, msg, msgs_q>>

WorkerStep(w) == Get(w) \/ Handle(w) \/ HandleRaises(w)

-----------------------------------------------------------------------------

Next == \/ \E c \in Clients, k \in Kinds : ClientSubmit(c, k)
        \/ ServerStep
        \/ \E m \in inbox : RecvRaises(m)
        \/ \E w \in Workers : WorkerStep(w)

Spec == Init /\ [][Next]_vars

(* The threads are scheduled; a decoder may have no more pictures. *)
FairSpec == /\ Spec
            /\ WF_vars(ServerStep)
            /\ \A w \in Workers : WF_vars(WorkerStep(w))

-----------------------------------------------------------------------------
(* Type invariant. *)
TypeOK == /\ files \subseteq Message
          /\ sent \in [Clients -> 0 .. MaxRequests]
          /\ waiting \subseteq Clients
          /\ inbox \subseteq Message
          /\ spc \in {"recv", "put", "send", "gone"}
          /\ msg \in Message \cup {NoMsg}
          /\ msgs_q \in Seq(Message) /\ Len(msgs_q) <= QueueSize
          /\ hand \in [Workers -> Message \cup {NoMsg}]
          /\ gone \subseteq Workers

(* The queue holds the decoders back: the reply comes after the put, so    *)
(* the pictures on the ramfs, but for those nobody can parse, are one per  *)
(* decoder, a queue full and one per handler, however slow the handlers.   *)
RamfsBounded ==
    Cardinality(files \cap Removable)
        <= Cardinality(Clients) + QueueSize + Cardinality(Workers)

(* A decoder waits forever only if zmq_server raised an exception, or      *)
(* every handler did and the queue is full.                                *)
ClientsAcked == \A c \in Clients :
    c \in waiting ~> \/ c \notin waiting
                     \/ spc = "gone"
                     \/ gone = Workers /\ Len(msgs_q) = QueueSize

(* Pictures are removed as long as a handler lives. *)
PicturesRemoved == \A m \in Removable :
    m \in files ~> m \notin files \/ spc = "gone" \/ gone = Workers

-----------------------------------------------------------------------------
(* This program, too, implements the consumer of PictureService. *)
Service == INSTANCE PictureService WITH
              pending <- inbox \cup (IF spc \in {"put", "gone"} THEN {msg} ELSE {}),
              backlog <- msgs_q,
              serving <- hand

ImplementsService == Service!Spec

-----------------------------------------------------------------------------
(* Where a thread cannot go on: it is gone, or in a call that blocks.      *)
ServerBlocked == \/ spc = "gone"
                 \/ spc = "recv" /\ inbox = {}
                 \/ spc = "put" /\ Len(msgs_q) = QueueSize

WorkerBlocked(w) == w \in gone \/ (hand[w] = NoMsg /\ msgs_q = <<>>)

StandsStill == ServerBlocked /\ \A w \in Workers : WorkerBlocked(w)

(* Where the program stands still, every decoder has its reply and every   *)
(* picture that can be parsed is removed, unless zmq_server or all of the  *)
(* handlers raised an exception; with the handlers gone, a decoder waits   *)
(* only if the queue is full.                                              *)
StillMeansDone ==
    StandsStill => \/ spc = "gone"
                   \/ gone = Workers /\ (waiting = {} \/ Len(msgs_q) = QueueSize)
                   \/ waiting = {} /\ files \cap Removable = {}

(* How many steps the threads have before them at most, for what they hold *)
(* and for what waits: five for a picture, from recv_string to os.remove.  *)
ServerLeft == CASE spc = "put"  -> 4
                [] spc = "send" -> 1
                [] spc \in {"recv", "gone"} -> 0

HandsLeft == Cardinality({w \in Workers : hand[w] # NoMsg})

ToGo == ServerLeft + HandsLeft + 5 * Cardinality(inbox) + 2 * Len(msgs_q)

(* No step is done over: each brings the end nearer, and only a picture,   *)
(* with its five, moves it away.                                           *)
NearsEnd ==
    [][/\ ToGo \in Nat /\ ToGo' \in Nat
       /\ \/ ToGo' < ToGo
          \/ sent' # sent /\ ToGo' <= ToGo + 5]_vars

=============================================================================
