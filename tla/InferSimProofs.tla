--------------------------- MODULE InferSimProofs ---------------------------
(***************************************************************************)
(* TLAPS proofs about InferSim, for any finite sets of decoders and        *)
(* handlers and a queue of any size.                                       *)
(***************************************************************************)
EXTENDS InferSim, FiniteSetTheorems, TLAPS

(* zmq_server has a message exactly between its recv and the end of send. *)
ControlInv == msg # NoMsg <=> spc # "recv"

Typed == TypeOK /\ ControlInv

(* One request per decoder at most between its submission and its reply.   *)
RequestInv == /\ \A m \in inbox : m.client \in waiting
              /\ \A m, n \in inbox : m.client = n.client => m = n
              /\ spc # "recv" => /\ msg.client \in waiting
                                 /\ \A m \in inbox : m.client # msg.client

Fresh  == IF spc = "put" THEN {msg} ELSE {}
Queued == {msgs_q[i] : i \in DOMAIN msgs_q}
Held   == {hand[w] : w \in Workers}

(* No picture is orphaned: its message is at the socket, with zmq_server,  *)
(* in the queue or with a handler.                                         *)
OnTheirWay == files \cap Removable \subseteq inbox \cup Fresh \cup Queued \cup Held

IInv == Typed /\ RequestInv /\ OnTheirWay

-----------------------------------------------------------------------------
LEMMA Names == NoMsg \notin Message /\ MaxRequests \in Nat /\ QueueSize \in Nat
BY NamesAssumption, SizesAssumption

(* The fields of messages, and the new message of a decoder. *)
LEMMA Fields == \A m \in Message : m.client \in Clients
BY DEF Message

LEMMA NewMessage ==
  ASSUME TypeOK, NEW c \in Clients, NEW k \in Kinds, sent[c] < MaxRequests
  PROVE  /\ sent[c] + 1 \in 1 .. MaxRequests
         /\ [client |-> c, num |-> sent[c] + 1, kind |-> k] \in Message
<1>1. sent[c] \in 0 .. MaxRequests  BY DEF TypeOK
<1>2. sent[c] + 1 \in 1 .. MaxRequests  BY <1>1, Names
<1> QED  BY <1>2 DEF Message

(* What is in a queue is at its head or in its tail. *)
LEMMA HeadOrTail ==
  ASSUME NEW S, NEW s \in Seq(S), s # <<>>, NEW i \in DOMAIN s
  PROVE  s[i] = Head(s) \/ \E j \in DOMAIN Tail(s) : Tail(s)[j] = s[i]
<1>1. CASE i = 1  BY <1>1
<1>2. CASE i # 1
  <2>1. i - 1 \in 1 .. Len(s) - 1 /\ Len(Tail(s)) = Len(s) - 1  BY <1>2
  <2>2. i - 1 \in DOMAIN Tail(s) /\ Tail(s)[i - 1] = s[i]  BY <2>1
  <2> QED  BY <2>2
<1> QED  BY <1>1, <1>2

-----------------------------------------------------------------------------
(* Every step keeps the types. *)
LEMMA NextTyped == Typed /\ [Next]_vars => Typed'
<1> SUFFICES ASSUME Typed, [Next]_vars PROVE Typed'
  OBVIOUS
<1> USE Names DEF Typed, TypeOK, ControlInv
<1>1. ASSUME NEW c \in Clients, NEW k \in Kinds, ClientSubmit(c, k)
      PROVE  Typed'
  <2>1. sent[c] < MaxRequests  BY <1>1 DEF ClientSubmit
  <2>2. /\ sent[c] + 1 \in 0 .. MaxRequests
        /\ [client |-> c, num |-> sent[c] + 1, kind |-> k] \in Message
    BY <2>1, NewMessage
  <2> QED  BY <1>1, <2>2 DEF ClientSubmit
<1>2. ASSUME NEW m \in inbox, Recv(m) \/ RecvRaises(m) PROVE Typed'
  <2>1. m \in Message  OBVIOUS
  <2> QED  BY <1>2, <2>1 DEF Recv, RecvRaises, ServerGoto
<1>3. CASE Put
  <2>1. msg \in Message  BY <1>3 DEF Put, ServerGoto
  <2>2. Append(msgs_q, msg) \in Seq(Message)  BY <2>1
  <2>3. Len(Append(msgs_q, msg)) = Len(msgs_q) + 1  BY <2>1
  <2> QED  BY <1>3, <2>2, <2>3 DEF Put, ServerGoto, clientVars
<1>4. CASE Send
  BY <1>4 DEF Send, ServerGoto
<1>5. ASSUME NEW w \in Workers, Get(w) PROVE Typed'
  <2>1. msgs_q # <<>>  BY <1>5 DEF Get
  <2>2. Head(msgs_q) \in Message /\ Tail(msgs_q) \in Seq(Message)
        /\ Len(Tail(msgs_q)) = Len(msgs_q) - 1
    BY <2>1
  <2> QED  BY <1>5, <2>2 DEF Get, clientVars
<1>6. ASSUME NEW w \in Workers, Handle(w) \/ HandleRaises(w) PROVE Typed'
  BY <1>6 DEF Handle, HandleRaises, clientVars
<1>7. CASE UNCHANGED vars
  BY <1>7 DEF vars
<1> QED
  BY <1>1, <1>2, <1>3, <1>4, <1>5, <1>6, <1>7 DEF Next, ServerStep, WorkerStep

(* Every step keeps one request per decoder. *)
LEMMA NextRequest == Typed /\ RequestInv /\ [Next]_vars => RequestInv'
<1> SUFFICES ASSUME Typed, RequestInv, [Next]_vars PROVE RequestInv'
  OBVIOUS
<1> USE DEF RequestInv
<1>1. ASSUME NEW c \in Clients, NEW k \in Kinds, ClientSubmit(c, k)
      PROVE  RequestInv'
  <2> DEFINE new == [client |-> c, num |-> sent[c] + 1, kind |-> k]
  <2>1. /\ c \notin waiting /\ waiting' = waiting \cup {c}
        /\ inbox' = inbox \cup {new} /\ UNCHANGED <<spc, msg>>
    BY <1>1 DEF ClientSubmit
  <2>2. new.client = c  OBVIOUS
  <2> HIDE DEF new
  <2> QED  BY <2>1, <2>2
<1>2. ASSUME NEW m \in inbox, Recv(m) \/ RecvRaises(m) PROVE RequestInv'
  BY <1>2 DEF Recv, RecvRaises, ServerGoto
<1>3. CASE Put
  BY <1>3 DEF Put, ServerGoto, clientVars
<1>4. CASE Send
  BY <1>4 DEF Send, ServerGoto
<1>5. ASSUME NEW w \in Workers, Get(w) \/ Handle(w) \/ HandleRaises(w)
      PROVE  RequestInv'
  BY <1>5 DEF Get, Handle, HandleRaises, clientVars
<1>6. CASE UNCHANGED vars
  BY <1>6 DEF vars
<1> QED
  BY <1>1, <1>2, <1>3, <1>4, <1>5, <1>6 DEF Next, ServerStep, WorkerStep

(* Every step keeps the message of every picture on its way. *)
LEMMA NextOnTheirWay == Typed /\ OnTheirWay /\ [Next]_vars => OnTheirWay'
<1> SUFFICES ASSUME Typed, OnTheirWay, [Next]_vars,
                    NEW m \in files', m \in Removable
             PROVE  (m \in inbox \cup Fresh \cup Queued \cup Held)'
  BY DEF OnTheirWay
<1>t. /\ msgs_q \in Seq(Message) /\ hand \in [Workers -> Message \cup {NoMsg}]
      /\ msg # NoMsg <=> spc # "recv"
      /\ msg \in Message \cup {NoMsg}
      /\ m \in Message /\ m # NoMsg /\ m.kind = "file"
  BY Names DEF Typed, TypeOK, ControlInv, Removable
<1>i. m \in files => m \in inbox \cup Fresh \cup Queued \cup Held
  BY DEF OnTheirWay
<1>1. ASSUME NEW c \in Clients, NEW k \in Kinds, ClientSubmit(c, k)
      PROVE  (m \in inbox \cup Fresh \cup Queued \cup Held)'
  BY <1>1, <1>i DEF ClientSubmit, Fresh, Queued, Held
<1>2. ASSUME NEW n \in inbox, Recv(n) \/ RecvRaises(n)
      PROVE  (m \in inbox \cup Fresh \cup Queued \cup Held)'
  BY <1>2, <1>i, <1>t DEF Recv, RecvRaises, ServerGoto, Fresh, Queued, Held
<1>3. CASE Put
  <2>1. /\ msgs_q' = Append(msgs_q, msg) /\ spc = "put"
        /\ msg \in Message /\ UNCHANGED <<files, inbox, hand>>
    BY <1>3, <1>t DEF Put, ServerGoto, clientVars
  <2>2. Len(msgs_q) + 1 \in DOMAIN msgs_q' /\ msgs_q'[Len(msgs_q) + 1] = msg
    BY <2>1, <1>t
  <2>3. \A i \in DOMAIN msgs_q : i \in DOMAIN msgs_q' /\ msgs_q'[i] = msgs_q[i]
    BY <2>1, <1>t
  <2> QED  BY <2>1, <2>2, <2>3, <1>i DEF Fresh, Queued, Held
<1>4. CASE Send
  BY <1>4, <1>i DEF Send, ServerGoto, Fresh, Queued, Held
<1>5. ASSUME NEW w \in Workers, Get(w)
      PROVE  (m \in inbox \cup Fresh \cup Queued \cup Held)'
  <2>1. /\ msgs_q # <<>> /\ msgs_q' = Tail(msgs_q) /\ hand[w] = NoMsg
        /\ hand' = [hand EXCEPT ![w] = Head(msgs_q)]
        /\ UNCHANGED <<files, inbox, spc, msg>>
    BY <1>5 DEF Get, clientVars
  <2>2. ASSUME m \in Queued PROVE m \in Queued' \/ m \in Held'
    <3>1. PICK i \in DOMAIN msgs_q : m = msgs_q[i]  BY <2>2 DEF Queued
    <3>2. CASE m = Head(msgs_q)
      <4>1. hand'[w] = m  BY <3>2, <2>1, <1>t
      <4> QED  BY <4>1 DEF Held
    <3>3. CASE m # Head(msgs_q)
      BY <3>1, <3>3, <2>1, <1>t, HeadOrTail DEF Queued
    <3> QED  BY <3>2, <3>3
  <2>3. ASSUME m \in Held PROVE m \in Held'
    <3>1. PICK v \in Workers : hand[v] = m  BY <2>3 DEF Held
    <3>2. v # w  BY <3>1, <2>1, <1>t
    <3>3. hand'[v] = m  BY <3>1, <3>2, <2>1, <1>t
    <3> QED  BY <3>3 DEF Held
  <2> QED  BY <2>1, <2>2, <2>3, <1>i DEF Fresh
<1>6. ASSUME NEW w \in Workers, Handle(w) \/ HandleRaises(w)
      PROVE  (m \in inbox \cup Fresh \cup Queued \cup Held)'
  <2>1. /\ UNCHANGED <<inbox, spc, msg, msgs_q>> /\ m \in files
        /\ hand' = [hand EXCEPT ![w] = NoMsg]
        /\ hand[w] # m
    BY <1>6 DEF Handle, HandleRaises, clientVars
  <2>2. ASSUME m \in Held PROVE m \in Held'
    <3>1. PICK v \in Workers : hand[v] = m  BY <2>2 DEF Held
    <3>2. hand'[v] = m  BY <3>1, <2>1, <1>t
    <3> QED  BY <3>2 DEF Held
  <2> QED  BY <2>1, <2>2, <1>i DEF Fresh, Queued
<1>7. CASE UNCHANGED vars
  BY <1>7, <1>i DEF vars, Fresh, Queued, Held
<1> QED
  BY <1>1, <1>2, <1>3, <1>4, <1>5, <1>6, <1>7 DEF Next, ServerStep, WorkerStep

-----------------------------------------------------------------------------
(* How many messages there are in each place. *)

(* At the socket and with zmq_server, before the put: one per decoder. *)
LEMMA AtTheDoor ==
  ASSUME Typed, RequestInv
  PROVE  /\ IsFiniteSet(inbox \cup Fresh)
         /\ Cardinality(inbox \cup Fresh) <= Cardinality(Clients)
<1> DEFINE f == [m \in inbox \cup Fresh |-> m.client]
<1>1. inbox \cup Fresh \subseteq Message
  BY DEF Typed, TypeOK, ControlInv, Fresh
<1>2. f \in [inbox \cup Fresh -> Clients]  BY <1>1, Fields
<1>3. \A m, n \in inbox \cup Fresh : m.client = n.client => m = n
  BY DEF RequestInv, Fresh
<1>4. \A m, n \in inbox \cup Fresh : f[m] = f[n] => m = n
  BY <1>3
<1> HIDE DEF f
<1>5. f \in Injection(inbox \cup Fresh, Clients)
  BY <1>2, <1>4 DEF Injection, IsInjective
<1> QED  BY <1>5, FiniteAssumption, FS_Injection

(* In the queue: as many as it holds. *)
LEMMA InTheQueue ==
  ASSUME Typed
  PROVE  IsFiniteSet(Queued) /\ Cardinality(Queued) <= QueueSize
<1>1. msgs_q \in Seq(Message) /\ Len(msgs_q) \in Nat /\ Len(msgs_q) <= QueueSize
  BY DEF Typed, TypeOK
<1>2. IsFiniteSet(1 .. Len(msgs_q)) /\ Cardinality(1 .. Len(msgs_q)) = Len(msgs_q)
  BY <1>1, FS_Interval
<1>3. DOMAIN msgs_q = 1 .. Len(msgs_q)  BY <1>1
<1>4. msgs_q \in Surjection(1 .. Len(msgs_q), Queued)
  BY <1>1, <1>3 DEF Surjection, Queued
<1>5. IsFiniteSet(Queued) /\ Cardinality(Queued) <= Len(msgs_q)
  BY <1>2, <1>4, FS_Surjection
<1>6. Cardinality(Queued) \in Nat  BY <1>5, FS_CardinalityType
<1> QED  BY <1>1, <1>5, <1>6, Names

(* In the hands of handlers: one each. *)
LEMMA InTheHands ==
  ASSUME Typed
  PROVE  IsFiniteSet(Held) /\ Cardinality(Held) <= Cardinality(Workers)
<1>1. hand \in [Workers -> Message \cup {NoMsg}]  BY DEF Typed, TypeOK
<1>2. hand \in Surjection(Workers, Held)  BY <1>1 DEF Surjection, Held
<1> QED  BY <1>2, FiniteAssumption, FS_Surjection

(* A union is not larger than its parts together. *)
LEMMA UnionBound ==
  ASSUME NEW S, NEW T, IsFiniteSet(S), IsFiniteSet(T)
  PROVE  /\ IsFiniteSet(S \cup T)
         /\ Cardinality(S \cup T) <= Cardinality(S) + Cardinality(T)
<1>1. IsFiniteSet(S \cap T)  BY FS_Intersection
<1>2. /\ Cardinality(S) \in Nat /\ Cardinality(T) \in Nat
      /\ Cardinality(S \cap T) \in Nat
  BY <1>1, FS_CardinalityType
<1>3. /\ IsFiniteSet(S \cup T)
      /\ Cardinality(S \cup T) =
            Cardinality(S) + Cardinality(T) - Cardinality(S \cap T)
  BY FS_Union
<1> QED  BY <1>2, <1>3

LEMMA Bounded == IInv => RamfsBounded
<1> SUFFICES ASSUME IInv PROVE RamfsBounded
  OBVIOUS
<1> DEFINE A == inbox \cup Fresh
           B == A \cup Queued
           C == B \cup Held
           P == files \cap Removable
<1>1. IsFiniteSet(A) /\ Cardinality(A) <= Cardinality(Clients)
  BY AtTheDoor DEF IInv
<1>2. IsFiniteSet(Queued) /\ Cardinality(Queued) <= QueueSize
  BY InTheQueue DEF IInv
<1>3. IsFiniteSet(Held) /\ Cardinality(Held) <= Cardinality(Workers)
  BY InTheHands DEF IInv
<1>4. P \in SUBSET C  BY DEF IInv, OnTheirWay
<1> HIDE DEF A, P
<1>5. IsFiniteSet(B) /\ Cardinality(B) <= Cardinality(A) + Cardinality(Queued)
  BY <1>1, <1>2, UnionBound
<1> HIDE DEF B
<1>6. IsFiniteSet(C) /\ Cardinality(C) <= Cardinality(B) + Cardinality(Held)
  BY <1>3, <1>5, UnionBound
<1> HIDE DEF C
<1>7. IsFiniteSet(P) /\ Cardinality(P) <= Cardinality(C)
  BY <1>4, <1>6, FS_Subset
<1>8. /\ Cardinality(A) \in Nat /\ Cardinality(B) \in Nat
      /\ Cardinality(C) \in Nat /\ Cardinality(P) \in Nat
      /\ Cardinality(Queued) \in Nat /\ Cardinality(Held) \in Nat
      /\ Cardinality(Clients) \in Nat /\ Cardinality(Workers) \in Nat
  BY <1>1, <1>2, <1>3, <1>5, <1>6, <1>7, FiniteAssumption, FS_CardinalityType
<1>9. Cardinality(P) <= Cardinality(Clients) + QueueSize + Cardinality(Workers)
  BY <1>1, <1>2, <1>3, <1>5, <1>6, <1>7, <1>8, Names
<1> QED  BY <1>9 DEF RamfsBounded, P

-----------------------------------------------------------------------------
LEMMA InitIInv == Init => IInv
BY Names DEF Init, IInv, Typed, TypeOK, ControlInv, RequestInv, OnTheirWay

LEMMA NextIInv == IInv /\ [Next]_vars => IInv'
BY NextTyped, NextRequest, NextOnTheirWay DEF IInv

(* The types of InferSim, one request per decoder, and no picture orphaned *)
(* in any reachable state.                                                 *)
THEOREM NothingOrphaned == Spec => []IInv
BY InitIInv, NextIInv, PTL DEF Spec

(* However slow the handlers and however many pictures, the removable ones *)
(* on the ramfs are at most one per decoder, a queue full and one per      *)
(* handler: queue.Queue and the order of put and send hold decoders back.  *)
THEOREM QueueBoundsRamfs == Spec => []RamfsBounded
BY NothingOrphaned, Bounded, PTL


-----------------------------------------------------------------------------
(* What zmq_server has taken from the socket and not put in the queue. *)
Taken == IF spc \in {"put", "gone"} THEN {msg} ELSE {}

(* Every step of the program is one of the service, or none. *)
LEMMA NextService == Typed /\ RequestInv /\ [Next]_vars => [Service!Next]_Service!vars
<1> SUFFICES ASSUME Typed, RequestInv, [Next]_vars
             PROVE  [Service!Next]_Service!vars
  OBVIOUS
<1> DEFINE pending == inbox \cup Taken
<1>t. /\ inbox \subseteq Message
      /\ msg \in Message \cup {NoMsg}
      /\ msg # NoMsg <=> spc # "recv"
      /\ spc \in {"recv", "put", "send", "gone"}
      /\ hand \in [Workers -> Message \cup {NoMsg}]
  BY DEF Typed, TypeOK, ControlInv
<1>m. /\ Service!Message = Message /\ Service!Removable = Removable
      /\ Service!Kinds = Kinds
  BY DEF Service!Message, Service!Removable, Service!Kinds, Message, Removable,
         Kinds
<1>v. UNCHANGED <<files, sent, waiting, pending, msgs_q, hand>>
         => UNCHANGED Service!vars
  BY DEF Service!vars, Taken
<1> USE Names
<1>1. ASSUME NEW c \in Clients, NEW k \in Kinds, ClientSubmit(c, k)
      PROVE  Service!Submit(c, k)
  BY <1>1 DEF ClientSubmit, Service!Submit
<1>2. ASSUME NEW n \in inbox, Recv(n) \/ RecvRaises(n)
      PROVE  UNCHANGED Service!vars
  <2>1. spc = "recv" /\ spc' \in {"put", "gone"} /\ n \in inbox /\ msg' = n
        /\ inbox' = inbox \ {n}
        /\ UNCHANGED <<files, sent, waiting, msgs_q, hand>>
    BY <1>2 DEF Recv, RecvRaises, ServerGoto
  <2>2. pending' = pending  BY <2>1 DEF Taken
  <2> QED  BY <2>1, <2>2, <1>v
<1>3. ASSUME Put PROVE Service!Accept(msg) /\ msg \in Message
  <2>1. spc = "put" /\ spc' = "send" /\ msgs_q' = Append(msgs_q, msg)
        /\ UNCHANGED <<files, sent, waiting, inbox, hand>>
    BY <1>3 DEF Put, ServerGoto, clientVars
  <2>2. msg \notin inbox  BY <2>1 DEF RequestInv
  <2> QED  BY <2>1, <2>2, <1>t DEF Service!Accept
<1>4. ASSUME Send PROVE Service!Acknowledge(msg.client) /\ msg.client \in Clients
  <2>1. spc = "send" /\ spc' = "recv" /\ waiting' = waiting \ {msg.client}
        /\ UNCHANGED <<files, sent, inbox, msgs_q, hand>>
    BY <1>4 DEF Send, ServerGoto
  <2>2. msg \in Message  BY <2>1, <1>t
  <2>3. msg.client \in waiting /\ \A m \in inbox : m.client # msg.client
    BY <2>1 DEF RequestInv
  <2> QED  BY <2>1, <2>2, <2>3, Fields DEF Service!Acknowledge
<1>5. ASSUME NEW w \in Workers, Get(w) PROVE Service!Serve(w)
  BY <1>5 DEF Get, Service!Serve, clientVars
<1>6. ASSUME NEW w \in Workers, Handle(w) PROVE Service!Finish(w)
  <2>1. hand[w] \in Message  BY <1>6 DEF Handle, Removable
  <2>2. files' = files \ ({hand[w]} \cap Removable)  BY <1>6 DEF Handle
  <2> QED  BY <1>6, <1>m, <2>1, <2>2 DEF Handle, Service!Finish
<1>7. ASSUME NEW w \in Workers, HandleRaises(w) PROVE Service!Finish(w)
  <2>1. files' = files \ ({hand[w]} \cap Removable)
    BY <1>7 DEF HandleRaises, clientVars
  <2> QED  BY <1>7, <1>m, <2>1 DEF HandleRaises, clientVars, Service!Finish
<1>8. CASE UNCHANGED vars
  <2>1. UNCHANGED <<files, sent, waiting, pending, msgs_q, hand>>
    BY <1>8 DEF vars, Taken
  <2> QED  BY <2>1, <1>v
<1> QED
  BY <1>1, <1>2, <1>3, <1>4, <1>5, <1>6, <1>7, <1>8, <1>m
  DEF Next, ServerStep, WorkerStep, Service!Next

(* infer_sim does what a picture consumer promises: it acknowledges only   *)
(* what it has queued, serves in order, and a handler removes only the     *)
(* picture it holds.                                                       *)
THEOREM Implements == Spec => ImplementsService
<1>1. Init => Service!Init
  BY DEF Init, Service!Init
<1>2. Typed /\ RequestInv /\ [Next]_vars => [Service!Next]_Service!vars
  BY NextService
<1> QED  BY <1>1, <1>2, NothingOrphaned, PTL
         DEF Spec, ImplementsService, Service!Spec, IInv


-----------------------------------------------------------------------------
(* Where the program stands still. *)

(* A handler that is gone has put its message down, and a decoder that     *)
(* waits has a request at the socket or with zmq_server.                   *)
EndInv == /\ \A w \in gone : hand[w] = NoMsg
          /\ \A c \in waiting : \/ \E m \in inbox : m.client = c
                                \/ spc # "recv" /\ msg.client = c

LEMMA NextEnd == Typed /\ EndInv /\ [Next]_vars => EndInv'
<1> SUFFICES ASSUME Typed, EndInv, [Next]_vars PROVE EndInv'
  OBVIOUS
<1> USE DEF EndInv
<1>t. gone \subseteq Workers /\ hand \in [Workers -> Message \cup {NoMsg}]
  BY DEF Typed, TypeOK
<1>1. ASSUME NEW c \in Clients, NEW k \in Kinds, ClientSubmit(c, k)
      PROVE  EndInv'
  <2> DEFINE new == [client |-> c, num |-> sent[c] + 1, kind |-> k]
  <2>1. /\ waiting' = waiting \cup {c} /\ inbox' = inbox \cup {new} /\ new.client = c
        /\ UNCHANGED <<spc, msg, hand, gone>>
    BY <1>1 DEF ClientSubmit
  <2> HIDE DEF new
  <2> QED  BY <2>1
<1>2. ASSUME NEW m \in inbox, Recv(m) \/ RecvRaises(m) PROVE EndInv'
  <2>1. /\ spc = "recv" /\ spc' # "recv" /\ inbox' = inbox \ {m} /\ msg' = m
        /\ UNCHANGED <<waiting, hand, gone>>
    BY <1>2 DEF Recv, RecvRaises, ServerGoto
  <2> QED  BY <2>1
<1>3. CASE Put
  BY <1>3 DEF Put, ServerGoto, clientVars
<1>4. CASE Send
  <2>1. /\ waiting' = waiting \ {msg.client} /\ UNCHANGED <<inbox, hand, gone>>
    BY <1>4 DEF Send, ServerGoto
  <2> QED  BY <2>1
<1>5. ASSUME NEW w \in Workers, Get(w) PROVE EndInv'
  BY <1>5, <1>t DEF Get, clientVars
<1>6. ASSUME NEW w \in Workers, Handle(w) \/ HandleRaises(w) PROVE EndInv'
  <2>1. /\ hand' = [hand EXCEPT ![w] = NoMsg]
        /\ gone' \subseteq gone \cup {w} /\ UNCHANGED <<waiting, inbox, spc, msg>>
    BY <1>6 DEF Handle, HandleRaises, clientVars
  <2>2. \A v \in Workers : hand'[v] = IF v = w THEN NoMsg ELSE hand[v]
    BY <1>t, <2>1
  <2> QED  BY <1>t, <2>1, <2>2
<1>7. CASE UNCHANGED vars
  BY <1>7 DEF vars
<1> QED
  BY <1>1, <1>2, <1>3, <1>4, <1>5, <1>6, <1>7 DEF Next, ServerStep, WorkerStep

LEMMA StillIsDone == IInv /\ EndInv => StillMeansDone
<1> SUFFICES ASSUME IInv, EndInv, StandsStill, spc # "gone"
             PROVE  \/ gone = Workers /\ (waiting = {} \/ Len(msgs_q) = QueueSize)
                    \/ waiting = {} /\ files \cap Removable = {}
  BY DEF StillMeansDone
<1>1. \/ spc = "recv" /\ inbox = {}
      \/ spc = "put" /\ Len(msgs_q) = QueueSize
  BY DEF StandsStill, ServerBlocked
<1>2. spc = "recv" /\ inbox = {} => waiting = {}
  BY DEF EndInv
<1>3. CASE gone = Workers
  BY <1>1, <1>2, <1>3
<1>4. CASE gone # Workers
  <2>1. gone \subseteq Workers /\ QueueSize > 0
    BY SizesAssumption DEF IInv, Typed, TypeOK
  <2>2. PICK w \in Workers : w \notin gone  BY <1>4, <2>1
  <2>3. msgs_q = <<>>  BY <2>2 DEF StandsStill, WorkerBlocked
  <2>4. spc = "recv" /\ inbox = {}  BY <1>1, <2>1, <2>3
  <2>5. \A v \in Workers : hand[v] = NoMsg
    BY DEF StandsStill, WorkerBlocked, EndInv
  <2>6. inbox \cup Fresh \cup Queued \cup Held \subseteq {NoMsg}
    BY <2>3, <2>4, <2>5 DEF Fresh, Queued, Held
  <2>7. files \cap Removable = {}
    BY <2>6, Names DEF IInv, OnTheirWay, Removable
  <2> QED  BY <1>2, <2>4, <2>7
<1> QED  BY <1>3, <1>4

(* StillMeansDone, for any decoders, handlers and queue size: a full queue *)
(* and blocked threads never hold each other up, and without an exception  *)
(* the program stops only with every decoder answered and every picture    *)
(* removed.                                                                *)
THEOREM StandsStillDone == Spec => []StillMeansDone
<1>1. Init => IInv /\ EndInv
  BY InitIInv DEF Init, EndInv
<1>2. IInv /\ EndInv /\ [Next]_vars => (IInv /\ EndInv)'
  BY NextIInv, NextEnd DEF IInv
<1> QED  BY <1>1, <1>2, StillIsDone, PTL DEF Spec

-----------------------------------------------------------------------------
(* How long the program runs. *)
LEMMA Sums ==
  ASSUME NEW s \in Nat, NEW h \in Nat, NEW i \in Nat, NEW q \in Nat,
         NEW s1 \in Nat, NEW h1 \in Nat, NEW i1 \in Nat, NEW q1 \in Nat
  PROVE  LET old == s + h + 5 * i + 2 * q
             new == s1 + h1 + 5 * i1 + 2 * q1
         IN  /\ old \in Nat
             /\ s = 0 /\ s1 <= 4 /\ h1 = h /\ i = i1 + 1 /\ q1 = q => new < old
             /\ s = 4 /\ s1 = 1 /\ h1 = h /\ i1 = i /\ q1 = q + 1 => new < old
             /\ s = 1 /\ s1 = 0 /\ h1 = h /\ i1 = i /\ q1 = q => new < old
             /\ s1 = s /\ h1 = h + 1 /\ i1 = i /\ q = q1 + 1 => new < old
             /\ s1 = s /\ h = h1 + 1 /\ i1 = i /\ q1 = q => new < old
             /\ s1 = s /\ h1 = h /\ i1 <= i + 1 /\ q1 = q => new <= old + 5
OBVIOUS

(* The terms of ToGo are numbers. *)
TermsAreNumbers == /\ ServerLeft \in Nat /\ HandsLeft \in Nat
                   /\ Cardinality(inbox) \in Nat /\ Len(msgs_q) \in Nat

LEMMA Terms == Typed /\ IsFiniteSet(inbox) => TermsAreNumbers
<1> SUFFICES ASSUME Typed, IsFiniteSet(inbox) PROVE TermsAreNumbers
  OBVIOUS
<1>1. ServerLeft \in Nat  BY DEF Typed, TypeOK, ServerLeft
<1>2. HandsLeft \in Nat
  <2>1. IsFiniteSet({w \in Workers : hand[w] # NoMsg})
    BY FiniteAssumption, FS_Subset
  <2> QED  BY <2>1, FS_CardinalityType DEF HandsLeft
<1>3. Cardinality(inbox) \in Nat /\ Len(msgs_q) \in Nat
  BY FS_CardinalityType DEF Typed, TypeOK
<1> QED  BY <1>1, <1>2, <1>3 DEF TermsAreNumbers

(* What ToGo's terms depend on. *)
LEMMA Kept == /\ spc' = spc => ServerLeft' = ServerLeft
              /\ hand' = hand => HandsLeft' = HandsLeft
BY DEF ServerLeft, HandsLeft

(* A handler that takes a message up, or puts it down, is one more, or one *)
(* less, that holds one.                                                   *)
LEMMA TakenUp ==
  ASSUME Typed, NEW w \in Workers, NEW m, hand[w] = NoMsg, m # NoMsg,
         hand' = [hand EXCEPT ![w] = m]
  PROVE  HandsLeft' = HandsLeft + 1
<1> DEFINE busy == {v \in Workers : hand[v] # NoMsg}
<1>1. IsFiniteSet(busy)  BY FiniteAssumption, FS_Subset
<1>2. w \notin busy  OBVIOUS
<1>3. {v \in Workers : hand'[v] # NoMsg} = busy \cup {w}  BY DEF Typed, TypeOK
<1> QED  BY <1>1, <1>2, <1>3, FS_AddElement DEF HandsLeft

LEMMA PutDown ==
  ASSUME Typed, NEW w \in Workers, hand[w] # NoMsg,
         hand' = [hand EXCEPT ![w] = NoMsg]
  PROVE  HandsLeft = HandsLeft' + 1
<1> DEFINE busy == {v \in Workers : hand'[v] # NoMsg}
<1>1. IsFiniteSet(busy)  BY FiniteAssumption, FS_Subset
<1>2. w \notin busy  BY DEF Typed, TypeOK
<1>3. {v \in Workers : hand[v] # NoMsg} = busy \cup {w}  BY DEF Typed, TypeOK
<1> QED  BY <1>1, <1>2, <1>3, FS_AddElement DEF HandsLeft

LEMMA StaysFinite ==
  ASSUME Typed, IsFiniteSet(inbox), [Next]_vars
  PROVE  IsFiniteSet(inbox')
<1>1. \/ inbox' = inbox
      \/ \E m : inbox' = inbox \cup {m}
      \/ \E m : inbox' = inbox \ {m}
  BY DEF Next, vars, ClientSubmit, ServerStep, Recv, RecvRaises, Put, Send,
         WorkerStep, Get, Handle, HandleRaises, clientVars
<1> QED  BY <1>1, FS_AddElement, FS_RemoveElement

(* Each thread's steps lead on. *)
LEMMA LeadsOn ==
  ASSUME Typed, IsFiniteSet(inbox), TermsAreNumbers, TermsAreNumbers',
         \/ ServerStep \/ \E m \in inbox : RecvRaises(m)
         \/ \E w \in Workers : WorkerStep(w)
  PROVE  ToGo' < ToGo
<1>0. /\ ServerLeft \in Nat /\ ServerLeft' \in Nat
      /\ HandsLeft \in Nat /\ HandsLeft' \in Nat
      /\ Cardinality(inbox) \in Nat /\ Cardinality(inbox)' \in Nat
      /\ Len(msgs_q) \in Nat /\ Len(msgs_q)' \in Nat
  BY DEF TermsAreNumbers
<1>1. ASSUME NEW m \in inbox, Recv(m) \/ RecvRaises(m) PROVE ToGo' < ToGo
  <2>1. ServerLeft = 0 /\ ServerLeft' <= 4
    BY <1>1 DEF Recv, RecvRaises, ServerGoto, ServerLeft
  <2>2. inbox' = inbox \ {m} /\ UNCHANGED <<hand, msgs_q>>
    BY <1>1 DEF Recv, RecvRaises
  <2>3. HandsLeft' = HandsLeft /\ Len(msgs_q)' = Len(msgs_q)  BY <2>2, Kept
  <2>4. Cardinality(inbox)' = Cardinality(inbox) - 1
    BY <2>2, FS_RemoveElement
  <2>5. Cardinality(inbox) = Cardinality(inbox)' + 1  BY <1>0, <2>4
  <2> QED  BY <1>0, <2>1, <2>3, <2>5, Sums DEF ToGo
<1>2. CASE Put
  <2>1. ServerLeft = 4 /\ ServerLeft' = 1
    BY <1>2 DEF Put, ServerGoto, ServerLeft
  <2>2. UNCHANGED <<inbox, hand>>  BY <1>2 DEF Put, clientVars
  <2>3. HandsLeft' = HandsLeft /\ Cardinality(inbox)' = Cardinality(inbox)
    BY <2>2, Kept
  <2>4. Len(msgs_q)' = Len(msgs_q) + 1
    BY <1>2 DEF Put, ServerGoto, Typed, TypeOK, ControlInv
  <2> QED  BY <1>0, <2>1, <2>3, <2>4, Sums DEF ToGo
<1>3. CASE Send
  <2>1. ServerLeft = 1 /\ ServerLeft' = 0
    BY <1>3 DEF Send, ServerGoto, ServerLeft
  <2>2. UNCHANGED <<inbox, msgs_q, hand>>  BY <1>3 DEF Send
  <2>3. /\ HandsLeft' = HandsLeft /\ Cardinality(inbox)' = Cardinality(inbox)
        /\ Len(msgs_q)' = Len(msgs_q)
    BY <2>2, Kept
  <2> QED  BY <1>0, <2>1, <2>3, Sums DEF ToGo
<1>4. ASSUME NEW w \in Workers, Get(w) PROVE ToGo' < ToGo
  <2>1. UNCHANGED <<spc, inbox>>  BY <1>4 DEF Get, clientVars
  <2>2. ServerLeft' = ServerLeft /\ Cardinality(inbox)' = Cardinality(inbox)
    BY <2>1, Kept
  <2>3. msgs_q \in Seq(Message) /\ msgs_q # <<>> /\ msgs_q' = Tail(msgs_q)
    BY <1>4 DEF Get, Typed, TypeOK
  <2>4. Len(msgs_q) = Len(msgs_q)' + 1  BY <2>3
  <2>5. Head(msgs_q) # NoMsg  BY <2>3, Names
  <2>6. HandsLeft' = HandsLeft + 1  BY <1>4, <2>5, TakenUp DEF Get
  <2> QED  BY <1>0, <2>2, <2>4, <2>6, Sums DEF ToGo
<1>5. ASSUME NEW w \in Workers, Handle(w) \/ HandleRaises(w) PROVE ToGo' < ToGo
  <2>1. UNCHANGED <<spc, inbox, msgs_q>>
    BY <1>5 DEF Handle, HandleRaises, clientVars
  <2>2. /\ ServerLeft' = ServerLeft /\ Cardinality(inbox)' = Cardinality(inbox)
        /\ Len(msgs_q)' = Len(msgs_q)
    BY <2>1, Kept
  <2>3. hand[w] # NoMsg /\ hand' = [hand EXCEPT ![w] = NoMsg]
    BY <1>5, Names DEF Handle, HandleRaises, Removable
  <2>4. HandsLeft = HandsLeft' + 1  BY <2>3, PutDown
  <2> QED  BY <1>0, <2>2, <2>4, Sums DEF ToGo
<1> QED  BY <1>1, <1>2, <1>3, <1>4, <1>5 DEF ServerStep, WorkerStep

(* A picture adds its five steps. *)
LEMMA SubmitAdds ==
  ASSUME Typed, IsFiniteSet(inbox), TermsAreNumbers, TermsAreNumbers',
         NEW c \in Clients, NEW k \in Kinds, ClientSubmit(c, k)
  PROVE  sent' # sent /\ ToGo' <= ToGo + 5
<1>0. /\ ServerLeft \in Nat /\ ServerLeft' \in Nat
      /\ HandsLeft \in Nat /\ HandsLeft' \in Nat
      /\ Cardinality(inbox) \in Nat /\ Cardinality(inbox)' \in Nat
      /\ Len(msgs_q) \in Nat /\ Len(msgs_q)' \in Nat
  BY DEF TermsAreNumbers
<1>1. /\ ServerLeft' = ServerLeft /\ HandsLeft' = HandsLeft
      /\ Len(msgs_q)' = Len(msgs_q)
  BY ClientSubmit(c, k), Kept DEF ClientSubmit
<1>2. sent' # sent
  <2>1. sent \in [Clients -> 0 .. MaxRequests] /\ sent' = [sent EXCEPT ![c] = @ + 1]
    BY ClientSubmit(c, k) DEF ClientSubmit, Typed, TypeOK
  <2>2. sent[c] \in Nat /\ sent'[c] = sent[c] + 1  BY <2>1, Names
  <2> QED  BY <2>2
<1>3. PICK m : inbox' = inbox \cup {m}
  BY ClientSubmit(c, k) DEF ClientSubmit
<1>4. Cardinality(inbox)' <= Cardinality(inbox) + 1
  <2>1. \/ Cardinality(inbox') = Cardinality(inbox)
        \/ Cardinality(inbox') = Cardinality(inbox) + 1
    BY <1>3, FS_AddElement
  <2> QED  BY <1>0, <2>1
<1>5. ToGo' <= ToGo + 5  BY <1>0, <1>1, <1>4, Sums DEF ToGo
<1> QED  BY <1>2, <1>5

LEMMA NextToGo ==
  ASSUME Typed, IsFiniteSet(inbox), TermsAreNumbers, TermsAreNumbers', [Next]_vars
  PROVE  [/\ ToGo \in Nat /\ ToGo' \in Nat
          /\ \/ ToGo' < ToGo
             \/ sent' # sent /\ ToGo' <= ToGo + 5]_vars
<1>0. /\ ServerLeft \in Nat /\ ServerLeft' \in Nat
      /\ HandsLeft \in Nat /\ HandsLeft' \in Nat
      /\ Cardinality(inbox) \in Nat /\ Cardinality(inbox)' \in Nat
      /\ Len(msgs_q) \in Nat /\ Len(msgs_q)' \in Nat
  BY DEF TermsAreNumbers
<1>1. ToGo \in Nat  BY <1>0, Sums DEF ToGo
<1>2. ToGo' \in Nat  BY <1>0, Sums DEF ToGo
<1>3. ASSUME NEW c \in Clients, NEW k \in Kinds, ClientSubmit(c, k)
      PROVE  sent' # sent /\ ToGo' <= ToGo + 5
  BY <1>3, SubmitAdds
<1>4. ASSUME \/ ServerStep \/ \E m \in inbox : RecvRaises(m)
             \/ \E w \in Workers : WorkerStep(w)
      PROVE  ToGo' < ToGo
  BY <1>4, LeadsOn
<1>5. CASE UNCHANGED vars  BY <1>5
<1> QED  BY <1>1, <1>2, <1>3, <1>4, <1>5 DEF Next

(* NearsEnd, for any decoders, handlers and queue size: between two        *)
(* pictures the program takes a bounded number of steps, whoever is        *)
(* scheduled; StandsStillDone says what it has done where they end.        *)
THEOREM ComesToEnd == Spec => NearsEnd
<1>1. Init => Typed /\ IsFiniteSet(inbox)
  BY InitIInv, FS_EmptySet DEF Init, IInv
<1>2. Typed /\ IsFiniteSet(inbox) /\ [Next]_vars => (Typed /\ IsFiniteSet(inbox))'
  BY NextTyped, StaysFinite
<1>3. (Typed /\ IsFiniteSet(inbox) => TermsAreNumbers)'
  BY Terms, PTL
<1>4. Typed /\ IsFiniteSet(inbox) /\ [Next]_vars
        => [/\ ToGo \in Nat /\ ToGo' \in Nat
            /\ \/ ToGo' < ToGo
               \/ sent' # sent /\ ToGo' <= ToGo + 5]_vars
  BY <1>2, <1>3, Terms, NextToGo
<1> QED  BY <1>1, <1>2, <1>4, PTL DEF Spec, NearsEnd

=============================================================================
