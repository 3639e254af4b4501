---------------------------- MODULE PictureServer ----------------------------
(***************************************************************************)
(* demo_process_picture.c: the main thread runs thread_recv (a ZeroMQ REP  *)
(* socket on tcp://*:8003), threadNum threads run thread_proc, and they    *)
(* share a list, a flag `sign`, a mutex and a condition variable. SIGINT   *)
(* and SIGTERM run signal_handler on whichever thread the kernel picks;    *)
(* that thread is suspended until the handler returns.                     *)
(*                                                                         *)
(* The decoders (save_yuv in the demo_*_decoding.c programs) appear as     *)
(* Clients: each saves a picture, sends its name on a REQ socket and       *)
(* waits. A message stands for the JSON text and for the file it names;    *)
(* its kind says whether cJSON can parse the text (a quote in a file name  *)
(* is copied into the JSON unescaped).                                     *)
(***************************************************************************)
EXTENDS Naturals, Sequences, FiniteSets

CONSTANTS Clients,      (* decoder processes                               *)
          Workers,      (* the threadNum threads of thread_proc            *)
          Main,         (* the main thread, which runs thread_recv         *)
          Nobody,       (* no thread, no client                            *)
          Blank,        (* a msg_t of zeros, queued after a failed recv    *)
          NoMsg,        (* an empty hand                                   *)
          MaxRequests,  (* bound: pictures per client                      *)
          MaxSignals,   (* bound: SIGINT or SIGTERM received, not nested   *)
          MaxSpurious   (* bound: spurious wake-ups of pthread_cond_wait   *)

VARIABLES files,     (* pictures on the ramfs                              *)
          sent,      (* per client: pictures submitted                     *)
          waiting,   (* clients blocked in zmq_recv for the reply          *)
          inbox,     (* requests that arrived at the REP socket            *)
          peer,      (* client the REP socket owes a reply                 *)
          rpc,       (* where the main thread is                           *)
          cur,       (* thread_recv's local msg                            *)
          list,      (* ctx->list                                          *)
          sign,      (* ctx->sign                                          *)
          exit,      (* ctx->exit                                          *)
          mutex,     (* the thread that holds ctx->mutex, or Nobody        *)
          waiters,   (* threads blocked on ctx->wait                       *)
          wpc,       (* where each worker is                               *)
          hand,      (* thread_proc's local msg                            *)
          hpc,       (* where signal_handler is                            *)
          victim,    (* the thread signal_handler interrupted              *)
          signals,   (* signals received so far                            *)
          spurious   (* spurious wake-ups so far                           *)

clientVars == <<files, sent, waiting, inbox>>
mainVars   == <<peer, rpc, cur>>
shared     == <<list, sign, exit>>
workerVars == <<wpc, hand>>
sigVars    == <<hpc, victim, signals>>
vars == <<files, sent, waiting, inbox, peer, rpc, cur, list, sign, exit,
          mutex, waiters, wpc, hand, hpc, victim, signals, spurious>>

Threads == Workers \cup {Main}

Kinds == {"file", "badjson"}

Message == [client : Clients, num : 1 .. MaxRequests, kind : Kinds]

Removable == {m \in Message : m.kind = "file"}

ASSUME WorkersAssumption == Workers # {} /\ IsFiniteSet(Workers)

ASSUME NamesAssumption == /\ Main \notin Workers
                          /\ Nobody \notin Threads \cup Clients
                          /\ Blank \notin Message
                          /\ NoMsg \notin Message \cup {Blank}

ASSUME BoundsAssumption == /\ MaxRequests \in Nat
                           /\ MaxSignals \in Nat
                           /\ MaxSpurious \in Nat

Init == /\ files = {}
        /\ sent = [c \in Clients |-> 0]
        /\ waiting = {}
        /\ inbox = {}
        /\ peer = Nobody
        /\ rpc = "check"
        /\ cur = NoMsg
        /\ list = <<>>
        /\ sign = 0
        /\ exit = 0
        /\ mutex = Nobody
        /\ waiters = {}
        /\ wpc = [w \in Workers |-> "check"]
        /\ hand = [w \in Workers |-> NoMsg]
        /\ hpc = "idle"
        /\ victim = Nobody
        /\ signals = 0
        /\ spurious = 0

-----------------------------------------------------------------------------
(* The decoders: save_yuv writes the file, then sends its name. *)

ClientSubmit(c, kind) ==
    LET m == [client |-> c, num |-> sent[c] + 1, kind |-> kind]
    IN  /\ c \notin waiting
        /\ sent[c] < MaxRequests
        /\ sent' = [sent EXCEPT ![c] = @ + 1]
        /\ files' = files \cup {m}
        /\ inbox' = inbox \cup {m}
        /\ waiting' = waiting \cup {c}
        /\ UNCHANGED <<mainVars, shared, mutex, waiters, workerVars, sigVars,
                       spurious>>

-----------------------------------------------------------------------------
(* thread_recv and the end of main. *)

MainGoto(from, to) == /\ victim # Main
                      /\ rpc = from
                      /\ rpc' = to

(* while (ctx->exit == 0) *)
RecvCheck == /\ MainGoto("check", IF exit = 0 THEN "recv" ELSE "close")
             /\ UNCHANGED <<clientVars, peer, cur, shared, mutex, waiters,
                            workerVars, sigVars, spurious>>

(* Mutant: the reply goes out before the message is pushed. *)
ReplyAtOnce(m) == /\ MainGoto("recv", "lock")
                  /\ m \in inbox
                  /\ inbox' = inbox \ {m}
                  /\ cur' = m
                  /\ peer' = Nobody
                  /\ waiting' = waiting \ {m.client}
                  /\ UNCHANGED <<files, sent, shared, mutex, waiters,
                                 workerVars, sigVars, spurious>>

(* zmq_recv returns a request; the socket now owes its sender a reply. *)
RecvRequest(m) == /\ MainGoto("recv", "lock")
                  /\ m \in inbox
                  /\ inbox' = inbox \ {m}
                  /\ cur' = m
                  /\ peer' = m.client
                  /\ UNCHANGED <<files, sent, waiting, shared, mutex, waiters,
                                 workerVars, sigVars, spurious>>

RecvLock == /\ MainGoto("lock", "push")
            /\ mutex = Nobody
            /\ mutex' = Main
            /\ UNCHANGED <<clientVars, peer, cur, shared, waiters, workerVars,
                           sigVars, spurious>>

(* Mutant: the push does not signal. *)
SignalNone == UNCHANGED waiters

(* pthread_cond_signal: one thread that waits, if there is one, stops waiting. *)
SignalOne == IF waiters = {}
             THEN UNCHANGED waiters
             ELSE \E w \in waiters : waiters' = waiters \ {w}

(* Mutant: a message is not pushed while an earlier one is still signalled. *)
PushIfUnsigned == /\ MainGoto("push", "unlock")
                  /\ list' = IF sign = 0 THEN Append(list, cur) ELSE list
                  /\ sign' = 1
                  /\ SignalOne
                  /\ cur' = NoMsg
                  /\ UNCHANGED <<clientVars, peer, exit, mutex, workerVars,
                                 sigVars, spurious>>

(* Mutant: sign counts the pushes. *)
PushCounting == /\ MainGoto("push", "unlock")
                /\ list' = Append(list, cur)
                /\ sign' = sign + 1
                /\ SignalOne
                /\ cur' = NoMsg
                /\ UNCHANGED <<clientVars, peer, exit, mutex, workerVars,
                               sigVars, spurious>>

RecvPush == /\ MainGoto("push", "unlock")
            /\ list' = Append(list, cur)
            /\ sign' = 1
            /\ SignalOne
            /\ cur' = NoMsg
            /\ UNCHANGED <<clientVars, peer, exit, mutex, workerVars, sigVars,
                           spurious>>

RecvUnlock == /\ MainGoto("unlock", "send")
              /\ mutex' = Nobody
              /\ UNCHANGED <<clientVars, peer, cur, shared, waiters,
                             workerVars, sigVars, spurious>>

(* zmq_send: fails, and changes nothing, when no request was received. *)
RecvSend == /\ MainGoto("send", "check")
            /\ waiting' = waiting \ {peer}
            /\ peer' = Nobody
            /\ UNCHANGED <<files, sent, inbox, cur, shared, mutex, waiters,
                           workerVars, sigVars, spurious>>

(* zmq_close, zmq_ctx_destroy: requests still to come are never received. *)
RecvClose == /\ MainGoto("close", "join")
             /\ UNCHANGED <<clientVars, peer, cur, shared, mutex, waiters,
                            workerVars, sigVars, spurious>>

MainJoin == /\ MainGoto("join", "done")
            /\ \A w \in Workers : wpc[w] = "done"
            /\ UNCHANGED <<clientVars, peer, cur, shared, mutex, waiters,
                           workerVars, sigVars, spurious>>

MainStep == \/ RecvCheck \/ \E m \in inbox : RecvRequest(m)
            \/ RecvLock \/ RecvPush \/ RecvUnlock \/ RecvSend
            \/ RecvClose \/ MainJoin

-----------------------------------------------------------------------------
(* thread_proc. *)

WorkerGoto(w, from, to) == /\ victim # w
                           /\ wpc[w] = from
                           /\ wpc' = [wpc EXCEPT ![w] = to]

ProcCheck(w) == /\ WorkerGoto(w, "check", IF exit = 0 THEN "lock" ELSE "done")
                /\ UNCHANGED <<clientVars, mainVars, shared, mutex, waiters,
                               hand, sigVars, spurious>>

ProcLock(w) == /\ WorkerGoto(w, "lock", "locked")
               /\ mutex = Nobody
               /\ mutex' = w
               /\ UNCHANGED <<clientVars, mainVars, shared, waiters, hand,
                              sigVars, spurious>>

(* The list is empty and nothing was signalled: pthread_cond_wait. *)
ProcWait(w) == /\ WorkerGoto(w, "locked", "wait")
               /\ list = <<>>
               /\ sign = 0
               /\ waiters' = waiters \cup {w}
               /\ mutex' = Nobody
               /\ UNCHANGED <<clientVars, mainVars, shared, hand, sigVars,
                              spurious>>

(* Mutant: `continue` without pthread_mutex_unlock. *)
ClearSignLocked(w) == /\ WorkerGoto(w, "locked", "check")
                      /\ list = <<>>
                      /\ sign # 0
                      /\ sign' = 0
                      /\ UNCHANGED <<clientVars, mainVars, list, exit, mutex,
                                     waiters, hand, sigVars, spurious>>

(* The list is empty but sign is set: clear it, unlock and look again. *)
ProcClearSign(w) == /\ WorkerGoto(w, "locked", "check")
                    /\ list = <<>>
                    /\ sign # 0
                    /\ sign' = 0
                    /\ mutex' = Nobody
                    /\ UNCHANGED <<clientVars, mainVars, list, exit, waiters,
                                   hand, sigVars, spurious>>

SpuriousWake(w) == /\ w \in waiters
                   /\ spurious < MaxSpurious
                   /\ spurious' = spurious + 1
                   /\ waiters' = waiters \ {w}
                   /\ UNCHANGED <<clientVars, mainVars, shared, mutex,
                                  workerVars, sigVars>>

(* pthread_cond_wait takes the mutex again before it returns. *)
ProcWake(w) == /\ WorkerGoto(w, "wait", "woken")
               /\ w \notin waiters
               /\ mutex = Nobody
               /\ mutex' = w
               /\ UNCHANGED <<clientVars, mainVars, shared, waiters, hand,
                              sigVars, spurious>>

ProcWoken(w) == /\ WorkerGoto(w, "woken", "check")
                /\ sign' = 0
                /\ mutex' = Nobody
                /\ UNCHANGED <<clientVars, mainVars, list, exit, waiters, hand,
                               sigVars, spurious>>

(* Mutant: front without pop_front. *)
TakeNoPop(w) == /\ WorkerGoto(w, "locked", "work")
                /\ list # <<>>
                /\ hand' = [hand EXCEPT ![w] = Head(list)]
                /\ mutex' = Nobody
                /\ UNCHANGED <<clientVars, mainVars, shared, waiters, sigVars,
                               spurious>>

(* Mutant: front with pop_back. *)
TakePopBack(w) == /\ WorkerGoto(w, "locked", "work")
                  /\ list # <<>>
                  /\ hand' = [hand EXCEPT ![w] = Head(list)]
                  /\ list' = SubSeq(list, 1, Len(list) - 1)
                  /\ mutex' = Nobody
                  /\ UNCHANGED <<clientVars, mainVars, sign, exit, waiters,
                                 sigVars, spurious>>

(* front, pop_front, unlock. *)
ProcTake(w) == /\ WorkerGoto(w, "locked", "work")
               /\ list # <<>>
               /\ hand' = [hand EXCEPT ![w] = Head(list)]
               /\ list' = Tail(list)
               /\ mutex' = Nobody
               /\ UNCHANGED <<clientVars, mainVars, sign, exit, waiters,
                              sigVars, spurious>>

(* Parse the message and remove the file it names; skip what does not parse. *)
ProcRemove(w) == /\ WorkerGoto(w, "work", "check")
                 /\ files' = files \ ({hand[w]} \cap Removable)
                 /\ hand' = [hand EXCEPT ![w] = NoMsg]
                 /\ UNCHANGED <<sent, waiting, inbox, mainVars, shared, mutex,
                                waiters, sigVars, spurious>>

WorkerStep(w) == \/ ProcCheck(w) \/ ProcLock(w) \/ ProcWait(w)
                 \/ ProcClearSign(w) \/ ProcWake(w) \/ ProcWoken(w)
                 \/ ProcTake(w) \/ ProcRemove(w)

-----------------------------------------------------------------------------
(* signal_handler, on the thread it interrupted. *)

(* The process is still there, and so is the thread. *)
Running(t) == rpc # "done" /\ (t \in Workers => wpc[t] # "done")

DeliverSignal(t) == /\ hpc = "idle"
                    /\ Running(t)
                    /\ signals < MaxSignals
                    /\ signals' = signals + 1
                    /\ hpc' = "exit"
                    /\ victim' = t
                    /\ UNCHANGED <<clientVars, mainVars, shared, mutex,
                                   waiters, workerVars, spurious>>

HandlerExit == /\ hpc = "exit"
               /\ hpc' = "lock"
               /\ exit' = 1
               /\ UNCHANGED <<clientVars, mainVars, list, sign, mutex, waiters,
                              workerVars, victim, signals, spurious>>

(* The mutex is not recursive: if the interrupted thread holds it, never. *)
HandlerLock == /\ hpc = "lock"
               /\ mutex = Nobody
               /\ mutex' = victim
               /\ hpc' = "broadcast"
               /\ UNCHANGED <<clientVars, mainVars, shared, waiters,
                              workerVars, victim, signals, spurious>>

HandlerBroadcast == /\ hpc = "broadcast"
                    /\ sign' = 1
                    /\ waiters' = {}
                    /\ hpc' = "unlock"
                    /\ UNCHANGED <<clientVars, mainVars, list, exit, mutex,
                                   workerVars, victim, signals, spurious>>

(* Mutant: the handler does not unlock. *)
ReturnLocked == /\ hpc = "unlock"
                /\ hpc' = "idle"
                /\ victim' = Nobody
                /\ \/ UNCHANGED <<rpc, cur>>
                   \/ /\ victim = Main
                      /\ rpc = "recv"
                      /\ rpc' = "lock"
                      /\ cur' = Blank
                /\ UNCHANGED <<clientVars, peer, shared, mutex, waiters,
                               workerVars, signals, spurious>>

(* zmq_recv fails with EINTR if the main thread was already blocked in it;  *)
(* thread_recv does not look at the result and queues the zeroed msg.       *)
HandlerReturn == /\ hpc = "unlock"
                 /\ mutex' = Nobody
                 /\ hpc' = "idle"
                 /\ victim' = Nobody
                 /\ \/ UNCHANGED <<rpc, cur>>
                    \/ /\ victim = Main
                       /\ rpc = "recv"
                       /\ rpc' = "lock"
                       /\ cur' = Blank
                 /\ UNCHANGED <<clientVars, peer, shared, waiters, workerVars,
                                signals, spurious>>

HandlerStep == HandlerExit \/ HandlerLock \/ HandlerBroadcast \/ HandlerReturn

-----------------------------------------------------------------------------

Next == \/ \E c \in Clients, k \in Kinds : ClientSubmit(c, k)
        \/ MainStep
        \/ \E w \in Workers : WorkerStep(w) \/ SpuriousWake(w)
        \/ \E t \in Threads : DeliverSignal(t)
        \/ HandlerStep

Spec == Init /\ [][Next]_vars

(* Threads and the handler are scheduled; clients, signals and spurious     *)
(* wake-ups may never come.                                                 *)
Fairness == /\ WF_vars(MainStep)
            /\ WF_vars(HandlerStep)
            /\ \A w \in Workers : WF_vars(WorkerStep(w))

FairSpec == Spec /\ Fairness

-----------------------------------------------------------------------------
(* Type invariant. *)
TypeOK == /\ files \subseteq Message
          /\ sent \in [Clients -> 0 .. MaxRequests]
          /\ waiting \subseteq Clients
          /\ inbox \subseteq Message
          /\ peer \in Clients \cup {Nobody}
          /\ rpc \in {"check", "recv", "lock", "push", "unlock", "send",
                      "close", "join", "done"}
          /\ cur \in Message \cup {Blank, NoMsg}
          /\ list \in Seq(Message \cup {Blank})
          /\ sign \in {0, 1}
          /\ exit \in {0, 1}
          /\ mutex \in Threads \cup {Nobody}
          /\ waiters \subseteq Workers
          /\ wpc \in [Workers -> {"check", "lock", "locked", "wait", "woken",
                                  "work", "done"}]
          /\ hand \in [Workers -> Message \cup {Blank, NoMsg}]
          /\ hpc \in {"idle", "exit", "lock", "broadcast", "unlock"}
          /\ victim \in Threads \cup {Nobody}
          /\ signals \in 0 .. MaxSignals
          /\ spurious \in 0 .. MaxSpurious

(* Workers on their way to look at the list. *)
Hunting == {w \in Workers :
              /\ w \notin waiters
              /\ wpc[w] \in {"check", "lock", "locked", "wait", "woken"}}

(* No signal of the condition variable is wasted: as long as no exit was   *)
(* requested, a worker sleeps only if the workers already on their way to  *)
(* the list are as many as the messages in it (pthread_cond_signal after   *)
(* each push_back, the wait under the mutex, and `sign`).                  *)
NoWastedSignal == exit = 0 /\ waiters # {} => Len(list) <= Cardinality(Hunting)

(* The messages the program still has to deal with. *)
Pipeline == inbox \cup {cur} \cup {list[i] : i \in DOMAIN list}
                  \cup {hand[w] : w \in Workers}

(* A well-formed picture is on the ramfs exactly as long as its message is *)
(* somewhere on its way to a worker's remove(): no file is orphaned, and   *)
(* no worker removes a file that is gone.                                  *)
FilesMatchPipeline == files \cap Removable = Pipeline \cap Removable

(* No message is in two places: neither twice in the list, nor in the list *)
(* and in a hand, nor in two hands; so no two workers remove one file.     *)
HeldOnce ==
    /\ \A i, j \in DOMAIN list : list[i] = list[j] /\ i # j => list[i] = Blank
    /\ \A w \in Workers : hand[w] \in Message =>
          /\ hand[w] \notin inbox \cup {cur}
          /\ \A i \in DOMAIN list : list[i] # hand[w]
          /\ \A v \in Workers : v # w => hand[v] # hand[w]
    /\ cur \in Message => cur \notin inbox
    /\ \A i \in DOMAIN list : list[i] \in Message =>
          list[i] \notin inbox \cup {cur}

(* The reply is sent after the push: a decoder that goes on knows that its *)
(* picture is in the list or beyond.                                       *)
AckedIsQueued == \A m \in inbox \cup ({cur} \cap Message) : m.client \in waiting

-----------------------------------------------------------------------------
(* The parts of the inductive invariant the properties above rest on. *)

(* The threads that are between a pthread_mutex_lock and its unlock, in    *)
(* their own code or in the handler they run.                              *)
Inside(t) == \/ t = Main /\ rpc \in {"push", "unlock"}
             \/ t \in Workers /\ wpc[t] \in {"locked", "woken"}

InHandler(t) == t = victim /\ hpc \in {"broadcast", "unlock"}

MutexInv == \A t \in Threads : /\ mutex = t <=> Inside(t) \/ InHandler(t)
                               /\ ~(Inside(t) /\ InHandler(t))

ControlInv == /\ hpc = "idle" <=> victim = Nobody
              /\ cur # NoMsg <=> rpc \in {"lock", "push"}
              /\ peer # Nobody => rpc \in {"lock", "push", "unlock", "send"}
              /\ \A w \in Workers : /\ w \in waiters => wpc[w] = "wait"
                                    /\ wpc[w] = "done" => exit = 1
                                    /\ hand[w] # NoMsg <=> wpc[w] = "work"

(* One outstanding request per client, the one the REP socket will answer. *)
RequestInv == /\ \A m \in inbox : m.client # peer
              /\ \A m, n \in inbox : m.client = n.client => m = n
              /\ cur \in Message => peer = cur.client
              /\ peer # Nobody => peer \in waiting

(* Messages not yet submitted are nowhere. *)
FreshInv == \A m \in files \cup (Pipeline \cap Message) : m.num <= sent[m.client]

IInv == /\ TypeOK /\ MutexInv /\ ControlInv /\ RequestInv /\ FreshInv
        /\ NoWastedSignal /\ FilesMatchPipeline /\ HeldOnce /\ AckedIsQueued

-----------------------------------------------------------------------------
(* The program implements the consumer of PictureService: a message that   *)
(* thread_recv holds but has not pushed is still pending.                  *)
Service == INSTANCE PictureService WITH
              pending <- inbox \cup ({cur} \cap Message),
              backlog <- list,
              serving <- hand

ImplementsService == Service!Spec

(* Every well-formed picture is removed from the ramfs, unless a signal    *)
(* stops the program.                                                      *)
PicturesRemoved == \A m \in Removable : m \in files ~> m \notin files \/ exit = 1

(* Every decoder gets its reply, unless a signal stops the program.        *)
ClientsAcked == \A c \in Clients : c \in waiting ~> c \notin waiting \/ exit = 1

(* The handler interrupted the thread that holds the mutex it needs. *)
SelfDeadlock == hpc = "lock" /\ mutex = victim

(* zmq_recv was entered before, or not interrupted by, the signal. *)
BlockedInRecv == hpc = "idle" /\ rpc = "recv" /\ inbox = {}

(* A worker tested exit before the handler ran and waited after it. *)
Stranded == hpc = "idle" /\ rpc = "join" /\ waiters # {}

(* Every worker that thread_recv's caller joins prints "proc exit!": false, *)
(* see Stranded.                                                            *)
WorkersExit == hpc = "idle" /\ rpc = "join" ~> \A w \in Workers : wpc[w] = "done"

(* After SIGINT or SIGTERM the program ends, or it stops forever in one of *)
(* three ways and in no other.                                             *)
ShutdownOutcome == exit = 1 ~> \/ [](rpc = "done")
                               \/ []SelfDeadlock
                               \/ []BlockedInRecv
                               \/ []Stranded

-----------------------------------------------------------------------------
(* Where a thread cannot go on: it has ended, the handler suspends it, or  *)
(* it is in a call that blocks.                                            *)
MainBlocked == \/ victim = Main \/ rpc = "done"
               \/ rpc = "recv" /\ inbox = {}
               \/ rpc = "lock" /\ mutex # Nobody
               \/ rpc = "join" /\ \E w \in Workers : wpc[w] # "done"

WorkerBlocked(w) == \/ victim = w \/ wpc[w] = "done"
                    \/ wpc[w] = "lock" /\ mutex # Nobody
                    \/ wpc[w] = "wait" /\ (w \in waiters \/ mutex # Nobody)

HandlerBlocked == hpc = "idle" \/ (hpc = "lock" /\ mutex # Nobody)

StandsStill == MainBlocked /\ HandlerBlocked /\ \A w \in Workers : WorkerBlocked(w)

(* The threads never block each other. Where the program stands still and  *)
(* no signal came, it waits for a request, with no decoder unanswered and  *)
(* no picture unremoved; after a signal it has ended, or is in one of the  *)
(* three states above.                                                     *)
StillMeansDone ==
    StandsStill =>
        \/ /\ exit = 0 /\ BlockedInRecv
           /\ waiting = {} /\ files \cap Removable = {}
        \/ /\ exit = 1
           /\ \/ rpc = "done" /\ hpc = "idle"
              \/ SelfDeadlock \/ BlockedInRecv \/ Stranded

(* How many steps the threads and the handler have before them at most. A  *)
(* worker counts its way to pthread_cond_wait; what it may find on the way *)
(* and has to turn back for is counted with the list and with sign, and    *)
(* whom a push or a broadcast may wake with the step that does.            *)
WorkerLeft(w) == IF w \in waiters THEN 0
                 ELSE CASE wpc[w] = "done"   -> 0
                        [] wpc[w] = "locked" -> 1
                        [] wpc[w] = "lock"   -> 2
                        [] wpc[w] = "check"  -> 3
                        [] wpc[w] = "work"   -> 4
                        [] wpc[w] = "woken"  -> 4
                        [] wpc[w] = "wait"   -> 5

MainLeft == CASE rpc = "done"   -> 0
              [] rpc = "join"   -> 1
              [] rpc = "close"  -> 2
              [] rpc = "recv"   -> 2
              [] rpc = "check"  -> 3
              [] rpc = "send"   -> 4
              [] rpc = "unlock" -> 5
              [] rpc = "push"   -> 18
              [] rpc = "lock"   -> 19

HandlerLeft == CASE hpc = "idle"      -> 0
                 [] hpc = "unlock"    -> 18
                 [] hpc = "broadcast" -> 22 + 5 * Cardinality(Workers)
                 [] hpc = "lock"      -> 23 + 5 * Cardinality(Workers)
                 [] hpc = "exit"      -> 24 + 5 * Cardinality(Workers)

WorkersLeft == Cardinality({t \in Workers \X (1 .. 5) : t[2] <= WorkerLeft(t[1])})

(* The steps of the requests, the messages and the flag that wait. *)
Waiting == 18 * Cardinality(inbox) + 4 * Len(list) + 3 * sign

ToGo == MainLeft + HandlerLeft + WorkersLeft + Waiting

(* Nobody runs in circles: every step is one of those, and only what comes *)
(* from outside adds to them: 18 for a picture, 5 for a spurious wake-up,  *)
(* and for a signal 24 and a round of every worker.                        *)
NearsEnd ==
    [][/\ ToGo \in Nat /\ ToGo' \in Nat
       /\ \/ ToGo' < ToGo
          \/ sent' # sent /\ ToGo' <= ToGo + 18
          \/ spurious' # spurious /\ ToGo' <= ToGo + 5
          \/ signals' # signals /\ ToGo' <= ToGo + 24 + 5 * Cardinality(Workers)]_vars

=============================================================================
