------------------------- MODULE PictureServerProofs -------------------------
(***************************************************************************)
(* TLAPS proofs about PictureServer, for any number of clients and worker  *)
(* threads and any bounds. The inductive invariant grows in layers: typing *)
(* with the control points (Typed), then the mutex, then the count of the  *)
(* condition variable.                                                     *)
(***************************************************************************)
EXTENDS PictureServer, FiniteSetTheorems, TLAPS

(* Typing and control points: inductive together, because the message that *)
(* is pushed or taken is a real one only at the right control point.       *)
Typed == TypeOK /\ ControlInv

-----------------------------------------------------------------------------
(* Consequences of the assumptions that the provers need one by one. *)
LEMMA Distinct ==
  /\ Main \in Threads /\ Workers \subseteq Threads
  /\ Main \notin Workers
  /\ Nobody \notin Threads /\ Nobody \notin Clients
  /\ NoMsg # Blank /\ NoMsg \notin Message /\ Blank \notin Message
BY NamesAssumption DEF Threads

(* A new message is a Message. *)
LEMMA NewMessage ==
  ASSUME TypeOK, NEW c \in Clients, NEW k \in Kinds, sent[c] < MaxRequests
  PROVE  /\ sent[c] + 1 \in 1 .. MaxRequests
         /\ [client |-> c, num |-> sent[c] + 1, kind |-> k] \in Message
<1>1. sent[c] \in 0 .. MaxRequests  BY DEF TypeOK
<1>2. sent[c] + 1 \in 1 .. MaxRequests  BY <1>1, BoundsAssumption
<1> QED  BY <1>2 DEF Message

(* The initial state is typed, at the right control points. *)
LEMMA InitTyped == Init => Typed
BY Distinct, BoundsAssumption
DEF Init, Typed, TypeOK, ControlInv

(* Every step keeps the types and the control points. *)
LEMMA NextTyped == Typed /\ [Next]_vars => Typed'
<1> SUFFICES ASSUME Typed, [Next]_vars PROVE Typed'
  OBVIOUS
<1> USE Distinct DEF Typed, TypeOK, ControlInv
<1>1. ASSUME NEW c \in Clients, NEW k \in Kinds, ClientSubmit(c, k)
      PROVE  Typed'
  <2>1. sent[c] < MaxRequests  BY <1>1 DEF ClientSubmit
  <2>2. /\ sent[c] + 1 \in 0 .. MaxRequests
        /\ [client |-> c, num |-> sent[c] + 1, kind |-> k] \in Message
    BY <2>1, NewMessage, BoundsAssumption
  <2> QED  BY <1>1, <2>2 DEF ClientSubmit, mainVars, shared, workerVars, sigVars
<1>2. CASE RecvCheck
  BY <1>2 DEF RecvCheck, MainGoto, clientVars, shared, workerVars, sigVars
<1>3. ASSUME NEW m \in inbox, RecvRequest(m) PROVE Typed'
  <2>1. m \in Message /\ m.client \in Clients  BY <1>3 DEF Message
  <2> QED  BY <1>3, <2>1 DEF RecvRequest, MainGoto, shared, workerVars, sigVars
<1>4. CASE RecvLock
  BY <1>4 DEF RecvLock, MainGoto, clientVars, shared, workerVars, sigVars
<1>5. CASE RecvPush
  <2>1. cur \in Message \cup {Blank}  BY <1>5 DEF RecvPush, MainGoto
  <2>2. Append(list, cur) \in Seq(Message \cup {Blank})  BY <2>1
  <2>3. waiters' \subseteq waiters  BY <1>5 DEF RecvPush, SignalOne
  <2> QED  BY <1>5, <2>2, <2>3
           DEF RecvPush, MainGoto, clientVars, workerVars, sigVars
<1>6. CASE RecvUnlock
  BY <1>6 DEF RecvUnlock, MainGoto, clientVars, shared, workerVars, sigVars
<1>7. CASE RecvSend
  BY <1>7 DEF RecvSend, MainGoto, shared, workerVars, sigVars
<1>8. CASE RecvClose
  BY <1>8 DEF RecvClose, MainGoto, clientVars, shared, workerVars, sigVars
<1>9. CASE MainJoin
  BY <1>9 DEF MainJoin, MainGoto, clientVars, shared, workerVars, sigVars
<1>10. ASSUME NEW w \in Workers, ProcCheck(w) PROVE Typed'
  BY <1>10 DEF ProcCheck, WorkerGoto, clientVars, mainVars, shared, sigVars
<1>11. ASSUME NEW w \in Workers, ProcLock(w) PROVE Typed'
  BY <1>11 DEF ProcLock, WorkerGoto, clientVars, mainVars, shared, sigVars
<1>12. ASSUME NEW w \in Workers, ProcWait(w) PROVE Typed'
  BY <1>12 DEF ProcWait, WorkerGoto, clientVars, mainVars, shared, sigVars
<1>13. ASSUME NEW w \in Workers, ProcClearSign(w) PROVE Typed'
  BY <1>13 DEF ProcClearSign, WorkerGoto, clientVars, mainVars, sigVars
<1>14. ASSUME NEW w \in Workers, ProcWake(w) PROVE Typed'
  BY <1>14 DEF ProcWake, WorkerGoto, clientVars, mainVars, shared, sigVars
<1>15. ASSUME NEW w \in Workers, ProcWoken(w) PROVE Typed'
  BY <1>15 DEF ProcWoken, WorkerGoto, clientVars, mainVars, sigVars
<1>16. ASSUME NEW w \in Workers, ProcTake(w) PROVE Typed'
  <2>1. list # <<>>  BY <1>16 DEF ProcTake
  <2>2. Head(list) \in Message \cup {Blank}  BY <2>1
  <2>3. Tail(list) \in Seq(Message \cup {Blank})  BY <2>1
  <2> QED  BY <1>16, <2>2, <2>3
           DEF ProcTake, WorkerGoto, clientVars, mainVars, sigVars
<1>17. ASSUME NEW w \in Workers, ProcRemove(w) PROVE Typed'
  BY <1>17 DEF ProcRemove, WorkerGoto, mainVars, shared, sigVars
<1>18. ASSUME NEW w \in Workers, SpuriousWake(w) PROVE Typed'
  BY <1>18, BoundsAssumption
  DEF SpuriousWake, clientVars, mainVars, shared, workerVars, sigVars
<1>19. ASSUME NEW t \in Threads, DeliverSignal(t) PROVE Typed'
  BY <1>19, BoundsAssumption
  DEF DeliverSignal, clientVars, mainVars, shared, workerVars
<1>20. CASE HandlerExit
  BY <1>20 DEF HandlerExit, clientVars, mainVars, workerVars
<1>21. CASE HandlerLock
  BY <1>21 DEF HandlerLock, clientVars, mainVars, shared, workerVars
<1>22. CASE HandlerBroadcast
  BY <1>22 DEF HandlerBroadcast, clientVars, mainVars, workerVars
<1>23. CASE HandlerReturn
  BY <1>23 DEF HandlerReturn, clientVars, shared, workerVars
<1>24. CASE UNCHANGED vars
  BY <1>24 DEF vars
<1> QED
  BY <1>1, <1>2, <1>3, <1>4, <1>5, <1>6, <1>7, <1>8, <1>9, <1>10, <1>11,
     <1>12, <1>13, <1>14, <1>15, <1>16, <1>17, <1>18, <1>19, <1>20, <1>21,
     <1>22, <1>23, <1>24
  DEF Next, MainStep, WorkerStep, HandlerStep

(* TypeOK holds in every reachable state; with it the control points: the  *)
(* handler has a victim, thread_recv a message and a worker a hand exactly *)
(* where the code says so.                                                 *)
THEOREM TypeCorrect == Spec => [](TypeOK /\ ControlInv)
<1>1. Init => Typed  BY InitTyped
<1>2. Typed /\ [Next]_vars => Typed'  BY NextTyped
<1> QED  BY <1>1, <1>2, PTL DEF Spec, Typed

-----------------------------------------------------------------------------
(* Every step keeps the mutex with the thread inside its critical section. *)
LEMMA NextMutex == Typed /\ MutexInv /\ [Next]_vars => MutexInv'
<1> SUFFICES ASSUME Typed, MutexInv, [Next]_vars PROVE MutexInv'
  OBVIOUS
<1> USE Distinct DEF MutexInv, Inside, InHandler, Threads
<1>0. /\ wpc \in [Workers -> {"check", "lock", "locked", "wait", "woken",
                              "work", "done"}]
      /\ victim \in Threads \cup {Nobody}
      /\ hpc = "idle" <=> victim = Nobody
  BY DEF Typed, TypeOK, ControlInv
<1>1. ASSUME NEW c \in Clients, NEW k \in Kinds, ClientSubmit(c, k)
      PROVE  MutexInv'
  BY <1>1 DEF ClientSubmit, mainVars, workerVars, sigVars
<1>2. CASE RecvCheck
  BY <1>2 DEF RecvCheck, MainGoto, workerVars, sigVars
<1>3. ASSUME NEW m \in inbox, RecvRequest(m) PROVE MutexInv'
  BY <1>3 DEF RecvRequest, MainGoto, workerVars, sigVars
<1>4. CASE RecvLock
  BY <1>4 DEF RecvLock, MainGoto, workerVars, sigVars
<1>5. CASE RecvPush
  BY <1>5 DEF RecvPush, MainGoto, workerVars, sigVars
<1>6. CASE RecvUnlock
  BY <1>6 DEF RecvUnlock, MainGoto, workerVars, sigVars
<1>7. CASE RecvSend
  BY <1>7 DEF RecvSend, MainGoto, workerVars, sigVars
<1>8. CASE RecvClose
  BY <1>8 DEF RecvClose, MainGoto, workerVars, sigVars
<1>9. CASE MainJoin
  BY <1>9 DEF MainJoin, MainGoto, workerVars, sigVars
<1>10. ASSUME NEW w \in Workers, ProcCheck(w) PROVE MutexInv'
  BY <1>0, <1>10 DEF ProcCheck, WorkerGoto, mainVars, sigVars
<1>11. ASSUME NEW w \in Workers, ProcLock(w) PROVE MutexInv'
  BY <1>0, <1>11 DEF ProcLock, WorkerGoto, mainVars, sigVars
<1>12. ASSUME NEW w \in Workers, ProcWait(w) PROVE MutexInv'
  BY <1>0, <1>12 DEF ProcWait, WorkerGoto, mainVars, sigVars
<1>13. ASSUME NEW w \in Workers, ProcClearSign(w) PROVE MutexInv'
  BY <1>0, <1>13 DEF ProcClearSign, WorkerGoto, mainVars, sigVars
<1>14. ASSUME NEW w \in Workers, ProcWake(w) PROVE MutexInv'
  BY <1>0, <1>14 DEF ProcWake, WorkerGoto, mainVars, sigVars
<1>15. ASSUME NEW w \in Workers, ProcWoken(w) PROVE MutexInv'
  BY <1>0, <1>15 DEF ProcWoken, WorkerGoto, mainVars, sigVars
<1>16. ASSUME NEW w \in Workers, ProcTake(w) PROVE MutexInv'
  BY <1>0, <1>16 DEF ProcTake, WorkerGoto, mainVars, sigVars
<1>17. ASSUME NEW w \in Workers, ProcRemove(w) PROVE MutexInv'
  BY <1>0, <1>17 DEF ProcRemove, WorkerGoto, mainVars, sigVars
<1>18. ASSUME NEW w \in Workers, SpuriousWake(w) PROVE MutexInv'
  BY <1>18 DEF SpuriousWake, mainVars, workerVars, sigVars
<1>19. ASSUME NEW t \in Threads, DeliverSignal(t) PROVE MutexInv'
  BY <1>0, <1>19 DEF DeliverSignal, mainVars, workerVars
<1>20. CASE HandlerExit
  BY <1>20 DEF HandlerExit, workerVars, mainVars
<1>21. CASE HandlerLock
  BY <1>0, <1>21 DEF HandlerLock, workerVars, mainVars
<1>22. CASE HandlerBroadcast
  BY <1>22 DEF HandlerBroadcast, workerVars, mainVars
<1>23. CASE HandlerReturn
  <2>1. InHandler(victim) /\ victim \in Threads  BY <1>0, <1>23 DEF HandlerReturn
  <2>2. mutex = victim /\ ~Inside(victim)  BY <2>1
  <2>3. \A t \in Threads : ~Inside(t)  BY <2>1, <2>2
  <2>4. \A t \in Threads : ~Inside(t)'  BY <1>0, <1>23, <2>3 DEF HandlerReturn, workerVars
  <2> QED  BY <1>23, <2>4 DEF HandlerReturn
<1>24. CASE UNCHANGED vars
  BY <1>24 DEF vars
<1> QED
  BY <1>1, <1>2, <1>3, <1>4, <1>5, <1>6, <1>7, <1>8, <1>9, <1>10, <1>11,
     <1>12, <1>13, <1>14, <1>15, <1>16, <1>17, <1>18, <1>19, <1>20, <1>21,
     <1>22, <1>23, <1>24
  DEF Next, MainStep, WorkerStep, HandlerStep

-----------------------------------------------------------------------------
(* The set of hunting workers is finite, whatever the state. *)
LEMMA HuntingFinite ==
  IsFiniteSet(Hunting) /\ Cardinality(Hunting) \in Nat
<1>1. Hunting \in SUBSET Workers  BY DEF Hunting
<1>2. IsFiniteSet(Hunting)  BY <1>1, WorkersAssumption, FS_Subset
<1> QED  BY <1>2, FS_CardinalityType

(* Every step keeps the balance between the messages and the hunters. *)
LEMMA NextNoWastedSignal ==
  Typed /\ NoWastedSignal /\ [Next]_vars => NoWastedSignal'
<1> SUFFICES ASSUME Typed, NoWastedSignal, [Next]_vars,
                    exit' = 0, waiters' # {}
             PROVE  Len(list') <= Cardinality(Hunting')
  BY DEF NoWastedSignal
<1> USE Distinct
<1>0. /\ wpc \in [Workers -> {"check", "lock", "locked", "wait", "woken",
                              "work", "done"}]
      /\ exit \in {0, 1}
      /\ waiters \subseteq Workers
      /\ list \in Seq(Message \cup {Blank})
      /\ \A w \in waiters : wpc[w] = "wait"
      /\ Len(list) \in Nat
  <2>1. list \in Seq(Message \cup {Blank})  BY DEF Typed, TypeOK
  <2> QED  BY <2>1 DEF Typed, TypeOK, ControlInv
<1>f. IsFiniteSet(Hunting) /\ Cardinality(Hunting) \in Nat
  BY HuntingFinite
(* A step that moves nobody in or out and leaves the list alone. *)
<1>s. ASSUME list' = list, Hunting' = Hunting, exit' = exit,
             waiters' \subseteq waiters
      PROVE  Len(list') <= Cardinality(Hunting')
  BY <1>s DEF NoWastedSignal
(* A worker joins the hunt and the list does not grow. *)
<1>j. ASSUME NEW w \in Workers, list' = list, Hunting' = Hunting \cup {w},
             exit' = exit, waiters' \subseteq waiters
      PROVE  Len(list') <= Cardinality(Hunting')
  <2>1. Len(list) <= Cardinality(Hunting)  BY <1>j DEF NoWastedSignal
  <2>2. Cardinality(Hunting \cup {w}) =
           IF w \in Hunting THEN Cardinality(Hunting) ELSE Cardinality(Hunting) + 1
    BY <1>f, FS_AddElement
  <2>3. Len(list') = Len(list)  BY <1>j
  <2>4. Cardinality(Hunting') = Cardinality(Hunting \cup {w})  BY <1>j
  <2> QED  BY <1>f, <1>0, <2>1, <2>2, <2>3, <2>4
<1>1. ASSUME NEW c \in Clients, NEW k \in Kinds, ClientSubmit(c, k)
      PROVE  Len(list') <= Cardinality(Hunting')
  BY <1>1, <1>s DEF ClientSubmit, Hunting, shared, workerVars
<1>2. CASE MainStep /\ ~RecvPush
  <2>1. UNCHANGED <<list, exit, waiters, wpc>>
    BY <1>2 DEF MainStep, RecvCheck, RecvRequest, RecvLock, RecvUnlock,
                RecvSend, RecvClose, MainJoin, shared, workerVars
  <2> QED  BY <1>s, <2>1 DEF Hunting
<1>3. CASE RecvPush
  <2>1. PICK w \in waiters : waiters' = waiters \ {w}
    BY <1>3 DEF RecvPush, SignalOne
  <2>2. w \in Workers /\ wpc[w] = "wait" /\ w \notin Hunting
    BY <2>1, <1>0 DEF Hunting
  <2>3. Hunting' = Hunting \cup {w}
    BY <1>3, <1>0, <2>1, <2>2 DEF RecvPush, Hunting, workerVars
  <2>4. Cardinality(Hunting') = Cardinality(Hunting) + 1
    BY <2>2, <2>3, <1>f, FS_AddElement
  <2>5. Len(list) <= Cardinality(Hunting)
    BY <1>3, <2>1 DEF NoWastedSignal, RecvPush
  <2>6. Len(list') = Len(list) + 1
    <3>1. list' = Append(list, cur) /\ cur \in Message \cup {Blank}
      BY <1>3 DEF RecvPush, MainGoto, Typed, TypeOK, ControlInv
    <3> QED  BY <1>0, <3>1
  <2> QED  BY <2>4, <2>5, <2>6, <1>0, <1>f
<1>4. ASSUME NEW w \in Workers, ProcCheck(w)
      PROVE  Len(list') <= Cardinality(Hunting')
  <2>1. exit = 0 /\ UNCHANGED <<list, exit, waiters>>
    BY <1>4 DEF ProcCheck, shared
  <2>2. wpc[w] = "check" /\ wpc' = [wpc EXCEPT ![w] = "lock"]
    BY <1>4, <2>1 DEF ProcCheck, WorkerGoto
  <2>3. Hunting' = Hunting  BY <1>0, <2>1, <2>2 DEF Hunting
  <2> QED  BY <1>s, <2>1, <2>3
<1>5. ASSUME NEW w \in Workers,
             ProcLock(w) \/ ProcClearSign(w) \/ ProcWake(w) \/ ProcWoken(w)
      PROVE  Len(list') <= Cardinality(Hunting')
  <2>1. UNCHANGED <<list, exit, waiters>>
    BY <1>5 DEF ProcLock, ProcClearSign, ProcWake, ProcWoken, shared
  <2>2. \E from, to \in {"check", "lock", "locked", "wait", "woken"} :
           wpc[w] = from /\ wpc' = [wpc EXCEPT ![w] = to]
    BY <1>5 DEF ProcLock, ProcClearSign, ProcWake, ProcWoken, WorkerGoto
  <2>3. Hunting' = Hunting  BY <1>0, <2>1, <2>2 DEF Hunting
  <2> QED  BY <1>s, <2>1, <2>3
<1>6. ASSUME NEW w \in Workers, ProcWait(w)
      PROVE  Len(list') <= Cardinality(Hunting')
  <2>1. list' = <<>>  BY <1>6 DEF ProcWait, shared
  <2>2. Hunting' = Hunting \ {w}
    BY <1>6, <1>0 DEF ProcWait, WorkerGoto, Hunting
  <2>3. IsFiniteSet(Hunting \ {w}) BY <1>f, FS_RemoveElement
  <2>4. Cardinality(Hunting') \in Nat  BY <2>2, <2>3, FS_CardinalityType
  <2> QED  BY <2>1, <2>4
<1>7. ASSUME NEW w \in Workers, ProcTake(w)
      PROVE  Len(list') <= Cardinality(Hunting')
  <2>1. /\ wpc[w] = "locked" /\ w \notin waiters /\ w \in Hunting
        /\ Hunting' = Hunting \ {w}
    BY <1>7, <1>0 DEF ProcTake, WorkerGoto, Hunting
  <2>2. Cardinality(Hunting') = Cardinality(Hunting) - 1
    BY <2>1, <1>f, FS_RemoveElement
  <2>3. Len(list') = Len(list) - 1
    <3>1. list # <<>> /\ list' = Tail(list)  BY <1>7 DEF ProcTake
    <3> QED  BY <1>0, <3>1
  <2>4. Len(list) <= Cardinality(Hunting)
    BY <1>7 DEF NoWastedSignal, ProcTake
  <2> QED  BY <2>2, <2>3, <2>4, <1>0, <1>f
<1>8. ASSUME NEW w \in Workers, ProcRemove(w)
      PROVE  Len(list') <= Cardinality(Hunting')
  <2>1. Hunting' = Hunting \cup {w}
    BY <1>8, <1>0 DEF ProcRemove, WorkerGoto, Hunting
  <2> QED  BY <1>8, <1>j, <2>1 DEF ProcRemove, shared
<1>9. ASSUME NEW w \in Workers, SpuriousWake(w)
      PROVE  Len(list') <= Cardinality(Hunting')
  <2>1. Hunting' = Hunting \cup {w}
    BY <1>9, <1>0 DEF SpuriousWake, Hunting, workerVars
  <2> QED  BY <1>9, <1>j, <2>1 DEF SpuriousWake, shared
<1>10. ASSUME NEW t \in Threads, DeliverSignal(t)
       PROVE  Len(list') <= Cardinality(Hunting')
  BY <1>10, <1>s DEF DeliverSignal, Hunting, shared, workerVars
<1>11. CASE HandlerStep
  <2>1. UNCHANGED <<list, exit, waiters, wpc>>
    BY <1>11 DEF HandlerStep, HandlerExit, HandlerLock, HandlerBroadcast,
                 HandlerReturn, shared, workerVars
  <2> QED  BY <1>s, <2>1 DEF Hunting
<1>12. CASE UNCHANGED vars
  BY <1>12, <1>s DEF vars, Hunting
<1> QED
  BY <1>1, <1>2, <1>3, <1>4, <1>5, <1>6, <1>7, <1>8, <1>9, <1>10, <1>11, <1>12
  DEF Next, WorkerStep

(* No signal of the condition variable is lost, for any number of workers: *)
(* a worker sleeps, before an exit is requested, only while the others on  *)
(* their way to the list are as many as its messages.                      *)
THEOREM SignalsNotWasted == Spec => []NoWastedSignal
<1>1. Init => Typed /\ NoWastedSignal
  BY InitTyped DEF Init, NoWastedSignal
<1>2. Typed /\ NoWastedSignal /\ [Next]_vars => (Typed /\ NoWastedSignal)'
  BY NextTyped, NextNoWastedSignal
<1> QED  BY <1>1, <1>2, PTL DEF Spec

(* The mutex belongs to the thread between its lock and its unlock, and to *)
(* it alone; the handler never runs the critical section of its victim a   *)
(* second time.                                                            *)
THEOREM MutualExclusion == Spec => []MutexInv
<1>1. Init => Typed /\ MutexInv
  BY InitTyped, Distinct DEF Init, MutexInv, Inside, InHandler, Threads
<1>2. Typed /\ MutexInv /\ [Next]_vars => (Typed /\ MutexInv)'
  BY NextTyped, NextMutex
<1> QED  BY <1>1, <1>2, PTL DEF Spec

-----------------------------------------------------------------------------
(* Requests and messages. Only five actions touch them: *)
Moving == \/ \E c \in Clients, k \in Kinds : ClientSubmit(c, k)
          \/ \E m \in inbox : RecvRequest(m)
          \/ RecvPush \/ RecvSend
          \/ \E w \in Workers : ProcTake(w) \/ ProcRemove(w)
          \/ HandlerReturn

LEMMA Still ==
  [Next]_vars /\ ~Moving
     => UNCHANGED <<files, sent, waiting, inbox, peer, cur, list, hand>>
BY DEF Next, MainStep, WorkerStep, HandlerStep, Moving, vars, clientVars,
       mainVars, shared, workerVars, RecvCheck, RecvLock, RecvUnlock, RecvClose,
       MainJoin, ProcCheck, ProcLock, ProcWait, ProcClearSign, ProcWake,
       ProcWoken, SpuriousWake, DeliverSignal, HandlerExit, HandlerLock,
       HandlerBroadcast

(* The fields of a message. *)
LEMMA Fields == \A m \in Message : /\ m.client \in Clients
                                  /\ m.client # Nobody
                                  /\ m.num \in 1 .. MaxRequests
BY Distinct DEF Message

(* A request is answered once, after its message was pushed. *)
LEMMA NextRequest ==
  Typed /\ RequestInv /\ AckedIsQueued /\ [Next]_vars
     => (RequestInv /\ AckedIsQueued)'
<1> SUFFICES ASSUME Typed, RequestInv, AckedIsQueued, [Next]_vars
             PROVE  (RequestInv /\ AckedIsQueued)'
  OBVIOUS
<1> USE Distinct, Fields DEF RequestInv, AckedIsQueued
<1>t. /\ inbox \subseteq Message
      /\ cur \in Message \cup {Blank, NoMsg}
      /\ peer \in Clients \cup {Nobody}
      /\ cur # NoMsg <=> rpc \in {"lock", "push"}
      /\ peer # Nobody => rpc \in {"lock", "push", "unlock", "send"}
  BY DEF Typed, TypeOK, ControlInv
<1>1. ASSUME NEW c \in Clients, NEW k \in Kinds, ClientSubmit(c, k)
      PROVE  (RequestInv /\ AckedIsQueued)'
  <2> DEFINE new == [client |-> c, num |-> sent[c] + 1, kind |-> k]
  <2>1. /\ c \notin waiting /\ waiting' = waiting \cup {c}
        /\ inbox' = inbox \cup {new} /\ UNCHANGED <<cur, peer>>
    BY <1>1 DEF ClientSubmit, mainVars
  <2>2. new.client = c  OBVIOUS
  <2> HIDE DEF new
  <2> QED  BY <1>t, <2>1, <2>2
<1>2. ASSUME NEW m \in inbox, RecvRequest(m)
      PROVE  (RequestInv /\ AckedIsQueued)'
  BY <1>t, <1>2 DEF RecvRequest, MainGoto
<1>3. CASE RecvPush
  BY <1>t, <1>3 DEF RecvPush, MainGoto, clientVars
<1>4. CASE RecvSend
  <2>1. rpc = "send" /\ cur = NoMsg  BY <1>t, <1>4 DEF RecvSend, MainGoto
  <2> QED  BY <1>t, <1>4, <2>1 DEF RecvSend
<1>5. ASSUME NEW w \in Workers, ProcTake(w) \/ ProcRemove(w)
      PROVE  (RequestInv /\ AckedIsQueued)'
  BY <1>5 DEF ProcTake, ProcRemove, clientVars, mainVars
<1>6. CASE HandlerReturn
  BY <1>t, <1>6 DEF HandlerReturn, clientVars
<1>7. CASE ~Moving
  BY <1>7, Still
<1> QED
  BY <1>1, <1>2, <1>3, <1>4, <1>5, <1>6, <1>7 DEF Moving

(* The reply never overtakes the push, whatever the handler interrupts: a  *)
(* decoder whose message is at the socket or in thread_recv's hands waits. *)
THEOREM RepliesFollowPush == Spec => []AckedIsQueued
<1>1. Init => Typed /\ RequestInv /\ AckedIsQueued
  BY InitTyped, Distinct DEF Init, RequestInv, AckedIsQueued
<1>2. Typed /\ RequestInv /\ AckedIsQueued /\ [Next]_vars
         => (Typed /\ RequestInv /\ AckedIsQueued)'
  BY NextTyped, NextRequest
<1> QED  BY <1>1, <1>2, PTL DEF Spec

-----------------------------------------------------------------------------
(* One place for each message. *)
Queued == {list[i] : i \in DOMAIN list}
Held   == {hand[w] : w \in Workers}

(* A take from the front moves one item: the rest is the tail. *)
LEMMA TailItems ==
  ASSUME NEW S, NEW s \in Seq(S), s # <<>>
  PROVE  /\ Head(s) = s[1] /\ 1 \in DOMAIN s
         /\ Tail(s) \in Seq(S) /\ Len(Tail(s)) = Len(s) - 1
         /\ \A i \in DOMAIN Tail(s) : i + 1 \in DOMAIN s /\ Tail(s)[i] = s[i + 1]
         /\ \A i \in DOMAIN s : i # 1 => i - 1 \in DOMAIN Tail(s) /\ Tail(s)[i - 1] = s[i]
OBVIOUS

(* A push adds one item at the end. *)
LEMMA AppendItems ==
  ASSUME NEW S, NEW s \in Seq(S), NEW e \in S
  PROVE  /\ DOMAIN Append(s, e) = 1 .. Len(s) + 1
         /\ Append(s, e)[Len(s) + 1] = e
         /\ \A i \in DOMAIN s : i \in DOMAIN Append(s, e) /\ Append(s, e)[i] = s[i]
         /\ \A i \in DOMAIN Append(s, e) : i \in DOMAIN s \/ i = Len(s) + 1
OBVIOUS

(* A message that is submitted is new: no message has its number yet. *)
LEMMA NextFresh == Typed /\ FreshInv /\ [Next]_vars => FreshInv'
<1> SUFFICES ASSUME Typed, FreshInv, [Next]_vars,
                    NEW m \in (files \cup (Pipeline \cap Message))'
             PROVE  m.num <= sent'[m.client]
  BY DEF FreshInv
<1> USE Distinct, Fields
<1>t. /\ files \subseteq Message /\ inbox \subseteq Message
      /\ list \in Seq(Message \cup {Blank})
      /\ hand \in [Workers -> Message \cup {Blank, NoMsg}]
      /\ cur \in Message \cup {Blank, NoMsg}
      /\ cur # NoMsg <=> rpc \in {"lock", "push"}
      /\ sent \in [Clients -> 0 .. MaxRequests]
      /\ MaxRequests \in Nat
  BY BoundsAssumption DEF Typed, TypeOK, ControlInv
<1>p. Pipeline = inbox \cup {cur} \cup Queued \cup Held
  BY DEF Pipeline, Queued, Held
<1>q. Pipeline' = inbox' \cup {cur'} \cup Queued' \cup Held'
  BY DEF Pipeline, Queued, Held
<1>m. m \in Message
  BY NextTyped DEF Typed, TypeOK
<1>s. ASSUME m \in files \cup Pipeline, UNCHANGED sent
      PROVE  m.num <= sent'[m.client]
  BY <1>s, <1>m DEF FreshInv
<1>1. ASSUME NEW c \in Clients, NEW k \in Kinds, ClientSubmit(c, k)
      PROVE  m.num <= sent'[m.client]
  <2> DEFINE new == [client |-> c, num |-> sent[c] + 1, kind |-> k]
  <2>1. /\ sent' = [sent EXCEPT ![c] = @ + 1]
        /\ files' = files \cup {new} /\ inbox' = inbox \cup {new}
        /\ UNCHANGED <<cur, list, hand>>
    BY <1>1 DEF ClientSubmit, mainVars, shared, workerVars
  <2>2. CASE m = new  BY <2>1, <2>2, <1>t
  <2>3. CASE m # new
    <3>1. m \in files \cup Pipeline
      BY <2>1, <2>3, <1>p, <1>q DEF Queued, Held
    <3>2. m.num <= sent[m.client]  BY <3>1, <1>m DEF FreshInv
    <3>3. sent[m.client] \in Nat /\ m.num \in Nat /\ m.client \in Clients
      BY <1>m, <1>t
    <3>4. sent'[m.client] >= sent[m.client] /\ sent'[m.client] \in Nat
      BY <2>1, <3>3, <1>t
    <3> QED  BY <3>2, <3>3, <3>4
  <2> QED  BY <2>2, <2>3
<1>2. ASSUME NEW n \in inbox, RecvRequest(n)
      PROVE  m.num <= sent'[m.client]
  BY <1>2, <1>s, <1>p, <1>q DEF RecvRequest, shared, workerVars, Queued, Held
<1>3. CASE RecvPush
  <2>1. /\ list' = Append(list, cur) /\ cur \in Message \cup {Blank}
        /\ cur' = NoMsg /\ UNCHANGED <<files, sent, inbox, hand>>
    BY <1>3, <1>t DEF RecvPush, MainGoto, clientVars, workerVars
  <2>2. Queued' \subseteq Queued \cup {cur}
    BY <2>1, <1>t, AppendItems DEF Queued
  <2> QED  BY <2>1, <2>2, <1>s, <1>m, <1>p, <1>q DEF Held
<1>4. CASE RecvSend
  BY <1>4, <1>s, <1>p, <1>q DEF RecvSend, shared, workerVars, Queued, Held
<1>5. ASSUME NEW w \in Workers, ProcTake(w)
      PROVE  m.num <= sent'[m.client]
  <2>1. /\ list # <<>> /\ list' = Tail(list)
        /\ hand' = [hand EXCEPT ![w] = Head(list)]
        /\ UNCHANGED <<files, sent, inbox, cur>>
    BY <1>5 DEF ProcTake, clientVars, mainVars
  <2>2. Queued' \subseteq Queued /\ Head(list) \in Queued
    BY <2>1, <1>t, TailItems DEF Queued
  <2>3. Held' \subseteq Held \cup {Head(list)}
    BY <2>1, <1>t DEF Held
  <2> QED  BY <2>1, <2>2, <2>3, <1>s, <1>p, <1>q
<1>6. ASSUME NEW w \in Workers, ProcRemove(w)
      PROVE  m.num <= sent'[m.client]
  <2>1. /\ files' \subseteq files /\ hand' = [hand EXCEPT ![w] = NoMsg]
        /\ UNCHANGED <<sent, inbox, cur, list>>
    BY <1>6 DEF ProcRemove, mainVars, shared
  <2>2. Held' \subseteq Held \cup {NoMsg}  BY <2>1, <1>t DEF Held
  <2> QED  BY <2>1, <2>2, <1>s, <1>m, <1>p, <1>q DEF Queued
<1>7. CASE HandlerReturn
  <2>1. /\ cur' \in {cur, Blank} /\ UNCHANGED <<files, sent, inbox, list, hand>>
    BY <1>7 DEF HandlerReturn, clientVars, shared, workerVars
  <2> QED  BY <2>1, <1>s, <1>m, <1>p, <1>q DEF Queued, Held
<1>8. CASE ~Moving
  BY <1>8, Still, <1>s, <1>p, <1>q DEF Queued, Held
<1> QED
  BY <1>1, <1>2, <1>3, <1>4, <1>5, <1>6, <1>7, <1>8 DEF Moving

(* No step puts a message in a second place: a submitted one is fresh, and *)
(* the others move from one place to the next.                             *)
LEMMA NextHeldOnce ==
  Typed /\ FreshInv /\ HeldOnce /\ [Next]_vars => HeldOnce'
<1> SUFFICES ASSUME Typed, FreshInv, HeldOnce, [Next]_vars PROVE HeldOnce'
  OBVIOUS
<1> USE Distinct, Fields
<1>t. /\ inbox \subseteq Message
      /\ list \in Seq(Message \cup {Blank})
      /\ hand \in [Workers -> Message \cup {Blank, NoMsg}]
      /\ cur \in Message \cup {Blank, NoMsg}
      /\ cur # NoMsg <=> rpc \in {"lock", "push"}
      /\ sent \in [Clients -> 0 .. MaxRequests]
  BY DEF Typed, TypeOK, ControlInv
<1>1. ASSUME NEW c \in Clients, NEW k \in Kinds, ClientSubmit(c, k)
      PROVE  HeldOnce'
  <2> DEFINE new == [client |-> c, num |-> sent[c] + 1, kind |-> k]
  <2>1. inbox' = inbox \cup {new} /\ UNCHANGED <<cur, list, hand>>
    BY <1>1 DEF ClientSubmit, mainVars, shared, workerVars
  <2>2. new \notin Pipeline
    <3>1. new \in Message
      BY <1>1, NewMessage DEF ClientSubmit, Typed
    <3>2. ~(new.num <= sent[new.client])  BY <1>t, BoundsAssumption
    <3> QED  BY <3>1, <3>2 DEF FreshInv
  <2>3. /\ cur # new /\ \A i \in DOMAIN list : list[i] # new
        /\ \A w \in Workers : hand[w] # new
    BY <2>2 DEF Pipeline
  <2> HIDE DEF new
  <2> QED  BY <2>1, <2>3 DEF HeldOnce
<1>2. ASSUME NEW m \in inbox, RecvRequest(m) PROVE HeldOnce'
  <2>1. /\ inbox' = inbox \ {m} /\ cur' = m /\ UNCHANGED <<list, hand>>
    BY <1>2 DEF RecvRequest, shared, workerVars
  <2>2. m \in Message  BY <1>t
  <2> QED  BY <2>1, <2>2, <1>t DEF HeldOnce
<1>3. CASE RecvPush
  <2>1. /\ list' = Append(list, cur) /\ cur \in Message \cup {Blank}
        /\ cur' = NoMsg /\ UNCHANGED <<inbox, hand>>
    BY <1>3, <1>t DEF RecvPush, MainGoto, clientVars, workerVars
  <2>2. /\ \A i \in DOMAIN list' : i \in DOMAIN list \/ list'[i] = cur
        /\ \A i \in DOMAIN list : list'[i] = list[i]
        /\ \A i \in DOMAIN list' : i \notin DOMAIN list => i = Len(list) + 1
    BY <2>1, <1>t, AppendItems
  <2>3. cur \in Message => /\ cur \notin inbox
                           /\ \A i \in DOMAIN list : list[i] # cur
                           /\ \A w \in Workers : hand[w] # cur
    BY DEF HeldOnce
  <2>4. \A i, j \in DOMAIN list' : list'[i] = list'[j] /\ i # j => list'[i] = Blank
    BY <2>1, <2>2, <2>3 DEF HeldOnce
  <2>5. \A i \in DOMAIN list' : list'[i] \in Message =>
           /\ list'[i] \notin inbox' \cup {cur'}
           /\ \A w \in Workers : hand[w] # list'[i]
    BY <2>1, <2>2, <2>3 DEF HeldOnce
  <2> QED  BY <2>1, <2>4, <2>5 DEF HeldOnce
<1>4. CASE RecvSend
  BY <1>4 DEF RecvSend, shared, workerVars, HeldOnce
<1>5. ASSUME NEW w \in Workers, ProcTake(w) PROVE HeldOnce'
  <2>1. /\ list # <<>> /\ list' = Tail(list)
        /\ hand' = [hand EXCEPT ![w] = Head(list)]
        /\ UNCHANGED <<inbox, cur>>
    BY <1>5 DEF ProcTake, clientVars, mainVars
  <2>2. /\ Head(list) = list[1] /\ 1 \in DOMAIN list
        /\ \A i \in DOMAIN list' : /\ i + 1 \in DOMAIN list /\ i + 1 # 1
                                   /\ list'[i] = list[i + 1]
        /\ \A i, j \in DOMAIN list' : i # j => i + 1 # j + 1
    BY <2>1, <1>t, TailItems
  <2>3. \A i, j \in DOMAIN list' : list'[i] = list'[j] /\ i # j => list'[i] = Blank
    BY <2>2 DEF HeldOnce
  <2>4. \A i \in DOMAIN list' : list'[i] \in Message =>
           /\ list'[i] \notin inbox \cup {cur} /\ list'[i] # Head(list)
           /\ \A v \in Workers : hand[v] # list'[i]
    BY <2>2 DEF HeldOnce
  <2>5. Head(list) \in Message =>
           /\ Head(list) \notin inbox \cup {cur}
           /\ \A v \in Workers : hand[v] # Head(list)
    BY <2>2 DEF HeldOnce
  <2>6. \A v \in Workers : hand'[v] = IF v = w THEN Head(list) ELSE hand[v]
    BY <2>1, <1>t
  <2>7. ASSUME NEW v \in Workers, hand'[v] \in Message
        PROVE  /\ hand'[v] \notin inbox' \cup {cur'}
               /\ \A i \in DOMAIN list' : list'[i] # hand'[v]
               /\ \A u \in Workers : u # v => hand'[u] # hand'[v]
    <3>1. CASE v = w  BY <3>1, <2>7, <2>1, <2>4, <2>5, <2>6
    <3>2. CASE v # w  BY <3>2, <2>7, <2>1, <2>4, <2>5, <2>6 DEF HeldOnce
    <3> QED  BY <3>1, <3>2
  <2> QED  BY <2>1, <2>3, <2>4, <2>7 DEF HeldOnce
<1>6. ASSUME NEW w \in Workers, ProcRemove(w) PROVE HeldOnce'
  <2>1. /\ hand' = [hand EXCEPT ![w] = NoMsg]
        /\ UNCHANGED <<inbox, cur, list>>
    BY <1>6 DEF ProcRemove, mainVars, shared
  <2>2. \A v \in Workers : hand'[v] = IF v = w THEN NoMsg ELSE hand[v]
    BY <2>1, <1>t
  <2> QED  BY <2>1, <2>2 DEF HeldOnce
<1>7. CASE HandlerReturn
  <2>1. /\ cur' \in {cur, Blank} /\ UNCHANGED <<inbox, list, hand>>
    BY <1>7 DEF HandlerReturn, clientVars, shared, workerVars
  <2> QED  BY <2>1, <1>t DEF HeldOnce
<1>8. CASE ~Moving
  BY <1>8, Still DEF HeldOnce
<1> QED
  BY <1>1, <1>2, <1>3, <1>4, <1>5, <1>6, <1>7, <1>8 DEF Moving

(* The files follow the messages. *)
LEMMA NextFiles ==
  Typed /\ HeldOnce /\ FilesMatchPipeline /\ [Next]_vars => FilesMatchPipeline'
<1> SUFFICES ASSUME Typed, HeldOnce, FilesMatchPipeline, [Next]_vars,
                    NEW m \in Removable
             PROVE  (m \in files <=> m \in Pipeline)'
  BY DEF FilesMatchPipeline
<1> USE Distinct
<1>t. /\ inbox \subseteq Message
      /\ list \in Seq(Message \cup {Blank})
      /\ hand \in [Workers -> Message \cup {Blank, NoMsg}]
      /\ cur \in Message \cup {Blank, NoMsg}
      /\ cur # NoMsg <=> rpc \in {"lock", "push"}
      /\ m \in Message /\ m # Blank /\ m # NoMsg
  BY DEF Typed, TypeOK, ControlInv, Removable
<1>i. m \in files <=> m \in Pipeline  BY DEF FilesMatchPipeline
<1>p. Pipeline = inbox \cup {cur} \cup Queued \cup Held
  BY DEF Pipeline, Queued, Held
<1>q. Pipeline' = inbox' \cup {cur'} \cup Queued' \cup Held'
  BY DEF Pipeline, Queued, Held
<1>1. ASSUME NEW c \in Clients, NEW k \in Kinds, ClientSubmit(c, k)
      PROVE  (m \in files <=> m \in Pipeline)'
  BY <1>1, <1>i, <1>p, <1>q
  DEF ClientSubmit, mainVars, shared, workerVars, Queued, Held
<1>2. ASSUME NEW n \in inbox, RecvRequest(n)
      PROVE  (m \in files <=> m \in Pipeline)'
  <2>1. cur = NoMsg  BY <1>2, <1>t DEF RecvRequest, MainGoto
  <2> QED  BY <1>2, <2>1, <1>t, <1>i, <1>p, <1>q
           DEF RecvRequest, shared, workerVars, Queued, Held
<1>3. CASE RecvPush
  <2>1. /\ list' = Append(list, cur) /\ cur \in Message \cup {Blank}
        /\ cur' = NoMsg /\ UNCHANGED <<files, inbox, hand>>
    BY <1>3, <1>t DEF RecvPush, MainGoto, clientVars, workerVars
  <2>2. Queued' = Queued \cup {cur}
    BY <2>1, <1>t, AppendItems DEF Queued
  <2> QED  BY <2>1, <2>2, <1>t, <1>i, <1>p, <1>q DEF Held
<1>4. CASE RecvSend
  BY <1>4, <1>i, <1>p, <1>q DEF RecvSend, shared, workerVars, Queued, Held
<1>5. ASSUME NEW w \in Workers, ProcTake(w)
      PROVE  (m \in files <=> m \in Pipeline)'
  <2>1. /\ list # <<>> /\ list' = Tail(list) /\ hand[w] = NoMsg
        /\ hand' = [hand EXCEPT ![w] = Head(list)]
        /\ UNCHANGED <<files, inbox, cur>>
    BY <1>5 DEF ProcTake, WorkerGoto, clientVars, mainVars, Typed, ControlInv
  <2>2. Queued = Queued' \cup {Head(list)}
    <3>1. \A i \in DOMAIN list :
             list[i] = Head(list) \/ \E j \in DOMAIN list' : list'[j] = list[i]
      BY <2>1, <1>t, TailItems
    <3>2. \A j \in DOMAIN list' : \E i \in DOMAIN list : list'[j] = list[i]
      BY <2>1, <1>t, TailItems
    <3>3. \E i \in DOMAIN list : list[i] = Head(list)
      BY <2>1, <1>t, TailItems
    <3> QED  BY <3>1, <3>2, <3>3 DEF Queued
  <2>3. Held' \cup {NoMsg} = Held \cup {NoMsg, Head(list)}
    BY <2>1, <1>t DEF Held
  <2> QED  BY <2>1, <2>2, <2>3, <1>t, <1>i, <1>p, <1>q
<1>6. ASSUME NEW w \in Workers, ProcRemove(w)
      PROVE  (m \in files <=> m \in Pipeline)'
  <2>1. /\ files' = files \ ({hand[w]} \cap Removable)
        /\ hand' = [hand EXCEPT ![w] = NoMsg]
        /\ UNCHANGED <<inbox, cur, list>>
    BY <1>6 DEF ProcRemove, mainVars, shared
  <2>2. CASE hand[w] = m
    <3>1. m \notin inbox \cup {cur} \cup Queued
      BY <2>2, <1>t DEF HeldOnce, Queued
    <3>2. m \notin Held'
      BY <2>1, <2>2, <1>t DEF HeldOnce, Held
    <3> QED  BY <2>1, <2>2, <3>1, <3>2, <1>q DEF Queued
  <2>3. CASE hand[w] # m
    <3>1. \A v \in Workers : hand'[v] = m <=> hand[v] = m
      BY <2>1, <2>3, <1>t
    <3>2. m \in Held <=> m \in Held'
      <4>1. m \in Held <=> \E v \in Workers : hand[v] = m  BY DEF Held
      <4>2. m \in Held' <=> \E v \in Workers : hand'[v] = m  BY DEF Held
      <4> QED  BY <3>1, <4>1, <4>2
    <3> QED  BY <2>1, <2>3, <3>2, <1>i, <1>p, <1>q DEF Queued
  <2> QED  BY <2>2, <2>3
<1>7. CASE HandlerReturn
  <2>1. UNCHANGED <<files, inbox, list, hand>>
    BY <1>7 DEF HandlerReturn, clientVars, shared, workerVars
  <2>2. \/ cur' = cur
        \/ cur = NoMsg /\ cur' = Blank
    BY <1>7, <1>t DEF HandlerReturn
  <2> QED  BY <2>1, <2>2, <1>t, <1>i, <1>p, <1>q DEF Queued, Held
<1>8. CASE ~Moving
  BY <1>8, Still, <1>i, <1>p, <1>q DEF Queued, Held
<1> QED
  BY <1>1, <1>2, <1>3, <1>4, <1>5, <1>6, <1>7, <1>8 DEF Moving

-----------------------------------------------------------------------------
(* The inductive invariant of PictureServer, all of it. *)
LEMMA InitIInv == Init => IInv
<1> SUFFICES ASSUME Init PROVE IInv
  OBVIOUS
<1>1. Typed  BY InitTyped
<1>2. MutexInv /\ NoWastedSignal /\ RequestInv /\ AckedIsQueued
  BY Distinct DEF Init, MutexInv, Inside, InHandler, Threads, NoWastedSignal,
                  RequestInv, AckedIsQueued
<1>3. Pipeline \cap Message = {} /\ files = {} /\ Pipeline \cap Removable = {}
  BY Distinct DEF Init, Pipeline, Removable
<1>4. HeldOnce  BY Distinct DEF Init, HeldOnce
<1> QED  BY <1>1, <1>2, <1>3, <1>4 DEF IInv, Typed, FreshInv, FilesMatchPipeline

LEMMA NextIInv == IInv /\ [Next]_vars => IInv'
BY NextTyped, NextMutex, NextNoWastedSignal, NextRequest, NextFresh,
   NextHeldOnce, NextFiles
DEF IInv, Typed

THEOREM Invariance == Spec => []IInv
BY InitIInv, NextIInv, PTL DEF Spec

(* No message is ever in two places, for any number of workers and through *)
(* any interruption by the handler: no two workers remove one picture.     *)
THEOREM NoMessageTwice == Spec => []HeldOnce
BY Invariance, PTL DEF IInv

(* A well-formed picture is on the ramfs exactly as long as its message is *)
(* on its way to a worker: none is orphaned, none removed too early.       *)
THEOREM NoPictureOrphaned == Spec => []FilesMatchPipeline
BY Invariance, PTL DEF IInv


-----------------------------------------------------------------------------
(* Every step of the program is one of the service, or none. *)
LEMMA NextService ==
  Typed /\ RequestInv /\ HeldOnce /\ [Next]_vars => [Service!Next]_Service!vars
<1> SUFFICES ASSUME Typed, RequestInv, HeldOnce, [Next]_vars
             PROVE  [Service!Next]_Service!vars
  OBVIOUS
<1> DEFINE pending == inbox \cup ({cur} \cap Message)
<1>t. /\ inbox \subseteq Message
      /\ cur \in Message \cup {Blank, NoMsg}
      /\ peer \in Clients \cup {Nobody}
      /\ waiting \subseteq Clients
      /\ hand \in [Workers -> Message \cup {Blank, NoMsg}]
      /\ cur # NoMsg <=> rpc \in {"lock", "push"}
  BY DEF Typed, TypeOK, ControlInv
<1>m. /\ Service!Message = Message /\ Service!Removable = Removable
      /\ Service!Kinds = Kinds
  BY DEF Service!Message, Service!Removable, Service!Kinds, Message, Removable,
         Kinds
<1>v. UNCHANGED <<files, sent, waiting, pending, list, hand>>
         => UNCHANGED Service!vars
  BY DEF Service!vars
<1> USE Distinct
<1>1. ASSUME NEW c \in Clients, NEW k \in Kinds, ClientSubmit(c, k)
      PROVE  Service!Submit(c, k)
  BY <1>1 DEF ClientSubmit, Service!Submit, mainVars, shared, workerVars
<1>2. ASSUME NEW n \in inbox, RecvRequest(n) PROVE UNCHANGED Service!vars
  <2>1. /\ cur = NoMsg /\ cur' = n /\ inbox' = inbox \ {n}
        /\ UNCHANGED <<files, sent, waiting, list, hand>>
    BY <1>2, <1>t DEF RecvRequest, MainGoto, shared, workerVars
  <2>2. pending' = pending  BY <2>1, <1>t
  <2> QED  BY <2>1, <2>2, <1>v
<1>3. CASE RecvPush
  <2>1. /\ cur # NoMsg /\ cur' = NoMsg /\ list' = Append(list, cur)
        /\ UNCHANGED <<files, sent, waiting, inbox, hand>>
    BY <1>3, <1>t DEF RecvPush, MainGoto, clientVars, workerVars
  <2>2. CASE cur \in Message
    <3>1. cur \notin inbox  BY <2>2 DEF HeldOnce
    <3> QED  BY <2>1, <2>2, <3>1, <1>m DEF Service!Next, Service!Accept
  <2>3. CASE cur = Blank
    <3>1. pending' = pending  BY <2>1, <2>3
    <3> QED  BY <2>1, <2>3, <3>1 DEF Service!Next, Service!AcceptBlank
  <2> QED  BY <2>1, <2>2, <2>3, <1>t
<1>4. CASE RecvSend
  <2>1. /\ cur = NoMsg /\ waiting' = waiting \ {peer} /\ rpc = "send"
        /\ UNCHANGED <<files, sent, inbox, cur, list, hand>>
    BY <1>4, <1>t DEF RecvSend, MainGoto, shared, workerVars
  <2>2. CASE peer = Nobody
    BY <2>1, <2>2, <1>t, <1>v
  <2>3. CASE peer # Nobody
    <3>1. peer \in Clients /\ peer \in waiting /\ \A n \in inbox : n.client # peer
      BY <2>3, <1>t DEF RequestInv
    <3>2. Service!Acknowledge(peer)
      BY <2>1, <3>1 DEF Service!Acknowledge
    <3> QED  BY <3>1, <3>2 DEF Service!Next
  <2> QED  BY <2>2, <2>3
<1>5. ASSUME NEW w \in Workers, ProcTake(w) PROVE Service!Serve(w)
  <2>1. hand[w] = NoMsg  BY <1>5 DEF ProcTake, WorkerGoto, Typed, ControlInv
  <2> QED  BY <1>5, <2>1 DEF ProcTake, Service!Serve, clientVars, mainVars
<1>6. ASSUME NEW w \in Workers, ProcRemove(w) PROVE Service!Finish(w)
  <2>1. hand[w] # NoMsg  BY <1>6 DEF ProcRemove, WorkerGoto, Typed, ControlInv
  <2> QED  BY <1>6, <2>1, <1>m DEF ProcRemove, Service!Finish, mainVars, shared
<1>7. CASE HandlerReturn
  <2>1. UNCHANGED <<files, sent, waiting, inbox, list, hand>>
    BY <1>7 DEF HandlerReturn, clientVars, shared, workerVars
  <2>2. \/ cur' = cur
        \/ cur = NoMsg /\ cur' = Blank
    BY <1>7, <1>t DEF HandlerReturn
  <2>3. pending' = pending  BY <2>1, <2>2
  <2> QED  BY <2>1, <2>3, <1>v
<1>8. CASE ~Moving
  BY <1>8, Still, <1>v
<1> QED
  BY <1>1, <1>2, <1>3, <1>4, <1>5, <1>6, <1>7, <1>8, <1>m
  DEF Moving, Service!Next

(* demo_process_picture does what a picture consumer promises, whatever it *)
(* is interrupted by: it acknowledges only what it has queued, serves in   *)
(* order, and a worker removes only the picture that it holds.             *)
THEOREM Implements == Spec => ImplementsService
<1>1. Init => Service!Init
  BY Distinct DEF Init, Service!Init
<1>2. Typed /\ RequestInv /\ HeldOnce /\ [Next]_vars
         => [Service!Next]_Service!vars
  BY NextService
<1>3. IInv => Typed /\ RequestInv /\ HeldOnce
  BY DEF IInv, Typed
<1> QED  BY <1>1, <1>2, <1>3, Invariance, PTL
         DEF Spec, ImplementsService, Service!Spec


-----------------------------------------------------------------------------
(* Where the program stands still. *)

(* The handler sets exit before it takes the mutex; main comes to its end  *)
(* after exit, and after all threads; and a decoder that waits has a       *)
(* request at the socket, or is the one the socket owes the reply.         *)
EndInv ==
    /\ hpc \in {"lock", "broadcast", "unlock"} => exit = 1
    /\ rpc \in {"close", "join", "done"} => exit = 1
    /\ rpc = "done" => hpc = "idle"
    /\ \A w \in Workers : wpc[w] = "done" => victim # w
    /\ \A c \in waiting : c = peer \/ \E m \in inbox : m.client = c

LEMMA NextEnd == Typed /\ EndInv /\ [Next]_vars => EndInv'
<1> SUFFICES ASSUME Typed, EndInv, [Next]_vars PROVE EndInv'
  OBVIOUS
<1> USE Distinct DEF EndInv
<1>t. /\ exit \in {0, 1} /\ wpc \in [Workers -> {"check", "lock", "locked", "wait",
                                                "woken", "work", "done"}]
      /\ hpc \in {"idle", "exit", "lock", "broadcast", "unlock"}
      /\ victim \in Threads \cup {Nobody}
      /\ hpc = "idle" <=> victim = Nobody
      /\ peer # Nobody => rpc \in {"lock", "push", "unlock", "send"}
      /\ \A w \in Workers : wpc[w] = "done" => exit = 1
  BY DEF Typed, TypeOK, ControlInv
<1>1. ASSUME NEW c \in Clients, NEW k \in Kinds, ClientSubmit(c, k) PROVE EndInv'
  <2> DEFINE new == [client |-> c, num |-> sent[c] + 1, kind |-> k]
  <2>1. /\ inbox' = inbox \cup {new} /\ waiting' = waiting \cup {c} /\ new.client = c
        /\ UNCHANGED <<peer, rpc, exit, wpc, hpc, victim>>
    BY <1>1 DEF ClientSubmit, mainVars, shared, workerVars, sigVars
  <2> HIDE DEF new
  <2> QED  BY <2>1
<1>2. CASE RecvCheck
  BY <1>t, <1>2 DEF RecvCheck, MainGoto, clientVars, shared, workerVars, sigVars
<1>3. ASSUME NEW m \in inbox, RecvRequest(m) PROVE EndInv'
  <2>1. peer = Nobody  BY <1>t, <1>3 DEF RecvRequest, MainGoto
  <2>2. /\ inbox' = inbox \ {m} /\ peer' = m.client /\ waiting' = waiting
        /\ rpc' = "lock" /\ UNCHANGED <<exit, wpc, hpc, victim>>
    BY <1>3 DEF RecvRequest, MainGoto, shared, workerVars, sigVars
  <2>3. \A c \in waiting : c # Nobody
    BY DEF Typed, TypeOK
  <2> QED  BY <2>1, <2>2, <2>3
<1>4. CASE RecvLock
  BY <1>4 DEF RecvLock, MainGoto, clientVars, shared, workerVars, sigVars
<1>5. CASE RecvPush
  BY <1>5 DEF RecvPush, MainGoto, clientVars, workerVars, sigVars
<1>6. CASE RecvUnlock
  BY <1>6 DEF RecvUnlock, MainGoto, clientVars, shared, workerVars, sigVars
<1>7. CASE RecvSend
  BY <1>7 DEF RecvSend, MainGoto, shared, workerVars, sigVars
<1>8. CASE RecvClose
  BY <1>8 DEF RecvClose, MainGoto, clientVars, shared, workerVars, sigVars
<1>9. CASE MainJoin
  <2>1. /\ victim # Main /\ rpc = "join" /\ rpc' = "done"
        /\ \A w \in Workers : wpc[w] = "done"
        /\ UNCHANGED <<inbox, waiting, peer, exit, wpc, hpc, victim>>
    BY <1>9 DEF MainJoin, MainGoto, clientVars, shared, workerVars, sigVars
  <2>2. hpc = "idle"  BY <1>t, <2>1 DEF Threads
  <2> QED  BY <2>1, <2>2
<1>10. ASSUME NEW w \in Workers, WorkerStep(w) PROVE EndInv'
  <2>1. /\ victim # w /\ UNCHANGED <<inbox, waiting, peer, rpc, exit, hpc, victim>>
        /\ \E to : wpc' = [wpc EXCEPT ![w] = to]
    BY <1>10 DEF WorkerStep, ProcCheck, ProcLock, ProcWait, ProcClearSign, ProcWake,
                 ProcWoken, ProcTake, ProcRemove, WorkerGoto, clientVars, mainVars,
                 shared, sigVars
  <2>2. \A v \in Workers : v # w => wpc'[v] = wpc[v]  BY <1>t, <2>1
  <2> QED  BY <2>1, <2>2
<1>11. ASSUME NEW w \in Workers, SpuriousWake(w) PROVE EndInv'
  BY <1>11 DEF SpuriousWake, clientVars, mainVars, shared, workerVars, sigVars
<1>12. ASSUME NEW t \in Threads, DeliverSignal(t) PROVE EndInv'
  BY <1>12 DEF DeliverSignal, Running, clientVars, mainVars, shared, workerVars
<1>13. CASE HandlerExit
  BY <1>t, <1>13 DEF HandlerExit, clientVars, mainVars, workerVars
<1>14. CASE HandlerLock
  BY <1>t, <1>14 DEF HandlerLock, clientVars, mainVars, shared, workerVars
<1>15. CASE HandlerBroadcast
  BY <1>t, <1>15 DEF HandlerBroadcast, clientVars, mainVars, workerVars
<1>16. CASE HandlerReturn
  BY <1>t, <1>16 DEF HandlerReturn, clientVars, shared, workerVars
<1>17. CASE UNCHANGED vars
  BY <1>17 DEF vars
<1> QED
  BY <1>1, <1>2, <1>3, <1>4, <1>5, <1>6, <1>7, <1>8, <1>9, <1>10, <1>11, <1>12,
     <1>13, <1>14, <1>15, <1>16, <1>17
  DEF Next, MainStep, HandlerStep

(* Only the thread that the handler interrupted can stop with the mutex.   *)
LEMMA MutexFree ==
  ASSUME Typed, MutexInv, StandsStill, ~SelfDeadlock
  PROVE  mutex = Nobody
<1> SUFFICES ASSUME mutex # Nobody PROVE FALSE
  OBVIOUS
<1>1. mutex \in Threads /\ (hpc = "idle" <=> victim = Nobody)
  BY DEF Typed, TypeOK, ControlInv
<1>2. ~InHandler(mutex)
  BY DEF InHandler, StandsStill, HandlerBlocked
<1>3. Inside(mutex)  BY <1>1, <1>2 DEF MutexInv
<1>4. mutex = victim
  <2>1. CASE mutex = Main
    BY <1>3, <2>1, Distinct DEF Inside, StandsStill, MainBlocked
  <2>2. CASE mutex \in Workers
    BY <1>3, <2>2, Distinct DEF Inside, StandsStill, WorkerBlocked
  <2> QED  BY <1>1, <2>1, <2>2 DEF Threads
<1>5. hpc = "lock"
  BY <1>1, <1>4, Distinct DEF StandsStill, HandlerBlocked
<1> QED  BY <1>4, <1>5 DEF SelfDeadlock

LEMMA StillIsDone == IInv /\ EndInv => StillMeansDone
<1> SUFFICES ASSUME IInv, EndInv, StandsStill
             PROVE  \/ /\ exit = 0 /\ BlockedInRecv
                       /\ waiting = {} /\ files \cap Removable = {}
                    \/ /\ exit = 1
                       /\ \/ rpc = "done" /\ hpc = "idle"
                          \/ SelfDeadlock \/ BlockedInRecv \/ Stranded
  BY DEF StillMeansDone
<1>1. Typed /\ MutexInv /\ exit \in {0, 1} /\ (hpc = "idle" <=> victim = Nobody)
  BY DEF IInv, Typed, TypeOK, ControlInv
<1>2. CASE SelfDeadlock
  BY <1>2 DEF SelfDeadlock, EndInv
<1>3. CASE ~SelfDeadlock
  <2>1. mutex = Nobody  BY <1>1, <1>3, MutexFree
  <2>2. hpc = "idle" /\ victim = Nobody
    BY <1>1, <2>1 DEF StandsStill, HandlerBlocked
  <2>3. \/ rpc = "done" \/ BlockedInRecv
        \/ rpc = "join" /\ \E w \in Workers : wpc[w] # "done"
    BY <2>1, <2>2, Distinct DEF StandsStill, MainBlocked, BlockedInRecv
  <2>4. \A w \in Workers : wpc[w] = "done" \/ (w \in waiters /\ wpc[w] = "wait")
    BY <2>1, <2>2, Distinct DEF StandsStill, WorkerBlocked
  <2>5. CASE exit = 1
    BY <2>2, <2>3, <2>4, <2>5 DEF Stranded
  <2>6. CASE exit = 0
    <3>1. BlockedInRecv  BY <2>3, <2>6 DEF EndInv
    <3>2. \A w \in Workers : w \in waiters /\ wpc[w] = "wait"
      BY <2>4, <2>6 DEF IInv, ControlInv
    <3>3. peer = Nobody /\ inbox = {} /\ cur = NoMsg
      BY <3>1 DEF BlockedInRecv, IInv, ControlInv
    <3>4. waiting = {}
      <4>1. \A c \in waiting : c # Nobody  BY Distinct DEF IInv, TypeOK
      <4> QED  BY <3>3, <4>1 DEF EndInv
    <3>5. list = <<>>
      <4>1. Hunting = {}  BY <3>2 DEF Hunting
      <4>2. waiters # {}  BY <3>2, WorkersAssumption
      <4>3. Len(list) <= Cardinality(Hunting)
        BY <2>6, <4>2 DEF IInv, NoWastedSignal
      <4>4. Cardinality(Hunting) = 0  BY <4>1, FS_EmptySet
      <4>5. list \in Seq(Message \cup {Blank})  BY DEF IInv, TypeOK
      <4> QED  BY <4>3, <4>4, <4>5
    <3>6. \A w \in Workers : hand[w] = NoMsg
      BY <3>2 DEF IInv, ControlInv
    <3>7. Pipeline \cap Removable = {}
      <4>1. Pipeline \subseteq {NoMsg}  BY <3>3, <3>5, <3>6 DEF Pipeline
      <4> QED  BY <4>1, Distinct DEF Removable
    <3> QED  BY <2>6, <3>1, <3>4, <3>7 DEF IInv, FilesMatchPipeline
  <2> QED  BY <1>1, <2>5, <2>6
<1> QED  BY <1>2, <1>3

(* StillMeansDone, for any number of decoders, workers and signals: as     *)
(* long as no signal comes, no lost wake-up, unanswered request or mutex   *)
(* ever stops the program with work to do; and after a signal it stops in  *)
(* the three known ways or at its end.                                     *)
THEOREM StandsStillDone == Spec => []StillMeansDone
<1>1. Init => Typed /\ IInv /\ EndInv
  BY InitTyped, InitIInv, Distinct DEF Init, EndInv
<1>2. IInv /\ EndInv /\ [Next]_vars => (IInv /\ EndInv)'
  BY NextIInv, NextEnd DEF IInv, Typed
<1> QED  BY <1>1, <1>2, StillIsDone, PTL DEF Spec

-----------------------------------------------------------------------------
(* How long the program runs. First the steps of the workers: Steps(f) has *)
(* f[w] members for each worker w.                                         *)
Steps(f) == {t \in Workers \X (1 .. 5) : t[2] <= f[t[1]]}

Ranks == [w \in Workers |-> WorkerLeft(w)]

LEMMA UpTo == ASSUME NEW n \in Nat
              PROVE  IsFiniteSet(1 .. n) /\ Cardinality(1 .. n) = n
<1>1. /\ IsFiniteSet(1 .. n)
      /\ Cardinality(1 .. n) = IF 1 > n THEN 0 ELSE n - 1 + 1
  BY FS_Interval
<1> QED  BY <1>1

(* The members of Steps(f) for one worker and for the others. *)
LEMMA StepsOf ==
  ASSUME NEW f \in [Workers -> 0 .. 5], NEW w \in Workers
  PROVE  LET Rest == {t \in Steps(f) : t[1] # w}
         IN  /\ IsFiniteSet(Rest)
             /\ Cardinality(Rest) \in Nat
             /\ Cardinality(Steps(f)) = Cardinality(Rest) + f[w]
<1> DEFINE Rest == {t \in Steps(f) : t[1] # w}
           Mine == {w} \X (1 .. f[w])
<1>1. f[w] \in 0 .. 5  OBVIOUS
<1>2. IsFiniteSet(1 .. 5) /\ IsFiniteSet(1 .. f[w]) /\ Cardinality(1 .. f[w]) = f[w]
  <2>1. IsFiniteSet(1 .. 5)  BY UpTo
  <2>2. f[w] \in Nat  BY <1>1
  <2> QED  BY <2>1, <2>2, UpTo
<1>3. IsFiniteSet(Workers \X (1 .. 5))
  BY <1>2, WorkersAssumption, FS_Product
<1>4. IsFiniteSet(Rest)
  <2>1. Rest \subseteq Workers \X (1 .. 5)  BY DEF Steps
  <2> QED  BY <1>3, <2>1, FS_Subset
<1>5. IsFiniteSet(Mine) /\ Cardinality(Mine) = f[w]
  <2>1. IsFiniteSet({w}) /\ Cardinality({w}) = 1  BY FS_Singleton
  <2>2. IsFiniteSet(Mine) /\ Cardinality(Mine) = Cardinality({w}) * Cardinality(1 .. f[w])
    BY <1>2, <2>1, FS_Product
  <2> QED  BY <1>1, <1>2, <2>1, <2>2
<1>6. Steps(f) = Rest \cup Mine
  <2>1. ASSUME NEW t \in Steps(f), t[1] = w PROVE t \in Mine
    BY <1>1, <2>1 DEF Steps
  <2>2. ASSUME NEW t \in Mine PROVE t \in Steps(f)
    BY <1>1, <2>2 DEF Steps
  <2> QED  BY <2>1, <2>2
<1>7. Rest \cap Mine = {}  OBVIOUS
<1>8. Cardinality(Rest) \in Nat  BY <1>4, FS_CardinalityType
<1>9. Cardinality({}) = 0  BY FS_EmptySet
<1>10. Cardinality(Steps(f)) = Cardinality(Rest) + Cardinality(Mine) - Cardinality({})
  BY <1>4, <1>5, <1>6, <1>7, FS_Union
<1> HIDE DEF Rest, Mine
<1>11. Cardinality(Steps(f)) = Cardinality(Rest) + f[w]
  BY <1>1, <1>5, <1>8, <1>9, <1>10
<1> QED  BY <1>4, <1>8, <1>11 DEF Rest

(* There are at most five steps per worker. *)
LEMMA StepsBound ==
  ASSUME NEW f \in [Workers -> 0 .. 5]
  PROVE  /\ Cardinality(Steps(f)) \in Nat
         /\ Cardinality(Workers) \in Nat
         /\ Cardinality(Steps(f)) <= 5 * Cardinality(Workers)
<1>1. IsFiniteSet(1 .. 5) /\ Cardinality(1 .. 5) = 5  BY UpTo
<1>2. /\ IsFiniteSet(Workers \X (1 .. 5))
      /\ Cardinality(Workers \X (1 .. 5)) = Cardinality(Workers) * Cardinality(1 .. 5)
  BY <1>1, WorkersAssumption, FS_Product
<1>3. Cardinality(Workers) \in Nat  BY WorkersAssumption, FS_CardinalityType
<1>4. Cardinality(Workers \X (1 .. 5)) = 5 * Cardinality(Workers)
  BY <1>1, <1>2, <1>3
<1>5. Steps(f) \subseteq Workers \X (1 .. 5)  BY DEF Steps
<1>6. /\ IsFiniteSet(Steps(f))
      /\ Cardinality(Steps(f)) <= Cardinality(Workers \X (1 .. 5))
  BY <1>2, <1>5, FS_Subset
<1>7. Cardinality(Steps(f)) \in Nat  BY <1>6, FS_CardinalityType
<1> QED  BY <1>3, <1>4, <1>6, <1>7

(* When the steps of one worker change, so does the sum. *)
LEMMA StepsMoved ==
  ASSUME NEW f \in [Workers -> 0 .. 5], NEW g \in [Workers -> 0 .. 5],
         NEW w \in Workers, \A v \in Workers \ {w} : g[v] = f[v]
  PROVE  Cardinality(Steps(g)) + f[w] = Cardinality(Steps(f)) + g[w]
<1> DEFINE RestF == {t \in Steps(f) : t[1] # w}
           RestG == {t \in Steps(g) : t[1] # w}
<1>1. RestF = RestG  BY DEF Steps
<1>2. /\ Cardinality(RestF) \in Nat
      /\ Cardinality(Steps(f)) = Cardinality(RestF) + f[w]
  BY StepsOf
<1>3. /\ Cardinality(RestG) \in Nat
      /\ Cardinality(Steps(g)) = Cardinality(RestG) + g[w]
  BY StepsOf
<1>4. f[w] \in Nat /\ g[w] \in Nat  OBVIOUS
<1> HIDE DEF RestF, RestG
<1> QED  BY <1>1, <1>2, <1>3, <1>4

(* WorkersLeft counts the steps the workers have before them. *)
LEMMA RanksAre ==
  Typed => Ranks \in [Workers -> 0 .. 5] /\ WorkersLeft = Cardinality(Steps(Ranks))
<1> SUFFICES ASSUME Typed
             PROVE  /\ Ranks \in [Workers -> 0 .. 5]
                    /\ WorkersLeft = Cardinality(Steps(Ranks))
  OBVIOUS
<1>1. wpc \in [Workers -> {"check", "lock", "locked", "wait", "woken", "work", "done"}]
  BY DEF Typed, TypeOK
<1>2. ASSUME NEW w \in Workers PROVE WorkerLeft(w) \in 0 .. 5
  BY <1>1 DEF WorkerLeft
<1>3. Ranks \in [Workers -> 0 .. 5]  BY <1>2 DEF Ranks
<1>4. ASSUME NEW t \in Workers \X (1 .. 5) PROVE Ranks[t[1]] = WorkerLeft(t[1])
  BY DEF Ranks
<1>5. WorkersLeft = Cardinality(Steps(Ranks))
  <2>1. {t \in Workers \X (1 .. 5) : t[2] <= WorkerLeft(t[1])} = Steps(Ranks)
    BY <1>4 DEF Steps
  <2> QED  BY <2>1 DEF WorkersLeft
<1> QED  BY <1>3, <1>5

(* The terms of ToGo are numbers, and the workers' part has a limit. *)
TermsAreNumbers ==
    /\ MainLeft \in Nat /\ HandlerLeft \in Nat
    /\ WorkersLeft \in Nat /\ Waiting \in Nat

LEMMA Terms == Typed /\ IsFiniteSet(inbox) => TermsAreNumbers
<1> SUFFICES ASSUME Typed, IsFiniteSet(inbox) PROVE TermsAreNumbers
  OBVIOUS
<1>1. WorkersLeft \in Nat  BY RanksAre, StepsBound
<1>2. MainLeft \in Nat  BY DEF Typed, TypeOK, MainLeft
<1>3. HandlerLeft \in Nat
  <2>1. Cardinality(Workers) \in Nat  BY WorkersAssumption, FS_CardinalityType
  <2> QED  BY <2>1 DEF Typed, TypeOK, HandlerLeft
<1>4. Waiting \in Nat
  <2>1. Cardinality(inbox) \in Nat  BY FS_CardinalityType
  <2>2. Len(list) \in Nat /\ sign \in {0, 1}  BY DEF Typed, TypeOK
  <2> QED  BY <2>1, <2>2 DEF Waiting
<1> QED  BY <1>1, <1>2, <1>3, <1>4 DEF TermsAreNumbers

(* What the parts of ToGo depend on. *)
LEMMA Kept == /\ rpc' = rpc => MainLeft' = MainLeft
              /\ hpc' = hpc => HandlerLeft' = HandlerLeft
              /\ wpc' = wpc /\ waiters' = waiters => WorkersLeft' = WorkersLeft
              /\ inbox' = inbox /\ list' = list /\ sign' = sign
                   => Waiting' = Waiting
<1>1. rpc' = rpc => MainLeft' = MainLeft  BY DEF MainLeft
<1>2. hpc' = hpc => HandlerLeft' = HandlerLeft  BY DEF HandlerLeft
<1>3. wpc' = wpc /\ waiters' = waiters => WorkersLeft' = WorkersLeft
  BY DEF WorkersLeft, WorkerLeft
<1>4. inbox' = inbox /\ list' = list /\ sign' = sign => Waiting' = Waiting
  BY DEF Waiting
<1> QED  BY <1>1, <1>2, <1>3, <1>4

(* A step of one worker, or one that wakes it, moves only its own part. *)
LEMMA OneMoves ==
  ASSUME Typed, Typed', NEW w \in Workers,
         \A v \in Workers \ {w} : /\ wpc'[v] = wpc[v]
                                  /\ v \in waiters' <=> v \in waiters
  PROVE  /\ WorkerLeft(w) \in 0 .. 5 /\ WorkerLeft(w)' \in 0 .. 5
         /\ WorkersLeft' + WorkerLeft(w) = WorkersLeft + WorkerLeft(w)'
<1>1. Ranks \in [Workers -> 0 .. 5] /\ WorkersLeft = Cardinality(Steps(Ranks))
  BY RanksAre
<1>2. Ranks' \in [Workers -> 0 .. 5] /\ WorkersLeft' = Cardinality(Steps(Ranks'))
  <2>1. (/\ Ranks \in [Workers -> 0 .. 5]
         /\ WorkersLeft = Cardinality(Steps(Ranks)))'
    BY RanksAre, PTL
  <2> QED  BY <2>1 DEF Steps
<1>3. \A v \in Workers \ {w} : Ranks'[v] = Ranks[v]
  <2> SUFFICES ASSUME NEW v \in Workers \ {w} PROVE Ranks'[v] = Ranks[v]
    OBVIOUS
  <2>1. WorkerLeft(v)' = WorkerLeft(v)
    BY DEF WorkerLeft, Typed, TypeOK
  <2> QED  BY <2>1 DEF Ranks
<1>4. Cardinality(Steps(Ranks')) + Ranks[w] = Cardinality(Steps(Ranks)) + Ranks'[w]
  BY <1>1, <1>2, <1>3, StepsMoved
<1>5. Ranks[w] = WorkerLeft(w) /\ Ranks'[w] = WorkerLeft(w)'  BY DEF Ranks
<1> QED  BY <1>1, <1>2, <1>4, <1>5

(* What becomes of ToGo, from what becomes of its parts: m for the main    *)
(* thread, h for the handler, w for the workers, q for what waits.         *)
LEMMA Sums ==
  ASSUME NEW m \in Nat, NEW h \in Nat, NEW w \in Nat, NEW q \in Nat,
         NEW m1 \in Nat, NEW h1 \in Nat, NEW w1 \in Nat, NEW q1 \in Nat
  PROVE  LET old == m + h + w + q
             new == m1 + h1 + w1 + q1
         IN  /\ m1 < m /\ h1 = h /\ w1 = w /\ q1 = q => new < old
             /\ m1 = m /\ h1 < h /\ w1 = w /\ q1 = q => new < old
             /\ m1 = m /\ h1 = h /\ w1 < w /\ q1 <= q => new < old
             /\ m1 = m + 17 /\ h1 = h /\ w1 = w /\ q1 = q - 18 => new < old
             /\ m1 = m - 13 /\ h1 = h /\ w1 <= w + 5 /\ q1 <= q + 7 => new < old
             /\ m1 = m /\ h1 = h /\ w1 + 1 = w + 3 /\ q1 = q - 3 => new < old
             /\ m1 = m /\ h1 = h /\ w1 + 1 = w + 4 /\ q1 = q - 4 => new < old
             /\ m1 = m + 17 /\ h1 = h - 18 /\ w1 = w /\ q1 = q => new < old
             /\ m1 = m /\ h1 = h /\ w1 = w /\ q1 <= q + 18 => new <= old + 18
             /\ m1 = m /\ h1 = h /\ w1 <= w + 5 /\ q1 = q => new <= old + 5
OBVIOUS

LEMMA SumIsNat ==
  ASSUME NEW m \in Nat, NEW h \in Nat, NEW w \in Nat, NEW q \in Nat
  PROVE  m + h + w + q \in Nat
OBVIOUS

(* The same for the handler's two steps that count all workers. *)
LEMMA SumsOfAll ==
  ASSUME NEW m \in Nat, NEW h \in Nat, NEW w \in Nat, NEW q \in Nat,
         NEW m1 \in Nat, NEW h1 \in Nat, NEW w1 \in Nat, NEW q1 \in Nat,
         NEW all \in Nat
  PROVE  LET old == m + h + w + q
             new == m1 + h1 + w1 + q1
         IN  /\ m1 = m /\ h = 22 + all /\ h1 = 18 /\ w1 <= all /\ q1 <= q + 3
                  => new < old
             /\ m1 = m /\ h = 0 /\ h1 = 24 + all /\ w1 = w /\ q1 = q
                  => new <= old + 24 + all
OBVIOUS

(* The main thread's steps lead on. A push hands over five steps with the  *)
(* signal, four with the message and three with sign.                      *)
LEMMA MainLeadsOn ==
  ASSUME Typed, Typed', IsFiniteSet(inbox), TermsAreNumbers, TermsAreNumbers',
         MainStep
  PROVE  ToGo' < ToGo
<1>0. /\ MainLeft \in Nat /\ MainLeft' \in Nat
      /\ HandlerLeft \in Nat /\ HandlerLeft' \in Nat
      /\ WorkersLeft \in Nat /\ WorkersLeft' \in Nat
      /\ Waiting \in Nat /\ Waiting' \in Nat
  BY DEF TermsAreNumbers
<1> USE DEF MainGoto
<1>1. CASE RecvCheck
  <2>1. MainLeft' < MainLeft  BY <1>1 DEF RecvCheck, MainLeft
  <2>2. UNCHANGED <<HandlerLeft, WorkersLeft, Waiting>>
    BY <1>1, Kept DEF RecvCheck, clientVars, shared, workerVars, sigVars
  <2> QED  BY <2>1, <2>2, <1>0, Sums DEF ToGo
<1>2. ASSUME NEW m \in inbox, RecvRequest(m) PROVE ToGo' < ToGo
  <2>1. MainLeft = 2 /\ MainLeft' = 19  BY <1>2 DEF RecvRequest, MainLeft
  <2>2. UNCHANGED <<list, sign, HandlerLeft, WorkersLeft>>
    BY <1>2, Kept DEF RecvRequest, shared, workerVars, sigVars
  <2>3. inbox' = inbox \ {m}  BY <1>2 DEF RecvRequest
  <2>4. Waiting' = Waiting - 18
    <3>1. Cardinality(inbox') = Cardinality(inbox) - 1
      BY <2>3, FS_RemoveElement
    <3>2. Cardinality(inbox) \in Nat  BY FS_CardinalityType
    <3>3. Len(list) \in Nat /\ sign \in {0, 1}  BY DEF Typed, TypeOK
    <3> QED  BY <2>2, <3>1, <3>2, <3>3 DEF Waiting
  <2> QED  BY <2>1, <2>2, <2>4, <1>0, Sums DEF ToGo
<1>3. CASE RecvLock
  <2>1. MainLeft' < MainLeft  BY <1>3 DEF RecvLock, MainLeft
  <2>2. UNCHANGED <<HandlerLeft, WorkersLeft, Waiting>>
    BY <1>3, Kept DEF RecvLock, clientVars, shared, workerVars, sigVars
  <2> QED  BY <2>1, <2>2, <1>0, Sums DEF ToGo
<1>4. CASE RecvPush
  <2>1. MainLeft = 18 /\ MainLeft' = 5  BY <1>4 DEF RecvPush, MainLeft
  <2>2. UNCHANGED <<hpc, wpc, inbox>> /\ sign' = 1
    BY <1>4 DEF RecvPush, clientVars, workerVars, sigVars
  <2>3. Waiting' <= Waiting + 7
    <3>1. list \in Seq(Message \cup {Blank}) /\ cur \in Message \cup {Blank}
      BY <1>4, Distinct DEF RecvPush, Typed, TypeOK, ControlInv
    <3>2. Len(list) \in Nat /\ Len(list') = Len(list) + 1
      BY <1>4, <3>1 DEF RecvPush
    <3>3. sign \in {0, 1}  BY DEF Typed, TypeOK
    <3>4. Cardinality(inbox) \in Nat  BY FS_CardinalityType
    <3> QED  BY <2>2, <3>2, <3>3, <3>4 DEF Waiting
  <2>4. WorkersLeft' <= WorkersLeft + 5
    <3>1. CASE waiters' = waiters
      BY <2>2, <3>1, Kept, <1>0
    <3>2. ASSUME NEW w \in waiters, waiters' = waiters \ {w}
          PROVE  WorkersLeft' <= WorkersLeft + 5
      <4>1. w \in Workers  BY DEF Typed, TypeOK
      <4>2. /\ WorkerLeft(w) \in 0 .. 5 /\ WorkerLeft(w)' \in 0 .. 5
            /\ WorkersLeft' + WorkerLeft(w)
                 = WorkersLeft + WorkerLeft(w)'
        BY <2>2, <3>2, <4>1, OneMoves
      <4> QED  BY <4>2, <1>0
    <3> QED  BY <1>4, <3>1, <3>2 DEF RecvPush, SignalOne
  <2>5. HandlerLeft' = HandlerLeft  BY <2>2, Kept
  <2>6. MainLeft' = MainLeft - 13  BY <2>1
  <2> QED  BY <2>3, <2>4, <2>5, <2>6, <1>0, Sums DEF ToGo
<1>5. CASE RecvUnlock
  <2>1. MainLeft' < MainLeft  BY <1>5 DEF RecvUnlock, MainLeft
  <2>2. UNCHANGED <<HandlerLeft, WorkersLeft, Waiting>>
    BY <1>5, Kept DEF RecvUnlock, clientVars, shared, workerVars, sigVars
  <2> QED  BY <2>1, <2>2, <1>0, Sums DEF ToGo
<1>6. CASE RecvSend
  <2>1. MainLeft' < MainLeft  BY <1>6 DEF RecvSend, MainLeft
  <2>2. UNCHANGED <<HandlerLeft, WorkersLeft, Waiting>>
    BY <1>6, Kept DEF RecvSend, shared, workerVars, sigVars
  <2> QED  BY <2>1, <2>2, <1>0, Sums DEF ToGo
<1>7. CASE RecvClose
  <2>1. MainLeft' < MainLeft  BY <1>7 DEF RecvClose, MainLeft
  <2>2. UNCHANGED <<HandlerLeft, WorkersLeft, Waiting>>
    BY <1>7, Kept DEF RecvClose, clientVars, shared, workerVars, sigVars
  <2> QED  BY <2>1, <2>2, <1>0, Sums DEF ToGo
<1>8. CASE MainJoin
  <2>1. MainLeft' < MainLeft  BY <1>8 DEF MainJoin, MainLeft
  <2>2. UNCHANGED <<HandlerLeft, WorkersLeft, Waiting>>
    BY <1>8, Kept DEF MainJoin, clientVars, shared, workerVars, sigVars
  <2> QED  BY <2>1, <2>2, <1>0, Sums DEF ToGo
<1> QED
  BY <1>1, <1>2, <1>3, <1>4, <1>5, <1>6, <1>7, <1>8, MainStep DEF MainStep

(* The workers' steps lead on: one that turns back at the list took a      *)
(* message off it or cleared sign.                                         *)
LEMMA WorkerLeadsOn ==
  ASSUME Typed, Typed', IsFiniteSet(inbox), TermsAreNumbers, TermsAreNumbers',
         NEW w \in Workers, WorkerStep(w)
  PROVE  ToGo' < ToGo
<1>a. wpc \in [Workers -> {"check", "lock", "locked", "wait", "woken", "work", "done"}]
      /\ (w \in waiters => wpc[w] = "wait") /\ waiters \subseteq Workers
      /\ sign \in {0, 1} /\ list \in Seq(Message \cup {Blank})
  BY DEF Typed, TypeOK, ControlInv
<1>0. /\ MainLeft \in Nat /\ MainLeft' \in Nat
      /\ HandlerLeft \in Nat /\ HandlerLeft' \in Nat
      /\ WorkersLeft \in Nat /\ WorkersLeft' \in Nat
      /\ Waiting \in Nat /\ Waiting' \in Nat
  BY DEF TermsAreNumbers
<1>b. Cardinality(inbox) \in Nat /\ Len(list) \in Nat /\ sign \in 0 .. 1
  BY <1>a, FS_CardinalityType
<1> USE DEF WorkerGoto
<1>1. UNCHANGED <<rpc, hpc, inbox>>
  BY WorkerStep(w)
  DEF WorkerStep, ProcCheck, ProcLock, ProcWait, ProcClearSign, ProcWake,
      ProcWoken, ProcTake, ProcRemove, clientVars, mainVars, sigVars
<1>2. /\ WorkerLeft(w) \in 0 .. 5 /\ WorkerLeft(w)' \in 0 .. 5
      /\ WorkersLeft' + WorkerLeft(w)
           = WorkersLeft + WorkerLeft(w)'
  <2>1. \A v \in Workers \ {w} : /\ wpc'[v] = wpc[v]
                                 /\ v \in waiters' <=> v \in waiters
    BY <1>a, WorkerStep(w)
    DEF WorkerStep, ProcCheck, ProcLock, ProcWait, ProcClearSign, ProcWake,
        ProcWoken, ProcTake, ProcRemove
  <2> QED  BY <2>1, OneMoves
<1>c. UNCHANGED <<MainLeft, HandlerLeft>>  BY <1>1, Kept
<1>3. CASE UNCHANGED <<list, sign>> /\ WorkerLeft(w)' < WorkerLeft(w)
  <2>1. Waiting' <= Waiting  BY <1>0, <1>1, <1>3, Kept
  <2>2. WorkersLeft' < WorkersLeft  BY <1>0, <1>2, <1>3
  <2> QED  BY <1>c, <2>1, <2>2, <1>0, Sums DEF ToGo
<1>4. CASE ProcCheck(w)
  <2>1. WorkerLeft(w)' < WorkerLeft(w)
    BY <1>a, <1>4 DEF ProcCheck, WorkerLeft
  <2> QED  BY <1>3, <1>4, <2>1 DEF ProcCheck, shared
<1>5. CASE ProcLock(w)
  <2>1. WorkerLeft(w)' < WorkerLeft(w)
    BY <1>a, <1>5 DEF ProcLock, WorkerLeft
  <2> QED  BY <1>3, <1>5, <2>1 DEF ProcLock, shared
<1>6. CASE ProcWait(w)
  <2>1. WorkerLeft(w)' < WorkerLeft(w)
    BY <1>a, <1>6 DEF ProcWait, WorkerLeft
  <2> QED  BY <1>3, <1>6, <2>1 DEF ProcWait, shared
<1>7. CASE ProcClearSign(w)
  <2>1. WorkerLeft(w) = 1 /\ WorkerLeft(w)' = 3
    BY <1>a, <1>7 DEF ProcClearSign, WorkerLeft
  <2>2. Waiting' = Waiting - 3
    <3>1. sign = 1 /\ sign' = 0 /\ list' = list
      BY <1>a, <1>7 DEF ProcClearSign
    <3> QED  BY <1>1, <1>b, <3>1 DEF Waiting
  <2>3. WorkersLeft' + 1 = WorkersLeft + 3  BY <1>2, <2>1
  <2> QED  BY <1>c, <2>2, <2>3, <1>0, Sums DEF ToGo
<1>8. CASE ProcWake(w)
  <2>1. WorkerLeft(w)' < WorkerLeft(w)
    BY <1>a, <1>8 DEF ProcWake, WorkerLeft
  <2> QED  BY <1>3, <1>8, <2>1 DEF ProcWake, shared
<1>9. CASE ProcWoken(w)
  <2>1. WorkerLeft(w)' < WorkerLeft(w)
    BY <1>a, <1>9 DEF ProcWoken, WorkerLeft
  <2>2. Waiting' <= Waiting
    <3>1. sign' = 0 /\ list' = list  BY <1>9 DEF ProcWoken
    <3> QED  BY <1>1, <1>b, <3>1 DEF Waiting
  <2>3. WorkersLeft' < WorkersLeft  BY <1>0, <1>2, <2>1
  <2> QED  BY <1>c, <2>2, <2>3, <1>0, Sums DEF ToGo
<1>10. CASE ProcTake(w)
  <2>1. WorkerLeft(w) = 1 /\ WorkerLeft(w)' = 4
    BY <1>a, <1>10 DEF ProcTake, WorkerLeft
  <2>2. Waiting' = Waiting - 4
    <3>1. Len(list') = Len(list) - 1 /\ sign' = sign
      BY <1>a, <1>10 DEF ProcTake
    <3> QED  BY <1>1, <1>b, <3>1 DEF Waiting
  <2>3. WorkersLeft' + 1 = WorkersLeft + 4  BY <1>2, <2>1
  <2> QED  BY <1>c, <2>2, <2>3, <1>0, Sums DEF ToGo
<1>11. CASE ProcRemove(w)
  <2>1. WorkerLeft(w)' < WorkerLeft(w)
    BY <1>a, <1>11 DEF ProcRemove, WorkerLeft
  <2> QED  BY <1>3, <1>11, <2>1 DEF ProcRemove, shared
<1> QED
  BY <1>4, <1>5, <1>6, <1>7, <1>8, <1>9, <1>10, <1>11, WorkerStep(w)
  DEF WorkerStep

(* So do the handler's: its broadcast may wake everybody, its return may   *)
(* leave the main thread with a blank message to push.                     *)
LEMMA HandlerLeadsOn ==
  ASSUME Typed, Typed', IsFiniteSet(inbox), TermsAreNumbers, TermsAreNumbers',
         HandlerStep
  PROVE  ToGo' < ToGo
<1>0. /\ MainLeft \in Nat /\ MainLeft' \in Nat
      /\ HandlerLeft \in Nat /\ HandlerLeft' \in Nat
      /\ WorkersLeft \in Nat /\ WorkersLeft' \in Nat
      /\ Waiting \in Nat /\ Waiting' \in Nat
  BY DEF TermsAreNumbers
<1> DEFINE all == 5 * Cardinality(Workers)
<1>b. all \in Nat  BY WorkersAssumption, FS_CardinalityType
<1> HIDE DEF all
<1>1. CASE HandlerExit
  <2>1. HandlerLeft = 24 + all /\ HandlerLeft' = 23 + all
    BY <1>1 DEF HandlerExit, HandlerLeft, all
  <2>2. UNCHANGED <<MainLeft, WorkersLeft, Waiting>>
    BY <1>1, Kept DEF HandlerExit, clientVars, mainVars, workerVars
  <2>3. HandlerLeft' < HandlerLeft  BY <1>b, <2>1
  <2> QED  BY <2>2, <2>3, <1>0, Sums DEF ToGo
<1>2. CASE HandlerLock
  <2>1. HandlerLeft = 23 + all /\ HandlerLeft' = 22 + all
    BY <1>2 DEF HandlerLock, HandlerLeft, all
  <2>2. UNCHANGED <<MainLeft, WorkersLeft, Waiting>>
    BY <1>2, Kept DEF HandlerLock, clientVars, mainVars, shared, workerVars
  <2>3. HandlerLeft' < HandlerLeft  BY <1>b, <2>1
  <2> QED  BY <2>2, <2>3, <1>0, Sums DEF ToGo
<1>3. CASE HandlerBroadcast
  <2>0. WorkersLeft' <= all
    <3>1. (Ranks \in [Workers -> 0 .. 5] /\ WorkersLeft = Cardinality(Steps(Ranks)))'
      BY RanksAre, PTL
    <3>2. Cardinality(Steps(Ranks')) <= all  BY <3>1, StepsBound DEF all
    <3> QED  BY <3>1, <3>2 DEF Steps
  <2>1. HandlerLeft = 22 + all /\ HandlerLeft' = 18
    BY <1>3 DEF HandlerBroadcast, HandlerLeft, all
  <2>2. UNCHANGED <<rpc, inbox, list>> /\ sign' = 1
    BY <1>3 DEF HandlerBroadcast, clientVars, mainVars
  <2>3. Waiting' <= Waiting + 3
    <3>1. /\ Cardinality(inbox) \in Nat /\ Len(list) \in Nat /\ sign \in {0, 1}
      BY FS_CardinalityType DEF Typed, TypeOK
    <3> QED  BY <2>2, <3>1 DEF Waiting
  <2>4. MainLeft' = MainLeft  BY <2>2, Kept
  <2> QED  BY <2>0, <2>1, <2>3, <2>4, <1>0, <1>b, SumsOfAll DEF ToGo
<1>4. CASE HandlerReturn
  <2>1. HandlerLeft = 18 /\ HandlerLeft' = 0
    BY <1>4 DEF HandlerReturn, HandlerLeft
  <2>2. UNCHANGED <<WorkersLeft, Waiting>>
    BY <1>4, Kept DEF HandlerReturn, clientVars, shared, workerVars
  <2>3. MainLeft' = MainLeft \/ (MainLeft = 2 /\ MainLeft' = 19)
    BY <1>4, Kept DEF HandlerReturn, MainLeft
  <2>4. CASE MainLeft' = MainLeft
    <3>1. HandlerLeft' < HandlerLeft  BY <2>1
    <3> QED  BY <2>2, <2>4, <3>1, <1>0, Sums DEF ToGo
  <2>5. CASE MainLeft = 2 /\ MainLeft' = 19
    <3>1. MainLeft' = MainLeft + 17 /\ HandlerLeft' = HandlerLeft - 18
      BY <2>1, <2>5
    <3> QED  BY <2>2, <3>1, <1>0, Sums DEF ToGo
  <2> QED  BY <2>3, <2>4, <2>5
<1> QED  BY <1>1, <1>2, <1>3, <1>4, HandlerStep DEF HandlerStep

(* What comes from outside adds what NearsEnd allows it. *)
LEMMA SubmitAdds ==
  ASSUME Typed, IsFiniteSet(inbox), TermsAreNumbers, TermsAreNumbers',
         NEW c \in Clients, NEW k \in Kinds, ClientSubmit(c, k)
  PROVE  sent' # sent /\ ToGo' <= ToGo + 18 /\ IsFiniteSet(inbox')
<1>0. /\ MainLeft \in Nat /\ MainLeft' \in Nat
      /\ HandlerLeft \in Nat /\ HandlerLeft' \in Nat
      /\ WorkersLeft \in Nat /\ WorkersLeft' \in Nat
      /\ Waiting \in Nat /\ Waiting' \in Nat
  BY DEF TermsAreNumbers
<1>1. UNCHANGED <<MainLeft, HandlerLeft, WorkersLeft>>
  BY ClientSubmit(c, k), Kept
  DEF ClientSubmit, mainVars, workerVars, sigVars
<1>2. sent' # sent
  <2>1. sent \in [Clients -> 0 .. MaxRequests] /\ sent' = [sent EXCEPT ![c] = @ + 1]
    BY ClientSubmit(c, k) DEF ClientSubmit, Typed, TypeOK
  <2>2. sent[c] \in Nat /\ sent'[c] = sent[c] + 1  BY <2>1, BoundsAssumption
  <2> QED  BY <2>2
<1>3. PICK m : inbox' = inbox \cup {m}
  BY ClientSubmit(c, k) DEF ClientSubmit
<1>4. /\ IsFiniteSet(inbox')
      /\ Cardinality(inbox') = Cardinality(inbox)
         \/ Cardinality(inbox') = Cardinality(inbox) + 1
  BY <1>3, FS_AddElement
<1>5. Waiting' <= Waiting + 18
  <2>1. UNCHANGED <<list, sign>>  BY ClientSubmit(c, k) DEF ClientSubmit, shared
  <2>2. /\ Cardinality(inbox) \in Nat /\ Len(list) \in Nat /\ sign \in {0, 1}
    BY FS_CardinalityType DEF Typed, TypeOK
  <2> QED  BY <1>4, <2>1, <2>2 DEF Waiting
<1>6. ToGo' <= ToGo + 18  BY <1>0, <1>1, <1>5, Sums DEF ToGo
<1> QED  BY <1>2, <1>4, <1>6

LEMMA WakeAdds ==
  ASSUME Typed, Typed', TermsAreNumbers, TermsAreNumbers',
         NEW w \in Workers, SpuriousWake(w)
  PROVE  spurious' # spurious /\ ToGo' <= ToGo + 5
<1>0. /\ MainLeft \in Nat /\ MainLeft' \in Nat
      /\ HandlerLeft \in Nat /\ HandlerLeft' \in Nat
      /\ WorkersLeft \in Nat /\ WorkersLeft' \in Nat
      /\ Waiting \in Nat /\ Waiting' \in Nat
  BY DEF TermsAreNumbers
<1>1. UNCHANGED <<MainLeft, HandlerLeft, Waiting>>
  BY SpuriousWake(w), Kept
  DEF SpuriousWake, clientVars, mainVars, shared, sigVars
<1>2. spurious \in Nat /\ spurious' = spurious + 1
  BY SpuriousWake(w), BoundsAssumption DEF SpuriousWake, Typed, TypeOK
<1>3. wpc' = wpc /\ waiters' = waiters \ {w}
  BY SpuriousWake(w) DEF SpuriousWake, workerVars
<1>4. /\ WorkerLeft(w) \in 0 .. 5 /\ WorkerLeft(w)' \in 0 .. 5
      /\ WorkersLeft' + WorkerLeft(w) = WorkersLeft + WorkerLeft(w)'
  BY <1>3, OneMoves
<1>5. WorkersLeft' <= WorkersLeft + 5  BY <1>0, <1>4
<1>6. ToGo' <= ToGo + 5  BY <1>0, <1>1, <1>5, Sums DEF ToGo
<1> QED  BY <1>2, <1>6

LEMMA SignalAdds ==
  ASSUME Typed, TermsAreNumbers, TermsAreNumbers',
         NEW t \in Threads, DeliverSignal(t)
  PROVE  signals' # signals /\ ToGo' <= ToGo + 24 + 5 * Cardinality(Workers)
<1> DEFINE all == 5 * Cardinality(Workers)
<1>0. /\ MainLeft \in Nat /\ MainLeft' \in Nat
      /\ HandlerLeft \in Nat /\ HandlerLeft' \in Nat
      /\ WorkersLeft \in Nat /\ WorkersLeft' \in Nat
      /\ Waiting \in Nat /\ Waiting' \in Nat
  BY DEF TermsAreNumbers
<1>1. UNCHANGED <<MainLeft, WorkersLeft, Waiting>>
  BY DeliverSignal(t), Kept
  DEF DeliverSignal, clientVars, mainVars, shared, workerVars
<1>2. signals \in Nat /\ signals' = signals + 1
  BY DeliverSignal(t), BoundsAssumption DEF DeliverSignal, Typed, TypeOK
<1>3. all \in Nat  BY WorkersAssumption, FS_CardinalityType
<1>4. HandlerLeft = 0 /\ HandlerLeft' = 24 + all
  BY DeliverSignal(t) DEF DeliverSignal, HandlerLeft
<1> HIDE DEF all
<1>5. ToGo' <= ToGo + 24 + all  BY <1>0, <1>1, <1>3, <1>4, SumsOfAll DEF ToGo
<1> QED  BY <1>2, <1>5 DEF all

(* The requests at the socket stay finitely many. *)
LEMMA StaysFinite ==
  ASSUME Typed, IsFiniteSet(inbox), [Next]_vars
  PROVE  IsFiniteSet(inbox')
<1>1. \/ inbox' = inbox
      \/ \E m : inbox' = inbox \cup {m}
      \/ \E m : inbox' = inbox \ {m}
  BY DEF Next, vars, ClientSubmit, MainStep, RecvCheck, RecvRequest, RecvLock,
         RecvPush, RecvUnlock, RecvSend, RecvClose, MainJoin, WorkerStep,
         ProcCheck, ProcLock, ProcWait, ProcClearSign, ProcWake, ProcWoken,
         ProcTake, ProcRemove, SpuriousWake, DeliverSignal, HandlerStep,
         HandlerExit, HandlerLock, HandlerBroadcast, HandlerReturn, clientVars
<1> QED  BY <1>1, FS_AddElement, FS_RemoveElement

LEMMA NextToGo ==
  ASSUME Typed, Typed', IsFiniteSet(inbox), TermsAreNumbers, TermsAreNumbers',
         [Next]_vars
  PROVE  [/\ ToGo \in Nat /\ ToGo' \in Nat
          /\ \/ ToGo' < ToGo
             \/ sent' # sent /\ ToGo' <= ToGo + 18
             \/ spurious' # spurious /\ ToGo' <= ToGo + 5
             \/ signals' # signals
                /\ ToGo' <= ToGo + 24 + 5 * Cardinality(Workers)]_vars
<1>1. ToGo \in Nat  BY SumIsNat DEF ToGo, TermsAreNumbers
<1>2. ToGo' \in Nat
  <2>1. /\ MainLeft' \in Nat /\ HandlerLeft' \in Nat
        /\ WorkersLeft' \in Nat /\ Waiting' \in Nat
    BY DEF TermsAreNumbers
  <2> QED  BY <2>1, SumIsNat DEF ToGo
<1>3. CASE MainStep  BY <1>1, <1>2, <1>3, MainLeadsOn
<1>4. CASE HandlerStep  BY <1>1, <1>2, <1>4, HandlerLeadsOn
<1>5. ASSUME NEW w \in Workers, WorkerStep(w) PROVE ToGo' < ToGo
  BY <1>5, WorkerLeadsOn
<1>6. ASSUME NEW w \in Workers, SpuriousWake(w)
      PROVE  spurious' # spurious /\ ToGo' <= ToGo + 5
  BY <1>6, WakeAdds
<1>7. ASSUME NEW t \in Threads, DeliverSignal(t)
      PROVE  signals' # signals /\ ToGo' <= ToGo + 24 + 5 * Cardinality(Workers)
  BY <1>7, SignalAdds
<1>8. ASSUME NEW c \in Clients, NEW k \in Kinds, ClientSubmit(c, k)
      PROVE  sent' # sent /\ ToGo' <= ToGo + 18
  BY <1>8, SubmitAdds
<1>9. CASE UNCHANGED vars  BY <1>9
<1> QED
  BY <1>1, <1>2, <1>3, <1>4, <1>5, <1>6, <1>7, <1>8, <1>9 DEF Next

(* NearsEnd, for any number of decoders, workers and signals: between two  *)
(* pictures, signals or spurious wake-ups the program takes a bounded      *)
(* number of steps, whoever is scheduled. Where it then stands still,      *)
(* StandsStillDone says what it has done.                                  *)
THEOREM ComesToEnd == Spec => NearsEnd
<1>1. Init => Typed /\ IsFiniteSet(inbox)
  BY InitTyped, FS_EmptySet DEF Init
<1>2. Typed /\ IsFiniteSet(inbox) /\ [Next]_vars => (Typed /\ IsFiniteSet(inbox))'
  BY NextTyped, StaysFinite
<1>3. (Typed /\ IsFiniteSet(inbox) => TermsAreNumbers)'
  BY Terms, PTL
<1>4. Typed /\ IsFiniteSet(inbox) /\ [Next]_vars
        => [/\ ToGo \in Nat /\ ToGo' \in Nat
            /\ \/ ToGo' < ToGo
               \/ sent' # sent /\ ToGo' <= ToGo + 18
               \/ spurious' # spurious /\ ToGo' <= ToGo + 5
               \/ signals' # signals
                  /\ ToGo' <= ToGo + 24 + 5 * Cardinality(Workers)]_vars
  BY <1>2, <1>3, Terms, NextToGo
<1> QED  BY <1>1, <1>2, <1>4, PTL DEF Spec, NearsEnd

=============================================================================
