------------------------- MODULE FileDispatchProofs -------------------------
(***************************************************************************)
(* TLAPS proofs about FileDispatch, for any number of files, forks and     *)
(* deaths and any -p: what the counter of children says, and that files go *)
(* to the children as DispatchService has it.                              *)
(***************************************************************************)
EXTENDS FileDispatch, FiniteSetTheorems, TLAPS

(* CounterExact is not inductive by itself: a reaping that found no child  *)
(* is discounted too, and never happens while active counts one.           *)
CounterInv ==
    /\ CounterExact
    /\ rpc = "spawn" => cpc = "off"
    /\ rpc \in {"drain", "done"} => cpc = "quit"
    /\ cpc = "wait" /\ ~raced => active > 0
    /\ rpc = "done" => active <= 0

(* A file is in the directory, with the replier, or on its way to one      *)
(* child; a child has one request or one answer.                           *)
PlaceInv ==
    /\ \A c \in Children : file[c] # None <=> child[c] = "decode"
    /\ \A c \in Children : reply[c] # None =>
          child[c] = "await" /\ reply[c] \notin todo /\ reply[c] # entry
    /\ \A c, d \in Children : reply[c] = reply[d] /\ reply[c] # None => c = d
    /\ entry \notin todo
    /\ rpc \in {"spawn", "next"} => entry = None

PeerInv ==
    /\ \A c \in Children : c \in requests \/ c = peer =>
          child[c] \in {"await", "zombie", "reaped"} /\ reply[c] = None
    /\ peer \notin requests
    /\ rpc = "send" => peer \in Children
    /\ rpc \in {"poll", "refill", "load", "store", "send"} => entry \in Files

IInv == TypeOK /\ CounterInv /\ PlaceInv /\ PeerInv

USE FilesAssumption, NamesAssumption, BoundsAssumption

-----------------------------------------------------------------------------

LEMMA InitTypes == Init => TypeOK
<1> SUFFICES ASSUME Init PROVE TypeOK
  OBVIOUS
<1>1. /\ child \in [Children -> {"unborn", "init", "ask", "await", "decode", "zombie",
                                "reaped"}]
      /\ file \in [Children -> Files \cup {None}]
      /\ reply \in [Children -> Files \cup {None}]
  BY DEF Init
<1>2. deaths \in 0 .. MaxDeaths  BY DEF Init
<1>3. /\ maxpross \in MaxPross /\ todo \subseteq Files /\ entry \in Files \cup {None}
      /\ peer \in Children \cup {None} /\ requests \subseteq Children
      /\ rpc = "spawn" /\ cpc = "off" /\ rtmp = 0 /\ ctmp = 0 /\ active = 0
      /\ exit = 0
  BY DEF Init
<1>4. raced \in BOOLEAN  BY DEF Init
<1>5. rtmp \in Int /\ ctmp \in Int /\ active \in Int /\ exit \in {0, 1}  BY <1>3
<1> QED  BY <1>1, <1>2, <1>3, <1>4, <1>5 DEF TypeOK

(* Every step keeps the types. *)
LEMMA NextTypes == TypeOK /\ [Next]_vars => TypeOK'
<1> SUFFICES ASSUME TypeOK, [Next]_vars PROVE TypeOK'
  OBVIOUS
<1> USE DEF TypeOK
<1>1. ASSUME NEW c \in Children, SpawnChild(c) PROVE TypeOK'
  BY <1>1 DEF SpawnChild, MainGoto, Born, checkVars
<1>2. CASE SpawnFails
  BY <1>2 DEF SpawnFails, MainGoto, checkVars, childVars
<1>3. CASE SpawnDone
  BY <1>3 DEF SpawnDone, childVars
<1>4. ASSUME NEW f \in Files, NextFile(f) PROVE TypeOK'
  BY <1>4 DEF NextFile, MainGoto, checkVars, childVars
<1>5. CASE DirectoryEnd \/ RecvNothing \/ RefillEnd \/ FeedingDone
  BY <1>5 DEF DirectoryEnd, RecvNothing, RefillEnd, FeedingDone, MainGoto, checkVars,
     childVars
<1>6. ASSUME NEW c \in Children, RecvRequest(c) PROVE TypeOK'
  BY <1>6 DEF RecvRequest, MainGoto, checkVars
<1>7. ASSUME NEW c \in Children, Refill(c) PROVE TypeOK'
  BY <1>7 DEF Refill, MainGoto, Born, checkVars
<1>8. CASE LoadIncrement \/ StoreIncrement
  <2>1. rtmp' \in Int /\ active' \in Int /\ rpc' \in {"store", "refill"}
    BY <1>8 DEF LoadIncrement, StoreIncrement, MainGoto
  <2>2. raced' \in BOOLEAN
    BY <1>8 DEF LoadIncrement, StoreIncrement
  <2> QED  BY <1>8, <2>1, <2>2 DEF LoadIncrement, StoreIncrement, checkVars, childVars
<1>9. CASE SendReply
  BY <1>9 DEF SendReply, MainGoto, checkVars
<1>10. CASE JoinChecker \/ DrainEnd
  BY <1>10 DEF JoinChecker, DrainEnd, MainGoto, checkVars, childVars
<1>11. CASE DrainOne
  <2>1. child' \in [Children -> {"unborn", "init", "ask", "await", "decode", "zombie",
                                 "reaped"}]
    BY <1>11 DEF DrainOne, Reaped
  <2> QED  BY <1>11, <2>1 DEF DrainOne, MainGoto, checkVars
<1>12. CASE CheckExit \/ CheckActive \/ LoadDecrement \/ StoreDecrement \/ CheckLeave
  <2>1. /\ ctmp' \in Int /\ active' \in Int /\ exit' \in {0, 1}
        /\ cpc' \in {"test", "look", "wait", "store", "leave", "quit"}
        /\ UNCHANGED <<maxpross, mainVars, childVars>>
    BY <1>12 DEF CheckExit, CheckActive, LoadDecrement, StoreDecrement, CheckLeave,
       CheckGoto
  <2>2. raced' \in BOOLEAN
    BY <1>12 DEF CheckExit, CheckActive, LoadDecrement, StoreDecrement, CheckLeave
  <2> QED  BY <2>1, <2>2 DEF mainVars, childVars
<1>13. CASE CheckWait
  BY <1>13 DEF CheckWait, CheckGoto, Reaped, mainVars
<1>14. ASSUME NEW c \in Children, ChildInit(c) \/ ChildAsk(c) PROVE TypeOK'
  BY <1>14 DEF ChildInit, ChildAsk, ChildGoto, mainVars, checkVars
<1>15. ASSUME NEW c \in Children, ChildReceive(c) PROVE TypeOK'
  <2>1. child' \in [Children -> {"unborn", "init", "ask", "await", "decode", "zombie",
                                 "reaped"}]
    BY <1>15 DEF ChildReceive, ChildGoto
  <2>2. file' \in [Children -> Files \cup {None}]
    BY <1>15 DEF ChildReceive
  <2> QED  BY <1>15, <2>1, <2>2 DEF ChildReceive, mainVars, checkVars
<1>16. ASSUME NEW c \in Children, ChildDecoded(c) PROVE TypeOK'
  BY <1>16 DEF ChildDecoded, ChildGoto, mainVars, checkVars
<1>17. ASSUME NEW c \in Children, Dies(c) PROVE TypeOK'
  <2>1. deaths' \in 0 .. MaxDeaths
    BY <1>17 DEF Dies
  <2> QED  BY <1>17, <2>1 DEF Dies, mainVars, checkVars
<1>18. CASE UNCHANGED vars
  BY <1>18 DEF vars
<1> QED
  BY <1>1, <1>2, <1>3, <1>4, <1>5, <1>6, <1>7, <1>8, <1>9, <1>10, <1>11, <1>12,
     <1>13, <1>14, <1>15, <1>16, <1>17, <1>18
  DEF Next, MainStep, CheckStep, ChildStep, ChildTimeout, ChildCrash

-----------------------------------------------------------------------------
(* The counter. *)

LEMMA Finite ==
  ASSUME TypeOK
  PROVE  /\ IsFiniteSet(Unreaped) /\ IsFiniteSet(Alive)
         /\ Cardinality(Unreaped) \in Nat /\ Cardinality(Alive) \in Nat
         /\ Cardinality(Alive) <= Cardinality(Unreaped)
         /\ Cardinality(Unreaped) = 0 <=> Unreaped = {}
<1>1. IsFiniteSet(Children)  BY FS_Interval DEF Children
<1>2. Unreaped \subseteq Children /\ Alive \subseteq Unreaped
  BY DEF Unreaped, Alive, Zombies
<1>3. IsFiniteSet(Unreaped)  BY <1>1, <1>2, FS_Subset
<1> QED  BY <1>2, <1>3, FS_Subset, FS_CardinalityType, FS_EmptySet

LEMMA BornCounts ==
  ASSUME TypeOK, NEW c \in Children, Born(c)
  PROVE  /\ Cardinality(Unreaped') = Cardinality(Unreaped) + 1
         /\ Cardinality(Alive') = Cardinality(Alive) + 1
<1>1. Unreaped' = Unreaped \cup {c} /\ c \notin Unreaped
      /\ Alive' = Alive \cup {c} /\ c \notin Alive
  BY DEF TypeOK, Born, Unborn, Unreaped, Alive, Zombies
<1> QED  BY <1>1, Finite, FS_AddElement

LEMMA ReapedCounts ==
  ASSUME TypeOK, NEW c \in Zombies, Reaped(c)
  PROVE  /\ Cardinality(Unreaped') = Cardinality(Unreaped) - 1
         /\ Cardinality(Alive') = Cardinality(Alive)
<1>1. Unreaped' = Unreaped \ {c} /\ c \in Unreaped /\ Alive' = Alive
  BY DEF TypeOK, Reaped, Unreaped, Alive, Zombies
<1> QED  BY <1>1, Finite, FS_RemoveElement

LEMMA ChildCounts ==
  ASSUME TypeOK, TypeOK', NEW c \in Children, ChildStep(c) \/ ChildCrash(c)
  PROVE  /\ Unreaped' = Unreaped
         /\ Cardinality(Alive') <= Cardinality(Alive)
         /\ UNCHANGED <<rpc, cpc, active, raced, maxpross>>
<1>1. /\ child[c] \in {"init", "ask", "await", "decode"}
      /\ \E s \in {"ask", "await", "decode", "zombie"} :
            child' = [child EXCEPT ![c] = s]
  BY DEF ChildStep, ChildCrash, ChildInit, ChildAsk, ChildReceive, ChildDecoded,
     ChildTimeout, Dies, ChildGoto, Alive
<1>2. Unreaped' = Unreaped /\ Alive' \subseteq Alive
  BY <1>1 DEF TypeOK, Unreaped, Alive, Zombies
<1>3. UNCHANGED <<rpc, cpc, active, raced, maxpross>>
  BY DEF ChildStep, ChildCrash, ChildInit, ChildAsk, ChildReceive, ChildDecoded,
     ChildTimeout, Dies, mainVars, checkVars
<1> QED  BY <1>2, <1>3, Finite, FS_Subset

LEMMA InitCounter == Init => CounterInv
<1> SUFFICES ASSUME Init PROVE CounterInv
  OBVIOUS
<1>1. Unreaped = {} /\ Alive = {}
  BY DEF Init, Unreaped, Alive, Zombies
<1>2. Cardinality(Unreaped) = 0 /\ Cardinality(Alive) = 0
  BY <1>1, FS_EmptySet
<1>3. rpc = "spawn" /\ cpc = "off" /\ active = 0 /\ maxpross \in Nat
  BY DEF Init
<1> QED  BY <1>2, <1>3 DEF CounterInv, CounterExact

LEMMA NextCounter == TypeOK /\ TypeOK' /\ CounterInv /\ [Next]_vars => CounterInv'
<1> SUFFICES ASSUME TypeOK, TypeOK', CounterInv, [Next]_vars PROVE CounterInv'
  OBVIOUS
<1>a. /\ Cardinality(Unreaped) \in Nat /\ Cardinality(Alive) \in Nat
      /\ Cardinality(Alive) <= Cardinality(Unreaped)
      /\ Cardinality(Unreaped) = 0 <=> Unreaped = {}
  BY Finite
<1>b. active \in Int /\ rtmp \in Int /\ ctmp \in Int /\ maxpross \in Nat
  BY DEF TypeOK
<1>same. child' = child => Unreaped' = Unreaped /\ Alive' = Alive
  BY DEF Unreaped, Alive, Zombies
<1>1. ASSUME NEW c \in Children, SpawnChild(c) PROVE CounterInv'
  <2>1. /\ Cardinality(Unreaped') = Cardinality(Unreaped) + 1
        /\ Cardinality(Alive') = Cardinality(Alive) + 1
    BY <1>1, BornCounts DEF SpawnChild
  <2> QED  BY <1>1, <1>a, <1>b, <2>1 DEF SpawnChild, MainGoto, checkVars, CounterInv,
              CounterExact
<1>2. CASE SpawnFails \/ SpawnDone \/ DirectoryEnd \/ RecvNothing \/ RefillEnd
           \/ FeedingDone \/ JoinChecker \/ DrainEnd \/ SendReply
           \/ (\E f \in Files : NextFile(f)) \/ (\E c \in Children : RecvRequest(c))
  <2>1. /\ UNCHANGED <<child, active, raced, maxpross>>
        /\ rpc \notin {"load", "store"} /\ rpc' \notin {"load", "store", "spawn"}
    BY <1>2 DEF SpawnFails, SpawnDone, DirectoryEnd, RecvNothing, RefillEnd, FeedingDone,
       JoinChecker, DrainEnd, SendReply, NextFile, RecvRequest, MainGoto, childVars
  <2>2. \/ UNCHANGED cpc
        \/ cpc = "off" /\ cpc' = "test"
    BY <1>2 DEF SpawnFails, SpawnDone, DirectoryEnd, RecvNothing, RefillEnd, FeedingDone,
       JoinChecker, DrainEnd, SendReply, NextFile, RecvRequest, checkVars, CounterInv
  <2>3. rpc' \in {"drain", "done"} => cpc' = "quit" /\ (rpc' = "done" => active <= 0)
    BY <1>2 DEF SpawnFails, SpawnDone, DirectoryEnd, RecvNothing, RefillEnd, FeedingDone,
       JoinChecker, DrainEnd, SendReply, NextFile, RecvRequest, MainGoto, checkVars,
       CounterInv
  <2> QED  BY <1>same, <2>1, <2>2, <2>3 DEF CounterInv, CounterExact
<1>3. ASSUME NEW c \in Children, Refill(c) PROVE CounterInv'
  <2>1. /\ Cardinality(Unreaped') = Cardinality(Unreaped) + 1
        /\ Cardinality(Alive') = Cardinality(Alive) + 1
    BY <1>3, BornCounts DEF Refill
  <2> QED  BY <1>3, <1>a, <1>b, <2>1 DEF Refill, MainGoto, checkVars, CounterInv,
              CounterExact
<1>4. CASE LoadIncrement
  BY <1>4, <1>same DEF LoadIncrement, MainGoto, checkVars, childVars, CounterInv,
     CounterExact
<1>5. CASE StoreIncrement
  <2>1. ~raced' => ~raced /\ active' = active + 1
    BY <1>5 DEF StoreIncrement
  <2>2. /\ rpc = "store" /\ rpc' = "refill" /\ UNCHANGED <<child, cpc, maxpross>>
    BY <1>5 DEF StoreIncrement, MainGoto, checkVars, childVars
  <2> QED  BY <1>a, <1>b, <1>same, <2>1, <2>2 DEF CounterInv, CounterExact
<1>6. CASE DrainOne
  <2>1. /\ rpc = "drain" /\ rpc' = "drain" /\ active > 0 /\ active' = active - 1
        /\ UNCHANGED <<cpc, maxpross, raced>> /\ cpc = "quit"
    BY <1>6 DEF DrainOne, MainGoto, checkVars, CounterInv
  <2>2. ~raced => Unreaped # {}
    BY <1>a, <1>b, <2>1 DEF CounterInv, CounterExact
  <2>3. ~raced => /\ Cardinality(Unreaped') = Cardinality(Unreaped) - 1
                  /\ Cardinality(Alive') = Cardinality(Alive)
    BY <1>6, <2>2, ReapedCounts DEF DrainOne
  <2> QED  BY <1>a, <1>b, <2>1, <2>3 DEF CounterInv, CounterExact
<1>7. CASE CheckExit \/ CheckActive \/ CheckLeave
  <2>1. /\ UNCHANGED <<rpc, child, active, raced, maxpross>>
        /\ cpc \in {"test", "look", "leave"}
        /\ cpc' \in {"look", "leave", "wait", "quit"}
        /\ cpc' = "wait" => active > 0
    BY <1>7, <1>b DEF CheckExit, CheckActive, CheckLeave, CheckGoto, mainVars, childVars
  <2> QED  BY <1>same, <2>1 DEF CounterInv, CounterExact
<1>8. CASE CheckWait
  <2>1. cpc = "wait" /\ UNCHANGED <<rpc, active, raced, maxpross>>
    BY <1>8 DEF CheckWait, CheckGoto, mainVars
  <2>2. CASE Zombies # {}
    <3>1. /\ Cardinality(Unreaped') = Cardinality(Unreaped) - 1
          /\ Cardinality(Alive') = Cardinality(Alive)
      BY <1>8, <2>2, ReapedCounts DEF CheckWait
    <3>2. cpc' = "load"  BY <1>8, <2>2 DEF CheckWait, CheckGoto
    <3> QED  BY <1>a, <1>b, <2>1, <3>1, <3>2 DEF CounterInv, CounterExact
  <2>3. CASE Zombies = {}
    <3>1. UNCHANGED child /\ cpc' \in {"load", "test"}
          /\ (cpc' = "load" => Unreaped = {})
      BY <1>8, <2>3 DEF CheckWait, CheckGoto
    <3>2. ~raced => Unreaped # {}
      BY <1>a, <1>b, <2>1 DEF CounterInv, CounterExact
    <3> QED  BY <1>same, <2>1, <3>1, <3>2 DEF CounterInv, CounterExact
  <2> QED  BY <2>2, <2>3
<1>9. CASE LoadDecrement
  BY <1>9, <1>same DEF LoadDecrement, CheckGoto, mainVars, childVars, CounterInv,
     CounterExact
<1>10. CASE StoreDecrement
  <2>1. ~raced' => ~raced /\ active' = active - 1
    BY <1>10 DEF StoreDecrement
  <2>2. /\ cpc = "store" /\ cpc' = "test" /\ UNCHANGED <<child, rpc, maxpross>>
    BY <1>10 DEF StoreDecrement, CheckGoto, mainVars, childVars
  <2> QED  BY <1>a, <1>b, <1>same, <2>1, <2>2 DEF CounterInv, CounterExact
<1>11. ASSUME NEW c \in Children, ChildStep(c) \/ ChildCrash(c) PROVE CounterInv'
  <2>1. /\ Unreaped' = Unreaped
        /\ Cardinality(Alive') <= Cardinality(Alive)
        /\ UNCHANGED <<rpc, cpc, active, raced, maxpross>>
    BY <1>11, ChildCounts
  <2>2. Cardinality(Alive') \in Nat
    <3>1. Alive' \subseteq Unreaped'  BY DEF Alive, Unreaped
    <3> QED  BY <2>1, <3>1, Finite, FS_Subset, FS_CardinalityType
  <2> QED  BY <1>a, <1>b, <2>1, <2>2 DEF CounterInv, CounterExact
<1>12. CASE UNCHANGED vars
  BY <1>12, <1>same DEF vars, CounterInv, CounterExact
<1> QED
  BY <1>1, <1>2, <1>3, <1>4, <1>5, <1>6, <1>7, <1>8, <1>9, <1>10, <1>11, <1>12
  DEF Next, MainStep, CheckStep

-----------------------------------------------------------------------------
(* Where files, requests and answers are. *)

LEMMA InitPlace == Init => PlaceInv /\ PeerInv
BY DEF Init, PlaceInv, PeerInv, Children

LEMMA NextPlace == TypeOK /\ PlaceInv /\ PeerInv /\ [Next]_vars => PlaceInv'
<1> SUFFICES ASSUME TypeOK, PlaceInv, PeerInv, [Next]_vars PROVE PlaceInv'
  OBVIOUS
<1> USE DEF PlaceInv
<1>c. \A c \in Children : c # None  BY DEF Children
<1>1. ASSUME NEW c \in Children, Born(c), UNCHANGED <<file, reply, todo, entry>>,
             rpc' \in {"spawn", "next"} => rpc \in {"spawn", "next"}
      PROVE  PlaceInv'
  BY <1>1 DEF Born, Unborn, TypeOK
<1>2. CASE /\ UNCHANGED <<child, file, reply, todo, entry>>
           /\ rpc' \in {"spawn", "next"} => rpc \in {"spawn", "next"}
  BY <1>2
<1>3. ASSUME NEW f \in Files, NextFile(f) PROVE PlaceInv'
  BY <1>3 DEF NextFile, MainGoto, childVars, TypeOK
<1>4. CASE SendReply
  <2>1. /\ peer \in Children /\ entry \in Files /\ rpc' = "next" /\ entry' = None
        /\ UNCHANGED <<todo, child, file>>
        /\ reply' = IF child[peer] = "await"
                    THEN [reply EXCEPT ![peer] = entry] ELSE reply
    BY <1>4 DEF SendReply, MainGoto, PeerInv
  <2>2. \A c \in Children : c # peer => reply'[c] = reply[c]
    BY <2>1 DEF TypeOK
  <2>3. \/ reply' = reply
        \/ child[peer] = "await" /\ reply'[peer] = entry
    BY <2>1 DEF TypeOK
  <2>4. None \notin todo /\ \A c \in Children : reply[c] # None => reply[c] \in Files
    BY DEF TypeOK
  <2> QED  BY <2>1, <2>2, <2>3, <2>4
<1>5. ASSUME NEW c \in Children, child[c] = "zombie", Reaped(c),
             UNCHANGED <<file, reply, todo, entry>>, rpc' \in {"spawn", "next"} => rpc \in {"spawn", "next"}
      PROVE  PlaceInv'
  BY <1>5 DEF Reaped, TypeOK
<1>6. ASSUME NEW c \in Children, ChildInit(c) \/ ChildAsk(c) PROVE PlaceInv'
  BY <1>6 DEF ChildInit, ChildAsk, ChildGoto, mainVars, TypeOK
<1>7. ASSUME NEW c \in Children, ChildReceive(c) PROVE PlaceInv'
  <2>1. /\ reply[c] # None /\ reply[c] \in Files /\ child[c] = "await" /\ file[c] = None
        /\ reply' = [reply EXCEPT ![c] = None]
        /\ UNCHANGED <<todo, entry, rpc>>
    BY <1>7 DEF ChildReceive, ChildGoto, mainVars, TypeOK
  <2>2. \/ child' = [child EXCEPT ![c] = "zombie"] /\ file' = file
        \/ child' = [child EXCEPT ![c] = "decode"] /\ file' = [file EXCEPT ![c] = reply[c]]
    BY <1>7 DEF ChildReceive, ChildGoto
  <2> QED  BY <2>1, <2>2 DEF TypeOK
<1>8. ASSUME NEW c \in Children, ChildDecoded(c) PROVE PlaceInv'
  BY <1>8 DEF ChildDecoded, ChildGoto, mainVars, TypeOK
<1>9. ASSUME NEW c \in Children, Dies(c) PROVE PlaceInv'
  BY <1>9 DEF Dies, mainVars, TypeOK
<1>10. ASSUME NEW c \in Children, SpawnChild(c) \/ Refill(c) PROVE PlaceInv'
  BY <1>1, <1>10 DEF SpawnChild, Refill, MainGoto
<1>11. CASE SpawnFails \/ SpawnDone \/ DirectoryEnd \/ RecvNothing \/ RefillEnd
            \/ LoadIncrement \/ StoreIncrement \/ FeedingDone \/ JoinChecker \/ DrainEnd
            \/ (\E c \in Children : RecvRequest(c)) \/ UNCHANGED vars
  BY <1>2, <1>11 DEF SpawnFails, SpawnDone, DirectoryEnd, RecvNothing, RefillEnd,
     LoadIncrement, StoreIncrement, FeedingDone, JoinChecker, DrainEnd, RecvRequest,
     MainGoto, childVars, vars
<1>12. CASE DrainOne \/ CheckWait
  <2>1. /\ UNCHANGED <<file, reply, todo, entry>>
        /\ rpc' \in {"spawn", "next"} => rpc \in {"spawn", "next"}
        /\ (\E c \in Zombies : Reaped(c)) \/ UNCHANGED child
    BY <1>12 DEF DrainOne, CheckWait, CheckGoto, MainGoto, mainVars
  <2> QED  BY <1>2, <1>5, <2>1 DEF Zombies
<1>13. CASE CheckExit \/ CheckActive \/ LoadDecrement \/ StoreDecrement \/ CheckLeave
  BY <1>2, <1>13 DEF CheckExit, CheckActive, LoadDecrement, StoreDecrement, CheckLeave,
     mainVars, childVars
<1> QED
  BY <1>3, <1>4, <1>6, <1>7, <1>8, <1>9, <1>10, <1>11, <1>12, <1>13
  DEF Next, MainStep, CheckStep, ChildStep, ChildTimeout, ChildCrash

LEMMA NextPeer == TypeOK /\ PlaceInv /\ PeerInv /\ [Next]_vars => PeerInv'
<1> SUFFICES ASSUME TypeOK, PlaceInv, PeerInv, [Next]_vars PROVE PeerInv'
  OBVIOUS
<1> USE DEF PeerInv
<1>c. None \notin Children  BY DEF Children
<1>1. CASE /\ UNCHANGED <<file, reply, requests, peer>>
           /\ \A c \in Children : child'[c] = child[c]
                 \/ child[c] = "unborn" \/ child'[c] \in {"zombie", "reaped"}
           /\ rpc' = "send" => rpc = "send"
           /\ rpc' \in {"poll", "refill", "load", "store", "send"} =>
                 entry' = entry /\ rpc \in {"poll", "refill", "load", "store", "send"}
  BY <1>1
<1>2. ASSUME NEW c \in Children, RecvRequest(c) PROVE PeerInv'
  <2>1. rpc = "poll" /\ entry' = entry /\ c \in requests
    BY <1>2 DEF RecvRequest, MainGoto
  <2> QED  BY <1>2, <2>1 DEF RecvRequest, MainGoto, TypeOK
<1>3. CASE SendReply
  <2>1. /\ peer \in Children /\ rpc' = "next" /\ peer' = None
        /\ UNCHANGED <<child, requests>>
        /\ \A c \in Children : c # peer => reply'[c] = reply[c]
    BY <1>3 DEF SendReply, MainGoto, TypeOK
  <2> QED  BY <1>c, <2>1 DEF TypeOK
<1>4. ASSUME NEW c \in Children, ChildAsk(c) PROVE PeerInv'
  <2>1. child[c] = "ask" /\ c # peer /\ c \notin requests /\ reply[c] = None
    BY <1>4 DEF ChildAsk, ChildGoto, PlaceInv
  <2> QED  BY <1>4, <2>1 DEF ChildAsk, ChildGoto, mainVars, TypeOK
<1>5. ASSUME NEW c \in Children, ChildReceive(c) PROVE PeerInv'
  <2>1. c \notin requests /\ c # peer  BY <1>5 DEF ChildReceive
  <2>2. /\ UNCHANGED <<requests, peer, rpc, entry>>
        /\ \A d \in Children : d # c => child'[d] = child[d] /\ reply'[d] = reply[d]
    BY <1>5 DEF ChildReceive, ChildGoto, mainVars, TypeOK
  <2> QED  BY <2>1, <2>2
<1>6. ASSUME NEW c \in Children, ChildInit(c) \/ ChildDecoded(c) PROVE PeerInv'
  BY <1>6 DEF ChildInit, ChildDecoded, ChildGoto, mainVars, TypeOK
<1>7. ASSUME NEW c \in Children, Dies(c) PROVE PeerInv'
  BY <1>7 DEF Dies, mainVars, TypeOK
<1>8. ASSUME NEW c \in Children, SpawnChild(c) \/ Refill(c) PROVE PeerInv'
  <2>1. Born(c) /\ UNCHANGED <<file, reply, requests, peer>> /\ rpc' # "send"
    BY <1>8 DEF SpawnChild, Refill, MainGoto
  <2>2. \A d \in Children : child'[d] = child[d] \/ child[d] = "unborn"
    BY <2>1 DEF Born, Unborn, TypeOK
  <2>3. /\ rpc' = "spawn" \/ (rpc' = "load" /\ rpc = "refill")
        /\ entry' = entry
    BY <1>8 DEF SpawnChild, Refill, MainGoto
  <2> QED  BY <1>1, <2>1, <2>2, <2>3
<1>9. CASE SpawnFails \/ SpawnDone \/ DirectoryEnd \/ RecvNothing \/ RefillEnd
           \/ LoadIncrement \/ StoreIncrement \/ FeedingDone \/ JoinChecker \/ DrainEnd
           \/ UNCHANGED vars
  BY <1>1, <1>9 DEF SpawnFails, SpawnDone, DirectoryEnd, RecvNothing, RefillEnd,
     LoadIncrement, StoreIncrement, FeedingDone, JoinChecker, DrainEnd,
     MainGoto, childVars, vars
<1>10. CASE DrainOne \/ CheckWait
  <2>1. /\ UNCHANGED <<file, reply, requests, peer, entry>>
        /\ rpc' = "drain" \/ rpc' = rpc
        /\ (\E c \in Zombies : Reaped(c)) \/ UNCHANGED child
    BY <1>10 DEF DrainOne, CheckWait, CheckGoto, MainGoto, mainVars
  <2>2. \A c \in Children : child'[c] = child[c] \/ child'[c] = "reaped"
    BY <2>1 DEF Reaped, Zombies, TypeOK
  <2> QED  BY <1>1, <2>1, <2>2
<1>11. CASE CheckExit \/ CheckActive \/ LoadDecrement \/ StoreDecrement \/ CheckLeave
  BY <1>1, <1>11 DEF CheckExit, CheckActive, LoadDecrement, StoreDecrement, CheckLeave,
     mainVars, childVars
<1>12. ASSUME NEW f \in Files, NextFile(f) PROVE PeerInv'
  BY <1>12 DEF NextFile, MainGoto, childVars
<1> QED
  BY <1>2, <1>3, <1>4, <1>5, <1>6, <1>7, <1>8, <1>9, <1>10, <1>11, <1>12
  DEF Next, MainStep, CheckStep, ChildStep, ChildTimeout, ChildCrash

-----------------------------------------------------------------------------
(* The files, as DispatchService has them. *)

Gone == {c \in Children : child[c] \in {"zombie", "reaped"}}

LEMMA InitDispatch == Init => Dispatch!Init
<1> SUFFICES ASSUME Init PROVE Dispatch!Init
  OBVIOUS
<1>1. Undelivered = Files  BY DEF Init, Undelivered
<1>2. Gone = {}  BY DEF Init, Gone
<1>3. file = [c \in Children |-> None]  BY DEF Init
<1> QED  BY <1>1, <1>2, <1>3 DEF Dispatch!Init, Gone

LEMMA NextDispatch == IInv /\ [Next]_vars => [Dispatch!Next]_(Dispatch!vars)
<1> SUFFICES ASSUME IInv, [Next]_vars PROVE [Dispatch!Next]_(Dispatch!vars)
  OBVIOUS
<1>t. TypeOK /\ PlaceInv /\ PeerInv  BY DEF IInv
<1>c. None \notin Children /\ None \notin Files  BY DEF Children
<1>0. ASSUME UNCHANGED <<file, Gone, Undelivered>>
      PROVE  [Dispatch!Next]_(Dispatch!vars)
  BY <1>0 DEF Dispatch!vars, Gone
<1>1. CASE UNCHANGED <<child, file, reply, todo, entry>>
  BY <1>0, <1>1 DEF Gone, Undelivered
<1>2. ASSUME NEW c \in Children, Born(c) \/ (c \in Zombies /\ Reaped(c)),
             UNCHANGED <<file, reply, todo, entry>>
      PROVE  [Dispatch!Next]_(Dispatch!vars)
  <2>1. Gone' = Gone
    BY <1>t, <1>2 DEF Born, Unborn, Zombies, Reaped, Gone, TypeOK
  <2>2. Undelivered' = Undelivered  BY <1>2 DEF Undelivered
  <2> QED  BY <1>0, <1>2, <2>1, <2>2
<1>3. ASSUME NEW f \in Files, NextFile(f) PROVE [Dispatch!Next]_(Dispatch!vars)
  <2>1. /\ todo' = todo \ {f} /\ f \in todo /\ entry' = f /\ entry = None
        /\ UNCHANGED <<child, file, reply>>
    BY <1>t, <1>3 DEF NextFile, MainGoto, childVars, PlaceInv
  <2>2. Undelivered' = Undelivered  BY <1>t, <1>c, <2>1 DEF Undelivered, TypeOK
  <2>3. Gone' = Gone  BY <2>1 DEF Gone
  <2> QED  BY <1>0, <2>1, <2>2, <2>3
<1>4. CASE SendReply
  <2>1. /\ peer \in Children /\ entry \in Files /\ entry' = None
        /\ reply[peer] = None /\ child[peer] \in {"await", "zombie", "reaped"}
        /\ UNCHANGED <<todo, child, file>>
    BY <1>t, <1>4 DEF SendReply, MainGoto, PeerInv
  <2>2. Gone' = Gone  BY <2>1 DEF Gone
  <2>3. CASE child[peer] = "await"
    <3>1. reply' = [reply EXCEPT ![peer] = entry]  BY <1>4, <2>3 DEF SendReply
    <3>2. reply'[peer] = entry /\ \A c \in Children : c # peer => reply'[c] = reply[c]
      BY <1>t, <2>1, <3>1 DEF TypeOK
    <3>3. Undelivered' = Undelivered
      BY <1>t, <1>c, <2>1, <3>2 DEF Undelivered, TypeOK
    <3> QED  BY <1>0, <2>1, <2>2, <3>3
  <2>4. CASE child[peer] # "await"
    <3>1. reply' = reply  BY <1>4, <2>4 DEF SendReply
    <3>2. peer \in Gone  BY <2>1, <2>4 DEF Gone
    <3>3. entry \in Undelivered  BY <2>1 DEF Undelivered
    <3>4. Undelivered' = Undelivered \ {entry}
      BY <1>t, <1>c, <2>1, <3>1 DEF Undelivered, TypeOK, PlaceInv
    <3>5. Dispatch!Lose(entry)
      BY <2>1, <2>2, <3>2, <3>3, <3>4 DEF Dispatch!Lose, Gone
    <3> QED  BY <2>1, <3>5 DEF Dispatch!Next
  <2> QED  BY <2>3, <2>4
<1>5. ASSUME NEW c \in Children, ChildInit(c) \/ ChildAsk(c)
      PROVE  [Dispatch!Next]_(Dispatch!vars)
  <2>1. /\ UNCHANGED <<file, reply, todo, entry>>
        /\ child[c] \in {"init", "ask"}
        /\ \E s \in {"ask", "await"} : child' = [child EXCEPT ![c] = s]
    BY <1>5 DEF ChildInit, ChildAsk, ChildGoto, mainVars
  <2>2. Gone' = Gone  BY <1>t, <2>1 DEF Gone, TypeOK
  <2>3. Undelivered' = Undelivered  BY <2>1 DEF Undelivered
  <2> QED  BY <1>0, <2>1, <2>2, <2>3
<1>6. ASSUME NEW c \in Children, NEW f \in Files \cup {None}, f = reply[c],
             child[c] # "unborn",
             c \notin Gone, reply' = [reply EXCEPT ![c] = None], UNCHANGED <<todo, entry>>
      PROVE  /\ f # None => f \in Undelivered /\ Undelivered' = Undelivered \ {f}
             /\ f = None => Undelivered' = Undelivered
  <2>1. reply'[c] = None /\ \A d \in Children : d # c => reply'[d] = reply[d]
    BY <1>t, <1>6 DEF TypeOK
  <2>2. \A d \in Children : d # c /\ f # None => reply[d] # f
    BY <1>t, <1>6 DEF PlaceInv
  <2>3. f # None => f \notin todo /\ f # entry
    BY <1>t, <1>6 DEF PlaceInv
  <2> QED  BY <1>c, <1>6, <2>1, <2>2, <2>3 DEF Undelivered
<1>7. ASSUME NEW c \in Children, ChildReceive(c) PROVE [Dispatch!Next]_(Dispatch!vars)
  <2> DEFINE f == reply[c]
  <2>1. /\ f \in Files /\ child[c] = "await" /\ file[c] = None /\ c \notin Gone
        /\ reply' = [reply EXCEPT ![c] = None] /\ UNCHANGED <<todo, entry>>
    BY <1>t, <1>7 DEF ChildReceive, ChildGoto, mainVars, TypeOK, PlaceInv, Gone
  <2>2. f \in Undelivered /\ Undelivered' = Undelivered \ {f}
    BY <1>c, <1>6, <2>1
  <2>3. CASE f \in ExitFiles
    <3>1. child' = [child EXCEPT ![c] = "zombie"] /\ file' = file
      BY <1>7, <2>3 DEF ChildReceive, ChildGoto
    <3>2. Gone' = Gone \cup {c}  BY <1>t, <3>1 DEF Gone, TypeOK
    <3>3. file' = [file EXCEPT ![c] = None]  BY <1>t, <2>1, <3>1 DEF TypeOK
    <3>4. Dispatch!Leave(c)
      BY <2>1, <2>2, <3>2, <3>3 DEF Dispatch!Leave, Gone
    <3> QED  BY <3>4 DEF Dispatch!Next
  <2>4. CASE f \notin ExitFiles
    <3>1. child' = [child EXCEPT ![c] = "decode"] /\ file' = [file EXCEPT ![c] = f]
      BY <1>7, <2>4 DEF ChildReceive, ChildGoto
    <3>2. Gone' = Gone  BY <1>t, <2>1, <3>1 DEF Gone, TypeOK
    <3>3. Dispatch!Hand(c, f)
      BY <2>1, <2>2, <3>1, <3>2 DEF Dispatch!Hand, Gone
    <3> QED  BY <2>1, <3>3 DEF Dispatch!Next
  <2> QED  BY <2>3, <2>4
<1>8. ASSUME NEW c \in Children, ChildDecoded(c) PROVE [Dispatch!Next]_(Dispatch!vars)
  <2>1. /\ child[c] = "decode" /\ file[c] # None /\ child' = [child EXCEPT ![c] = "ask"]
        /\ file' = [file EXCEPT ![c] = None] /\ UNCHANGED <<reply, todo, entry>>
    BY <1>t, <1>8 DEF ChildDecoded, ChildGoto, mainVars, PlaceInv
  <2>2. Gone' = Gone  BY <1>t, <2>1 DEF Gone, TypeOK
  <2>3. Undelivered' = Undelivered  BY <2>1 DEF Undelivered
  <2>4. Dispatch!Finish(c)
    BY <2>1, <2>2, <2>3 DEF Dispatch!Finish, Gone
  <2> QED  BY <2>4 DEF Dispatch!Next
<1>9. ASSUME NEW c \in Children, ChildTimeout(c) \/ ChildCrash(c)
      PROVE  [Dispatch!Next]_(Dispatch!vars)
  <2> DEFINE f == reply[c]
  <2>1. /\ child[c] \in {"init", "ask", "await", "decode"} /\ c \notin Gone
        /\ f \in Files \cup {None}
        /\ child' = [child EXCEPT ![c] = "zombie"]
        /\ file' = [file EXCEPT ![c] = None]
        /\ reply' = [reply EXCEPT ![c] = None] /\ UNCHANGED <<todo, entry>>
    BY <1>t, <1>9 DEF ChildTimeout, ChildCrash, Dies, Alive, Gone, mainVars, TypeOK
  <2>2. Gone' = Gone \cup {c}  BY <1>t, <2>1 DEF Gone, TypeOK
  <2>3. Undelivered' = Undelivered \/ \E g \in Undelivered : Undelivered' = Undelivered \ {g}
    BY <1>6, <2>1
  <2>4. Dispatch!Leave(c)
    BY <2>1, <2>2, <2>3 DEF Dispatch!Leave, Gone
  <2> QED  BY <2>4 DEF Dispatch!Next
<1>10. ASSUME NEW c \in Children, SpawnChild(c) \/ Refill(c)
       PROVE  [Dispatch!Next]_(Dispatch!vars)
  BY <1>2, <1>10 DEF SpawnChild, Refill
<1>11. CASE SpawnFails \/ SpawnDone \/ DirectoryEnd \/ RecvNothing \/ RefillEnd
            \/ LoadIncrement \/ StoreIncrement \/ FeedingDone \/ JoinChecker \/ DrainEnd
            \/ (\E c \in Children : RecvRequest(c)) \/ UNCHANGED vars
  BY <1>1, <1>11 DEF SpawnFails, SpawnDone, DirectoryEnd, RecvNothing, RefillEnd,
     LoadIncrement, StoreIncrement, FeedingDone, JoinChecker, DrainEnd, RecvRequest,
     childVars, vars
<1>12. CASE DrainOne \/ CheckWait
  <2>1. /\ UNCHANGED <<file, reply, todo, entry>>
        /\ (\E c \in Zombies : Reaped(c)) \/ UNCHANGED child
    BY <1>12 DEF DrainOne, CheckWait, mainVars
  <2> QED  BY <1>1, <1>2, <2>1 DEF Zombies
<1>13. CASE CheckExit \/ CheckActive \/ LoadDecrement \/ StoreDecrement \/ CheckLeave
  BY <1>1, <1>13 DEF CheckExit, CheckActive, LoadDecrement, StoreDecrement, CheckLeave,
     mainVars, childVars
<1> QED
  BY <1>3, <1>4, <1>5, <1>7, <1>8, <1>9, <1>10, <1>11, <1>12, <1>13
  DEF Next, MainStep, CheckStep, ChildStep

LEMMA Inductive == Spec => []IInv
<1>1. Init => IInv
  BY InitTypes, InitCounter, InitPlace DEF IInv
<1>2. IInv /\ [Next]_vars => IInv'
  BY NextTypes, NextCounter, NextPlace, NextPeer DEF IInv
<1> QED  BY <1>1, <1>2, PTL DEF Spec

-----------------------------------------------------------------------------

(* Type correctness of the file dispatcher.                                *)
THEOREM TypeCorrect == Spec => []TypeOK
<1>1. IInv => TypeOK  BY DEF IInv
<1> QED  BY <1>1, Inductive, PTL

(* Without overlapping updates, active counts the children not yet reaped, *)
(* and no more than maxpross live.                                         *)
THEOREM CounterCounts == Spec => []CounterExact
<1>1. IInv => CounterExact  BY DEF IInv, CounterInv
<1> QED  BY <1>1, Inductive, PTL

(* Without overlapping updates the parent has reaped every child when it   *)
(* ends.                                                                   *)
THEOREM NoneLeft == Spec => []NoneLeftUnlessRaced
<1>1. IInv => NoneLeftUnlessRaced
  <2> SUFFICES ASSUME IInv, rpc = "done", ~raced PROVE Unreaped = {}
    BY DEF NoneLeftUnlessRaced
  <2>1. active = Cardinality(Unreaped) /\ active <= 0
    <3>1. cpc = "quit" /\ active <= 0  BY DEF IInv, CounterInv
    <3>2. Cardinality(Unreaped) \in Nat  BY Finite DEF IInv
    <3> QED  BY <3>1, <3>2 DEF IInv, CounterInv, CounterExact
  <2> QED  BY <2>1, Finite DEF IInv
<1> QED  BY <1>1, Inductive, PTL

(* A file goes to one child at most, and is given up only with a child,    *)
(* whatever the counter does: the dispatcher is a DispatchService.         *)
THEOREM Implements == Spec => ImplementsDispatch
<1>1. Init => Dispatch!Init  BY InitDispatch
<1>2. IInv /\ [Next]_vars => [Dispatch!Next]_(Dispatch!vars)  BY NextDispatch
<1> QED  BY <1>1, <1>2, Inductive, PTL DEF Spec, Dispatch!Spec, ImplementsDispatch

-----------------------------------------------------------------------------
(* What stands still.                                                      *)

(* A child that waits is heard, check_thread runs while the parent hands   *)
(* out files, and is told when the parent waits for it.                    *)
EndInv ==
    /\ \A c \in Children : child[c] = "await" /\ reply[c] = None =>
          c \in requests \/ (rpc = "send" /\ c = peer)
    /\ rpc = "join" => exit = 1 \/ cpc = "quit"
    /\ cpc = "off" => rpc \in {"spawn", "failed"}

LEMMA InitEnd == Init => EndInv
BY DEF Init, EndInv

LEMMA NextEnd == IInv /\ EndInv /\ [Next]_vars => EndInv'
<1> SUFFICES ASSUME IInv, EndInv, [Next]_vars PROVE EndInv'
  OBVIOUS
<1> USE DEF mainVars, checkVars, childVars, MainGoto, CheckGoto, ChildGoto
<1>t. TypeOK /\ PeerInv  BY DEF IInv
<1>1. CASE /\ UNCHANGED <<requests, reply>>
           /\ \A c \in Children : child'[c] = "await" => child[c] = "await"
           /\ rpc = "send" => rpc' = "send" /\ peer' = peer
           /\ rpc' = "join" => exit' = 1 \/ cpc' = "quit"
           /\ cpc' = "off" => cpc = "off" /\ (rpc = "spawn" => rpc' \in {"spawn", "failed"})
                                          /\ (rpc = "failed" => rpc' = "failed")
  <2> QED  BY <1>1 DEF EndInv
<1>2. ASSUME NEW c \in Children, SpawnChild(c) PROVE EndInv'
  <2>1. /\ UNCHANGED <<requests, reply, cpc>> /\ rpc = "spawn" /\ rpc' = "spawn"
        /\ child' = [child EXCEPT ![c] = "init"]
    BY <1>2 DEF SpawnChild, Born
  <2>2. \A d \in Children : child'[d] = "await" => child[d] = "await"
    BY <1>t, <2>1 DEF TypeOK
  <2> QED  BY <1>1, <2>1, <2>2
<1>3. ASSUME NEW c \in Children, Refill(c) PROVE EndInv'
  <2>1. /\ UNCHANGED <<requests, reply, cpc>> /\ rpc = "refill" /\ rpc' = "load"
        /\ child' = [child EXCEPT ![c] = "init"]
    BY <1>3 DEF Refill, Born
  <2>2. \A d \in Children : child'[d] = "await" => child[d] = "await"
    BY <1>t, <2>1 DEF TypeOK
  <2> QED  BY <1>1, <2>1, <2>2
<1>4. ASSUME NEW c \in Children, RecvRequest(c) PROVE EndInv'
  <2>1. /\ UNCHANGED <<reply, child, cpc, exit>> /\ rpc = "poll" /\ rpc' = "send"
        /\ requests' = requests \ {c} /\ peer' = c
    BY <1>4 DEF RecvRequest
  <2> QED  BY <2>1 DEF EndInv
<1>5. CASE \/ SpawnFails \/ SpawnDone \/ DirectoryEnd \/ RecvNothing \/ RefillEnd
           \/ LoadIncrement \/ StoreIncrement \/ FeedingDone \/ JoinChecker \/ DrainEnd
           \/ \E f \in Files : NextFile(f)
  <2>1. /\ UNCHANGED <<requests, reply, child>> /\ rpc # "send"
        /\ rpc' = "join" => exit' = 1
    BY <1>5 DEF SpawnFails, SpawnDone, DirectoryEnd, RecvNothing, RefillEnd,
         LoadIncrement, StoreIncrement, FeedingDone, JoinChecker, DrainEnd, NextFile
  <2>2. cpc' = "off" => cpc = "off" /\ (rpc = "spawn" => rpc' = "failed")
                                    /\ (rpc = "failed" => rpc' = "failed")
    BY <1>5 DEF SpawnFails, SpawnDone, DirectoryEnd, RecvNothing, RefillEnd,
         LoadIncrement, StoreIncrement, FeedingDone, JoinChecker, DrainEnd, NextFile
  <2> QED  BY <1>1, <2>1, <2>2
<1>6. CASE SendReply
  <2>1. /\ UNCHANGED <<requests, child, cpc>> /\ rpc = "send" /\ rpc' = "next"
        /\ reply' = IF child[peer] = "await" THEN [reply EXCEPT ![peer] = entry] ELSE reply
    BY <1>6 DEF SendReply
  <2>2. peer \in Children /\ entry \in Files /\ entry # None  BY <1>t, <2>1 DEF PeerInv
  <2>3. \A d \in Children : d # peer => reply'[d] = reply[d]
    BY <1>t, <2>1 DEF TypeOK
  <2>4. child[peer] = "await" => reply'[peer] # None
    BY <1>t, <2>1, <2>2 DEF TypeOK
  <2> QED  BY <2>1, <2>3, <2>4 DEF EndInv
<1>7. CASE DrainOne \/ CheckWait
  <2>1. /\ UNCHANGED <<requests, reply, exit, peer>> /\ rpc' = rpc
        /\ cpc' = "off" => cpc = "off"
        /\ cpc = "quit" => cpc' = "quit"
    BY <1>7 DEF DrainOne, CheckWait
  <2>2. \A d \in Children : child'[d] = "await" => child[d] = "await"
    <3>1. child' = child \/ \E c \in Children : child' = [child EXCEPT ![c] = "reaped"]
      BY <1>7 DEF DrainOne, CheckWait, Reaped, Zombies
    <3> QED  BY <1>t, <3>1 DEF TypeOK
  <2> QED  BY <2>1, <2>2 DEF EndInv
<1>8. CASE CheckExit \/ CheckActive \/ LoadDecrement \/ StoreDecrement \/ CheckLeave
  <2>1. /\ UNCHANGED <<requests, reply, child, rpc, peer>> /\ cpc' # "off"
        /\ exit' = exit \/ cpc' = "quit"
        /\ cpc = "quit" => cpc' = "quit"
    BY <1>8 DEF CheckExit, CheckActive, LoadDecrement, StoreDecrement, CheckLeave
  <2> QED  BY <2>1 DEF EndInv
<1>9. ASSUME NEW c \in Children, ChildAsk(c) PROVE EndInv'
  <2>1. /\ UNCHANGED <<reply, rpc, cpc, exit, peer>> /\ requests' = requests \cup {c}
        /\ child' = [child EXCEPT ![c] = "await"]
    BY <1>9 DEF ChildAsk
  <2>2. \A d \in Children : d # c => child'[d] = child[d]
    BY <1>t, <2>1 DEF TypeOK
  <2> QED  BY <2>1, <2>2 DEF EndInv
<1>10. ASSUME NEW c \in Children,
              ChildInit(c) \/ ChildReceive(c) \/ ChildDecoded(c) \/ ChildTimeout(c)
                 \/ ChildCrash(c)
       PROVE EndInv'
  <2>1. /\ UNCHANGED <<rpc, cpc, exit, peer, requests>>
        /\ reply' = reply \/ reply' = [reply EXCEPT ![c] = None]
        /\ \E s \in {"ask", "zombie", "decode"} : child' = [child EXCEPT ![c] = s]
    BY <1>10 DEF ChildInit, ChildReceive, ChildDecoded, ChildTimeout, ChildCrash, Dies
  <2>2. /\ child'[c] # "await"
        /\ \A d \in Children : d # c => child'[d] = child[d] /\ reply'[d] = reply[d]
    BY <1>t, <2>1 DEF TypeOK
  <2> QED  BY <2>1, <2>2 DEF EndInv
<1>11. CASE UNCHANGED vars
  BY <1>11 DEF vars, EndInv
<1> QED
  BY <1>2, <1>3, <1>4, <1>5, <1>6, <1>7, <1>8, <1>9, <1>10, <1>11
     DEF Next, MainStep, CheckStep, ChildStep

(* Where parent, check_thread and children all wait, the parent has ended  *)
(* or polls for dead children, and no child waits for an answer.           *)
THEOREM StandsStillDone == Spec => []StillMeansDone
<1>1. IInv /\ EndInv => StillMeansDone
  <2> SUFFICES ASSUME IInv, EndInv, StandsStill PROVE StillMeansDone
    BY DEF StillMeansDone
  <2>t. TypeOK /\ CounterInv /\ PlaceInv /\ PeerInv  BY DEF IInv
  <2>1. Alive = {}
    <3> SUFFICES ASSUME NEW c \in Children, c \in Alive PROVE FALSE
      BY DEF Alive
    <3>1. child[c] = "await" /\ reply[c] = None /\ Feeding
      BY DEF StandsStill, ChildBlocked, Alive
    <3>2. ReplierPolls  BY <3>1 DEF StandsStill, MainBlocked, Feeding
    <3> QED  BY <3>1, <3>2 DEF ReplierPolls, EndInv
  <2>2. cpc \in {"off", "quit"}  BY <2>1 DEF StandsStill, CheckerBlocked, CheckerPolls
  <2>3. rpc \in {"failed", "done"} \/ Unwatched
    <3>1. CASE ReplierPolls
      <4>1. cpc = "quit" /\ Feeding /\ active >= maxpross
        BY <2>2, <3>1 DEF ReplierPolls, Feeding, EndInv
      <4> QED  BY <2>1, <4>1 DEF Unwatched
    <3>2. CASE rpc = "join" /\ cpc # "quit"
      BY <2>2, <3>2 DEF EndInv
    <3> QED  BY <2>1, <3>1, <3>2 DEF StandsStill, MainBlocked
  <2> QED  BY <2>1, <2>3 DEF StillMeansDone
<1>2. Spec => [](IInv /\ EndInv)
  <2>1. Init => EndInv
    BY InitEnd
  <2>2. IInv /\ EndInv /\ [Next]_vars => EndInv'
    BY NextEnd
  <2> QED  BY <2>1, <2>2, Inductive, PTL DEF Spec
<1> QED  BY <1>1, <1>2, PTL

=============================================================================
