----------------------------- MODULE FileDispatch -----------------------------
(***************************************************************************)
(* demo_file_decoding.c as a set of processes. The parent forks maxpross   *)
(* children (requester_process), starts check_thread and hands out file    *)
(* names over a ZeroMQ REP socket (replier_process); a child asks for a    *)
(* file, decodes it, asks again, and leaves when no answer came for three  *)
(* seconds or when the answer starts with "exit". check_thread reaps dead  *)
(* children and decrements `active`, the replier forks and increments it:  *)
(* a plain int, read and written back in two steps by both.                *)
(*                                                                         *)
(* demo_decode_file is one step of a child here (DecodeSession models it). *)
(***************************************************************************)
EXTENDS Integers, FiniteSets

CONSTANTS Files,       (* regular files of the input directory             *)
          ExitFiles,   (* those whose name starts with "exit"              *)
          MaxForks,    (* bound: processes the parent may ever fork        *)
          MaxPross,    (* bound: what -p may be                            *)
          MaxDeaths,   (* bound: children that crash, or that wait for     *)
                       (* three seconds, while files are handed out        *)
          None         (* no file, no child                                *)

VARIABLES maxpross, (* dctx->maxpross                                    *)
          todo,     (* files readdir has yet to return                     *)
          entry,    (* the file the replier is about to hand out           *)
          rpc,      (* where the main thread is                            *)
          rtmp,     (* the value it read from active                       *)
          peer,     (* the child the REP socket owes a reply               *)
          cpc,      (* where check_thread is                               *)
          ctmp,     (* the value it read from active                       *)
          active,   (* dctx->active                                        *)
          exit,     (* dctx->exit                                          *)
          child,    (* what each child does                                *)
          file,     (* the file each child decodes                         *)
          requests, (* children whose request is at the REP socket         *)
          reply,    (* the file name on its way to each child              *)
          deaths,   (* deaths while files were handed out                  *)
          raced     (* history: an update of active overwrote another      *)

mainVars  == <<todo, entry, rpc, rtmp, peer>>
checkVars == <<cpc, ctmp>>
childVars == <<child, file, requests, reply, deaths>>
vars == <<maxpross, todo, entry, rpc, rtmp, peer, cpc, ctmp, active, exit, child, file,
          requests, reply, deaths, raced>>

(* Children are numbered in the order they are forked in. *)
Children == 1 .. MaxForks

ASSUME FilesAssumption == ExitFiles \subseteq Files

ASSUME NamesAssumption == None \notin Files \cup Nat

ASSUME BoundsAssumption == MaxPross \cup {MaxForks, MaxDeaths} \subseteq Nat

Init == /\ maxpross \in MaxPross
        /\ todo = Files
        /\ entry = None
        /\ rpc = "spawn"
        /\ rtmp = 0
        /\ peer = None
        /\ cpc = "off"
        /\ ctmp = 0
        /\ active = 0
        /\ exit = 0
        /\ child = [c \in Children |-> "unborn"]
        /\ file = [c \in Children |-> None]
        /\ requests = {}
        /\ reply = [c \in Children |-> None]
        /\ deaths = 0
        /\ raced = FALSE

Unborn    == {c \in Children : child[c] = "unborn"}
Alive     == {c \in Children : child[c] \in {"init", "ask", "await", "decode"}}
Zombies   == {c \in Children : child[c] = "zombie"}
Unreaped  == Alive \cup Zombies

(* The main thread still hands out files. *)
Feeding == rpc \in {"spawn", "next", "poll", "refill", "load", "store", "send"}

-----------------------------------------------------------------------------
(* The main thread: main, then replier_process, then main again. *)

MainGoto(from, to) == rpc = from /\ rpc' = to

Born(c) == /\ c \in Unborn
           /\ \A d \in Unborn : c <= d
           /\ child' = [child EXCEPT ![c] = "init"]

(* for (i < maxpross) fork: check_thread does not run yet. *)
SpawnChild(c) == /\ MainGoto("spawn", "spawn")
                 /\ active < maxpross
                 /\ Born(c)
                 /\ active' = active + 1
                 /\ UNCHANGED <<maxpross, todo, entry, rtmp, peer, checkVars,
                                exit, file, requests, reply, deaths, raced>>

(* A fork fails: main returns 1 and leaves the children it has. *)
SpawnFails == /\ MainGoto("spawn", "failed")
              /\ active < maxpross
              /\ UNCHANGED <<maxpross, todo, entry, rtmp, peer, checkVars,
                             active, exit, childVars, raced>>

(* The REP socket is bound, check_thread starts, the directory is opened; *)
(* if that fails the replier returns.                                      *)
SpawnDone == /\ rpc = "spawn"
             /\ rpc' \in {"next", "finish"}
             /\ active >= maxpross
             /\ cpc' = "test"
             /\ UNCHANGED <<maxpross, todo, entry, rtmp, peer, ctmp, active,
                            exit, childVars, raced>>

NextFile(f) == /\ MainGoto("next", "poll")
               /\ f \in todo
               /\ todo' = todo \ {f}
               /\ entry' = f
               /\ UNCHANGED <<maxpross, rtmp, peer, checkVars, active, exit,
                              childVars, raced>>

DirectoryEnd == /\ MainGoto("next", "finish")
                /\ todo = {}
                /\ UNCHANGED <<maxpross, todo, entry, rtmp, peer, checkVars,
                               active, exit, childVars, raced>>

RecvRequest(c) == /\ MainGoto("poll", "send")
                  /\ c \in requests
                  /\ requests' = requests \ {c}
                  /\ peer' = c
                  /\ UNCHANGED <<maxpross, todo, entry, rtmp, checkVars,
                                 active, exit, child, file, reply, deaths,
                                 raced>>

(* zmq_recv with RCVTIMEO 0 and nothing there. *)
RecvNothing == /\ MainGoto("poll", "refill")
               /\ requests = {}
               /\ UNCHANGED <<maxpross, todo, entry, rtmp, peer, checkVars,
                              active, exit, childVars, raced>>

(* while (active < maxpross): a fork that fails is tried again. *)
Refill(c) == /\ MainGoto("refill", "load")
             /\ active < maxpross
             /\ Born(c)
             /\ UNCHANGED <<maxpross, todo, entry, rtmp, peer, checkVars,
                            active, exit, file, requests, reply, deaths,
                            raced>>

RefillEnd == /\ MainGoto("refill", "poll")
             /\ active >= maxpross
             /\ UNCHANGED <<maxpross, todo, entry, rtmp, peer, checkVars,
                            active, exit, childVars, raced>>

LoadIncrement == /\ MainGoto("load", "store")
                 /\ rtmp' = active
                 /\ UNCHANGED <<maxpross, todo, entry, peer, checkVars, active,
                                exit, childVars, raced>>

(* Mutant: the child is not counted. *)
StoreForgotten == /\ MainGoto("store", "refill")
                  /\ rtmp' = 0
                  /\ UNCHANGED <<maxpross, todo, entry, peer, checkVars,
                                 active, exit, childVars, raced>>

StoreIncrement == /\ MainGoto("store", "refill")
                  /\ active' = rtmp + 1
                  /\ raced' = (raced \/ active # rtmp)
                  /\ rtmp' = 0
                  /\ UNCHANGED <<maxpross, todo, entry, peer, checkVars, exit,
                                 childVars>>

(* zmq_send: the reply to a child that is gone is dropped. *)
SendReply == /\ MainGoto("send", "next")
             /\ reply' = IF child[peer] = "await"
                         THEN [reply EXCEPT ![peer] = entry] ELSE reply
             /\ entry' = None
             /\ peer' = None
             /\ UNCHANGED <<maxpross, todo, rtmp, checkVars, active, exit,
                            child, file, requests, deaths, raced>>

FeedingDone == /\ MainGoto("finish", "join")
               /\ exit' = 1
               /\ UNCHANGED <<maxpross, todo, entry, rtmp, peer, checkVars,
                              active, childVars, raced>>

JoinChecker == /\ MainGoto("join", "drain")
               /\ cpc = "quit"
               /\ UNCHANGED <<maxpross, todo, entry, rtmp, peer, checkVars,
                              active, exit, childVars, raced>>

Reaped(c) == child' = [child EXCEPT ![c] = "reaped"]

(* waitpid(-1, 0) returns a dead child, or -1 when there is none left to   *)
(* wait for: active goes down either way.                                  *)
DrainOne == /\ MainGoto("drain", "drain")
            /\ active > 0
            /\ \/ \E c \in Zombies : Reaped(c)
               \/ Unreaped = {} /\ UNCHANGED child
            /\ active' = active - 1
            /\ UNCHANGED <<maxpross, todo, entry, rtmp, peer, checkVars, exit,
                           file, requests, reply, deaths, raced>>

(* Mutant: main does not wait for the children. *)
DrainSkipped == /\ MainGoto("drain", "done")
                /\ UNCHANGED <<maxpross, todo, entry, rtmp, peer, checkVars,
                               active, exit, childVars, raced>>

DrainEnd == /\ MainGoto("drain", "done")
            /\ active <= 0
            /\ UNCHANGED <<maxpross, todo, entry, rtmp, peer, checkVars,
                           active, exit, childVars, raced>>

MainStep == \/ \E c \in Children : SpawnChild(c) \/ Refill(c) \/ RecvRequest(c)
            \/ SpawnDone \/ \E f \in Files : NextFile(f)
            \/ DirectoryEnd \/ RecvNothing \/ RefillEnd \/ LoadIncrement
            \/ StoreIncrement \/ SendReply \/ FeedingDone \/ JoinChecker
            \/ DrainOne \/ DrainEnd

-----------------------------------------------------------------------------
(* check_thread. *)

CheckGoto(from, to) == cpc = from /\ cpc' = to

CheckExit == /\ CheckGoto("test", IF exit = 0 THEN "look" ELSE "leave")
             /\ UNCHANGED <<maxpross, mainVars, ctmp, active, exit, childVars,
                            raced>>

(* No child is active: break, whether or not files are left. *)
CheckActive == /\ CheckGoto("look", IF active <= 0 THEN "leave" ELSE "wait")
               /\ UNCHANGED <<maxpross, mainVars, ctmp, active, exit,
                              childVars, raced>>

(* waitpid(-1, WNOHANG): a dead child, -1 without children, 0 otherwise. *)
CheckWait == /\ IF Zombies # {} \/ Unreaped = {}
                THEN CheckGoto("wait", "load")
                ELSE CheckGoto("wait", "test")
             /\ IF Zombies # {}
                THEN \E c \in Zombies : Reaped(c)
                ELSE UNCHANGED child
             /\ UNCHANGED <<maxpross, mainVars, ctmp, active, exit, file,
                            requests, reply, deaths, raced>>

LoadDecrement == /\ CheckGoto("load", "store")
                 /\ ctmp' = active
                 /\ UNCHANGED <<maxpross, mainVars, active, exit, childVars,
                                raced>>

StoreDecrement == /\ CheckGoto("store", "test")
                  /\ active' = ctmp - 1
                  /\ raced' = (raced \/ active # ctmp)
                  /\ ctmp' = 0
                  /\ UNCHANGED <<maxpross, mainVars, exit, childVars>>

CheckLeave == /\ CheckGoto("leave", "quit")
              /\ exit' = 0
              /\ UNCHANGED <<maxpross, mainVars, ctmp, active, childVars,
                             raced>>

CheckStep == CheckExit \/ CheckActive \/ CheckWait \/ LoadDecrement
             \/ StoreDecrement \/ CheckLeave

-----------------------------------------------------------------------------
(* requester_process. *)

ChildGoto(c, from, to) == child[c] = from /\ child' = [child EXCEPT ![c] = to]

ChildInit(c) == /\ ChildGoto(c, "init", "ask")
                /\ UNCHANGED <<maxpross, mainVars, checkVars, active, exit,
                               file, requests, reply, deaths, raced>>

ChildAsk(c) == /\ ChildGoto(c, "ask", "await")
               /\ requests' = requests \cup {c}
               /\ UNCHANGED <<maxpross, mainVars, checkVars, active, exit,
                              file, reply, deaths, raced>>

(* Mutant: the answer is not taken off the socket. *)
ReceiveKeeps(c) ==
    /\ reply[c] # None
    /\ IF reply[c] \in ExitFiles
       THEN ChildGoto(c, "await", "zombie") /\ UNCHANGED file
       ELSE /\ ChildGoto(c, "await", "decode")
            /\ file' = [file EXCEPT ![c] = reply[c]]
    /\ UNCHANGED <<maxpross, mainVars, checkVars, active, exit, requests, reply,
                   deaths, raced>>

(* The answer is a file to decode, or starts with "exit". *)
ChildReceive(c) ==
    /\ reply[c] # None
    /\ reply' = [reply EXCEPT ![c] = None]
    /\ IF reply[c] \in ExitFiles
       THEN ChildGoto(c, "await", "zombie") /\ UNCHANGED file
       ELSE /\ ChildGoto(c, "await", "decode")
            /\ file' = [file EXCEPT ![c] = reply[c]]
    /\ UNCHANGED <<maxpross, mainVars, checkVars, active, exit, requests,
                   deaths, raced>>

(* demo_decode_file returns; its result is not looked at. *)
ChildDecoded(c) == /\ ChildGoto(c, "decode", "ask")
                   /\ file' = [file EXCEPT ![c] = None]
                   /\ UNCHANGED <<maxpross, mainVars, checkVars, active, exit,
                                  requests, reply, deaths, raced>>

(* What a dying child leaves: its request stays at the socket, what was on *)
(* its way to it or in its hands is lost.                                  *)
Dies(c) == /\ child' = [child EXCEPT ![c] = "zombie"]
           /\ file' = [file EXCEPT ![c] = None]
           /\ reply' = [reply EXCEPT ![c] = None]
           /\ IF Feeding
              THEN deaths < MaxDeaths /\ deaths' = deaths + 1
              ELSE UNCHANGED deaths
           /\ UNCHANGED <<maxpross, mainVars, checkVars, active, exit,
                          requests, raced>>

(* Mutant: RCVTIMEO is not set. *)
NeverTimeout(c) == FALSE

(* RCVTIMEO: three seconds without an answer; one may be on its way. *)
ChildTimeout(c) == child[c] = "await" /\ Dies(c)

(* Codec failures, a formatCtx never initialised: the process is gone. *)
ChildCrash(c) == c \in Alive /\ Dies(c)

ChildStep(c) == ChildInit(c) \/ ChildAsk(c) \/ ChildReceive(c)
                \/ ChildDecoded(c) \/ ChildTimeout(c)

-----------------------------------------------------------------------------

Next == \/ MainStep \/ SpawnFails \/ CheckStep
        \/ \E c \in Children : ChildStep(c) \/ ChildCrash(c)

Spec == Init /\ [][Next]_vars

(* Every thread and process is scheduled; a decode ends (see DecodeSession *)
(* for when it does).                                                      *)
FairSpec == /\ Spec
            /\ WF_vars(MainStep)
            /\ WF_vars(CheckStep)
            /\ \A c \in Children : WF_vars(ChildStep(c))

-----------------------------------------------------------------------------
(* Type invariant. *)
TypeOK == /\ maxpross \in MaxPross
          /\ todo \subseteq Files
          /\ entry \in Files \cup {None}
          /\ rpc \in {"spawn", "failed", "next", "poll", "refill", "load",
                      "store", "send", "finish", "join", "drain", "done"}
          /\ rtmp \in Int
          /\ peer \in Children \cup {None}
          /\ cpc \in {"off", "test", "look", "wait", "load", "store", "leave",
                      "quit"}
          /\ ctmp \in Int
          /\ active \in Int
          /\ exit \in {0, 1}
          /\ child \in [Children -> {"unborn", "init", "ask", "await", "decode",
                                     "zombie", "reaped"}]
          /\ file \in [Children -> Files \cup {None}]
          /\ requests \subseteq Children
          /\ reply \in [Children -> Files \cup {None}]
          /\ deaths \in 0 .. MaxDeaths
          /\ raced \in BOOLEAN

(* As long as no update of active by one thread fell between the other's   *)
(* read and its write, active is the number of children not yet reaped,    *)
(* but for the one forked and not yet counted and the one reaped and not   *)
(* yet discounted; and no more children live than -p asks for.             *)
CounterExact ==
    ~raced =>
       /\ active = Cardinality(Unreaped)
                    - (IF rpc \in {"load", "store"} THEN 1 ELSE 0)
                    + (IF cpc \in {"load", "store"} THEN 1 ELSE 0)
       /\ Cardinality(Alive) <= maxpross

(* The parent leaves no child behind, unless updates overlapped.           *)
NoneLeftUnlessRaced == rpc = "done" /\ ~raced => Unreaped = {}

(* The parent ends, unless check_thread stopped because no child was       *)
(* active while files were left, and the children forked after that died:  *)
(* then nobody notices, and the replier polls forever.                     *)
Unwatched == Feeding /\ cpc = "quit" /\ Alive = {} /\ active >= maxpross

ParentEnds == <>(rpc \in {"done", "failed"} \/ []Unwatched)

(* main: "wait for all children to exit" before it returns: false, when    *)
(* two updates of active overlap.                                          *)
WaitsForAll == rpc = "done" => Alive = {}

-----------------------------------------------------------------------------
(* Where a thread or process cannot go on: it has ended, it waits, or it   *)
(* goes round a loop that changes nothing.                                 *)
ReplierPolls == /\ rpc \in {"poll", "refill"}
                /\ requests = {} /\ active >= maxpross

CheckerPolls == /\ cpc \in {"test", "look", "wait"} /\ exit = 0
                /\ active > 0 /\ Zombies = {} /\ Alive # {}

MainBlocked == \/ rpc \in {"failed", "done"} \/ ReplierPolls
               \/ rpc = "join" /\ cpc # "quit"
               \/ rpc = "drain" /\ active > 0 /\ Zombies = {} /\ Alive # {}

CheckerBlocked == cpc \in {"off", "quit"} \/ CheckerPolls

ChildBlocked(c) == \/ child[c] \in {"unborn", "zombie", "reaped"}
                   \/ child[c] = "await" /\ reply[c] = None /\ Feeding

StandsStill == MainBlocked /\ CheckerBlocked /\ \A c \in Children : ChildBlocked(c)

(* Parent, check_thread and children never wait for each other: where none *)
(* of them can go on the parent has ended, or it polls for children that   *)
(* are dead, whom nobody counts any more. No child then waits for an       *)
(* answer that the parent owes it.                                         *)
StillMeansDone ==
    StandsStill => /\ rpc \in {"failed", "done"} \/ Unwatched
                   /\ Alive = {}

-----------------------------------------------------------------------------
(* What the processes do with the files is what DispatchService promises.  *)

(* Files no child has received: not read from the directory, about to be   *)
(* handed out, or on their way.                                            *)
Undelivered == todo \cup {f \in Files : f = entry \/ \E c \in Children : reply[c] = f}

Dispatch == INSTANCE DispatchService WITH todo <- Undelivered, held <- file,
                gone <- {c \in Children : child[c] \in {"zombie", "reaped"}}

(* Whatever the counter does and whoever dies, a file goes to one child at *)
(* most, and is lost only with a child.                                    *)
ImplementsDispatch == Dispatch!Spec

=============================================================================
