---------------------------- MODULE DecodeSession ----------------------------
(***************************************************************************)
(* demo_decode_file with its recv_thread and save_yuv: one video in one    *)
(* child process. The sender reads packets and feeds the hardware codec,   *)
(* recv_thread takes frames from it, and save_yuv writes some of them to   *)
(* the ramfs, tells the picture server on port 8003 and waits for its      *)
(* reply. The two demo programs share this code; demo_stream_decoding.c    *)
(* adds a limit on retries that sets `exit` (Stream). The options are      *)
(* those of a command line (CommandLine) that parse_opt has accepted.      *)
(*                                                                         *)
(* The codec (ams_ calls), FFmpeg and the picture server are external:     *)
(* a queue of packets, a queue of frames in the same order, and replies.   *)
(***************************************************************************)
EXTENDS Naturals, Sequences, FiniteSets

CONSTANTS Packets,     (* the video: a sequence over Kinds                 *)
          Options,     (* what the program may have been started with      *)
          Limit,       (* retries of the stream program, 10000 in the code *)
          QueueSize    (* bound: packets, and frames, the codec holds      *)

VARIABLES opt,     (* which program this is, and its -k and -s             *)
          spc,     (* where the sender is                                  *)
          stage,   (* how much of the set-up is done                       *)
          held,    (* what demo_decode_file holds                          *)
          pos,     (* packets read                                         *)
          packet,  (* the packet to send                                   *)
          tries,   (* failed attempts to send it                           *)
          sent,    (* send_pkt_cnt                                         *)
          exit,    (* ctx->exit, atomic                                    *)
          rpc,     (* where recv_thread is                                 *)
          frame,   (* the frame recv_thread holds                          *)
          last,    (* last_frame                                           *)
          misses,  (* retry in recv_thread                                 *)
          cnt,     (* recv_frame_cnt                                       *)
          saved,   (* numbers of the pictures told to the server, in order *)
          taken,   (* history: frames taken from the codec                 *)
          freed,   (* history: those of them given to ams_free_frame       *)
          replaced,(* history: those of them that save_yuv replaced        *)
          fetched, (* history: frames from ams_decode_retrieve_frame       *)
          released,(* history: those of them given to ams_free_frame       *)
          unsaved, (* history: numbers of frames whose fopen failed        *)
          wanted,  (* history: numbers of the I frames received            *)
          inq,     (* packets in the codec                                 *)
          outq,    (* frames in the codec                                  *)
          dead,    (* the codec stopped                                    *)
          server,  (* the picture server: idle, asked, gone                *)
          replied  (* its reply is there                                   *)

senderVars == <<spc, stage, held, pos, packet, tries, sent>>
frameVars  == <<taken, freed, replaced, fetched, released>>
recvVars   == <<rpc, frame, last, misses, cnt, saved, frameVars, unsaved,
                wanted>>
codecVars  == <<inq, outq, dead>>
serverVars == <<server, replied>>
vars == <<opt, spc, stage, held, pos, packet, tries, sent, exit, rpc, frame, last,
          misses, cnt, saved, frameVars, unsaved,
          wanted, inq, outq, dead, server, replied>>

(* Video packets with an I frame or another, packets of other streams. *)
Kinds == {"key", "delta", "audio"}

None == "none"

ASSUME VideoAssumption == Packets \in Seq(Kinds)

ASSUME OptionsAssumption ==
    Options \subseteq [stream : BOOLEAN, keyframe : BOOLEAN, skip : Nat]

ASSUME SizesAssumption == Limit \in Nat \ {0} /\ QueueSize \in Nat \ {0}

(* demo_stream_decoding.c, not demo_file_decoding.c. *)
Stream == opt.stream

Keyframe == opt.keyframe

Skip == opt.skip

Init == /\ opt \in Options
        /\ spc = "setup" /\ stage = 1 /\ held = {"options"}
        /\ pos = 0 /\ packet = None /\ tries = 0 /\ sent = 0
        /\ exit = 0
        /\ rpc = "off" /\ frame = None /\ last = FALSE /\ misses = 0 /\ cnt = 0
        /\ saved = <<>>
        /\ taken = 0 /\ freed = 0 /\ replaced = 0 /\ fetched = 0 /\ released = 0
        /\ unsaved = {} /\ wanted = {}
        /\ inq = <<>> /\ outq = <<>> /\ dead = FALSE
        /\ server = "idle" /\ replied = FALSE

-----------------------------------------------------------------------------
(* Set-up: the calls that may fail, what each acquires, and what the error *)
(* path after it does not release.                                         *)

Stages == <<
  [does |-> "open_input",    gets |-> {"format"},  leaves |-> {"options"}],
  [does |-> "find_stream",   gets |-> {},          leaves |-> {}],
  [does |-> "alloc_context", gets |-> {"context"}, leaves |-> {}],
  [does |-> "open_context",  gets |-> {"bsf"},     leaves |-> {}],
  [does |-> "decode_create", gets |-> {"session"}, leaves |-> {"bsf"}],
  [does |-> "packet_alloc",  gets |-> {"packet"},
                             leaves |-> {"bsf", "session"}] >>

SetupStep == /\ spc = "setup"
             /\ held' = held \cup Stages[stage].gets
             /\ IF stage < Len(Stages)
                THEN stage' = stage + 1 /\ UNCHANGED <<spc, rpc>>
                ELSE spc' = "read" /\ rpc' = "recv" /\ UNCHANGED stage
             /\ UNCHANGED <<opt, pos, packet, tries, sent, exit, frame, last,
                            misses, cnt, saved, frameVars, unsaved, wanted,
                            codecVars, serverVars>>

(* Return -1 .. -7. *)
SetupFails == /\ spc = "setup"
              /\ spc' = "failed"
              /\ held' = held \cap Stages[stage].leaves
              /\ UNCHANGED <<opt, stage, pos, packet, tries, sent, exit,
                             recvVars, codecVars, serverVars>>

(* formatCtx is not initialised: avformat_open_input may follow garbage.   *)
SetupCrash == /\ spc = "setup"
              /\ stage = 1
              /\ spc' = "crashed"
              /\ UNCHANGED <<opt, stage, held, pos, packet, tries, sent, exit,
                             recvVars, codecVars, serverVars>>

-----------------------------------------------------------------------------
(* The sender. *)

SenderGoto(from, to) == spc = from /\ spc' = to

Wanted(kind) == kind # "audio" /\ (Keyframe => kind = "key")

(* av_read_frame; packets of other streams, and all but key packets with   *)
(* -k, are passed over.                                                    *)
ReadPacket == /\ exit = 0
              /\ pos < Len(Packets)
              /\ pos' = pos + 1
              /\ IF Wanted(Packets[pos + 1])
                 THEN SenderGoto("read", "filter") /\ packet' = Packets[pos + 1]
                 ELSE SenderGoto("read", "read") /\ UNCHANGED packet
              /\ UNCHANGED <<opt, stage, held, tries, sent, exit, recvVars,
                             codecVars, serverVars>>

(* The bit stream filter gives one packet, if exit is not set meanwhile. *)
FilterPacket == /\ IF exit = 0
                   THEN SenderGoto("filter", "send") /\ UNCHANGED packet
                   ELSE SenderGoto("filter", "read") /\ packet' = None
                /\ tries' = 0
                /\ UNCHANGED <<opt, stage, held, pos, sent, exit, recvVars,
                               codecVars, serverVars>>

Accepts == ~dead /\ Len(inq) < QueueSize

SendPacket == /\ SenderGoto("send", "read")
              /\ Accepts
              /\ inq' = Append(inq, packet)
              /\ packet' = None
              /\ sent' = sent + 1
              /\ UNCHANGED <<opt, stage, held, pos, tries, exit, recvVars,
                             outq, dead, serverVars>>

(* ams_decode_send_packet failed, and exit is set: the packet is dropped.  *)
SendGivenUp == /\ SenderGoto("send", "read")
               /\ ~Accepts
               /\ exit = 1
               /\ packet' = None
               /\ UNCHANGED <<opt, stage, held, pos, tries, sent, exit,
                              recvVars, codecVars, serverVars>>

(* The stream program counts its retries and sets exit at the limit.       *)
SendRetry == /\ Stream
             /\ spc = "send"
             /\ ~Accepts
             /\ exit = 0
             /\ tries' = tries + 1
             /\ IF tries + 1 < Limit
                THEN UNCHANGED <<exit, packet, spc>>
                ELSE exit' = 1 /\ packet' = None /\ spc' = "read"
             /\ UNCHANGED <<opt, stage, held, pos, sent, recvVars, codecVars,
                            serverVars>>

(* Mutant: the packet is not freed. *)
ReadEndKeeps == /\ SenderGoto("read", "eos")
                /\ held' = held \cap {"session", "packet"}
                /\ UNCHANGED <<opt, stage, pos, packet, tries, sent, exit,
                               recvVars, codecVars, serverVars>>

(* The end of the video, a read error, or exit. *)
ReadEnd == /\ SenderGoto("read", "eos")
           /\ held' = held \cap {"session"}
           /\ UNCHANGED <<opt, stage, pos, packet, tries, sent, exit, recvVars,
                          codecVars, serverVars>>

(* An empty packet marks the end of the stream; tried until it is accepted *)
(* or exit is set.                                                         *)
SendEnd == /\ SenderGoto("eos", "join")
           /\ \/ Accepts /\ inq' = Append(inq, "eos")
              \/ ~Accepts /\ exit = 1 /\ UNCHANGED inq
           /\ UNCHANGED <<opt, stage, held, pos, packet, tries, sent, exit,
                          recvVars, outq, dead, serverVars>>

(* Mutant: the session is closed without the join. *)
CloseUnjoined == /\ SenderGoto("join", "returned")
                 /\ held' = held \ {"session"}
                 /\ UNCHANGED <<opt, stage, pos, packet, tries, sent, exit,
                                recvVars, codecVars, serverVars>>

(* pthread_join, then ams_decode_close, return 0. *)
JoinAndClose == /\ SenderGoto("join", "returned")
                /\ rpc = "done"
                /\ held' = held \ {"session"}
                /\ UNCHANGED <<opt, stage, pos, packet, tries, sent, exit,
                               recvVars, codecVars, serverVars>>

SenderStep == \/ SetupStep \/ ReadPacket \/ FilterPacket \/ SendPacket
              \/ SendGivenUp \/ SendRetry \/ ReadEnd \/ SendEnd \/ JoinAndClose

-----------------------------------------------------------------------------
(* recv_thread and save_yuv. *)

RecvGoto(from, to) == rpc = from /\ rpc' = to

(* Every picture with -k; else one in Skip, and the I frames: a remainder  *)
(* that -s 0 makes a division by zero.                                     *)
DividesByZero == ~Keyframe /\ Skip = 0

ToSave(f, n) == Keyframe \/ n % Skip = 0 \/ f = "key"

(* A frame. The last one carries no picture: save_yuv returns before it    *)
(* frees it, the branch without save_yuv frees it; its type is the codec's *)
(* choice.                                                                 *)
ReceiveFrame ==
    /\ outq # <<>>
    /\ ~dead
    /\ ~DividesByZero
    /\ outq' = Tail(outq)
    /\ taken' = taken + 1
    /\ misses' = 0
    /\ IF Head(outq) = "eos"
       THEN /\ last' = TRUE
            /\ RecvGoto("recv", "test")
            /\ \E f \in {"key", "delta"} :
                  freed' = IF ToSave(f, cnt) THEN freed ELSE freed + 1
            /\ UNCHANGED <<frame, cnt, wanted>>
       ELSE /\ cnt' = cnt + 1
            /\ wanted' = IF Head(outq) = "key" THEN wanted \cup {cnt'} ELSE wanted
            /\ IF ToSave(Head(outq), cnt')
               THEN /\ RecvGoto("recv", "save")
                    /\ frame' = Head(outq)
                    /\ UNCHANGED freed
               ELSE /\ RecvGoto("recv", "test")
                    /\ freed' = freed + 1
                    /\ UNCHANGED frame
            /\ UNCHANGED last
    /\ UNCHANGED <<opt, senderVars, exit, saved, replaced, fetched, released,
                   unsaved, inq, dead, serverVars>>

(* The first frame ends the process, both its threads and the session.     *)
ReceiveTraps == /\ RecvGoto("recv", "off")
                /\ outq # <<>>
                /\ ~dead
                /\ DividesByZero
                /\ spc' = "crashed"
                /\ held' = {}
                /\ UNCHANGED <<opt, stage, pos, packet, tries, sent, exit, frame,
                               last, misses, cnt, saved, frameVars, unsaved,
                               wanted, codecVars, serverVars>>

(* Mutant: no frame is taken for the end. *)
ReceiveStops == /\ outq = <<>> \/ dead
                /\ RecvGoto("recv", "done")
                /\ UNCHANGED <<opt, senderVars, exit, frame, last, misses, cnt,
                               saved, frameVars, unsaved, wanted, codecVars,
                               serverVars>>

(* Mutant: the stream program does not count either. *)
ReceiveUncounted == /\ outq = <<>> \/ dead
                    /\ RecvGoto("recv", "test")
                    /\ UNCHANGED <<opt, senderVars, exit, frame, last, misses,
                                   cnt, saved, frameVars, unsaved, wanted,
                                   codecVars, serverVars>>

(* No frame: sleep and, in the stream program, count and give up.          *)
ReceiveNothing ==
    /\ outq = <<>> \/ dead
    /\ misses' = IF Stream THEN misses + 1 ELSE misses
    /\ exit' = IF Stream /\ misses' >= Limit THEN 1 ELSE exit
    /\ RecvGoto("recv", "test")
    /\ UNCHANGED <<opt, senderVars, frame, last, cnt, saved, frameVars,
                   unsaved, wanted, codecVars, serverVars>>

(* while (exit == 0 && !last_frame) *)
TestLoop == /\ RecvGoto("test", IF exit = 0 /\ ~last THEN "recv" ELSE "done")
            /\ UNCHANGED <<opt, senderVars, exit, frame, last, misses, cnt,
                           saved, frameVars, unsaved, wanted, codecVars,
                           serverVars>>

(* A frame in the memory of the hardware is replaced by the one that       *)
(* ams_decode_retrieve_frame returns, if any: save_yuv does not look, and  *)
(* goes on with NULL. It has no pointer to the first frame any more.       *)
RetrieveFrame ==
    /\ RecvGoto("save", "write")
    /\ \/ UNCHANGED <<frame, replaced, fetched>>
       \/ /\ replaced' = replaced + 1
          /\ \/ frame' = "image" /\ fetched' = fetched + 1
             \/ frame' = "null" /\ UNCHANGED fetched
    /\ UNCHANGED <<opt, senderVars, exit, last, misses, cnt, saved, taken, freed,
                   released, unsaved, wanted, codecVars, serverVars>>

(* Mutant: the picture gets the number of packets sent. *)
SaveAsSent == /\ RecvGoto("write", "await")
              /\ saved' = Append(saved, sent)
              /\ server' = IF server = "idle" THEN "asked" ELSE server
              /\ UNCHANGED <<opt, senderVars, exit, frame, last, misses, cnt,
                             frameVars, unsaved, wanted, codecVars, replied>>

(* ams_free_frame of the frame at hand. *)
FreeFrame == /\ frame' = None
             /\ freed' = IF frame \in {"key", "delta"} THEN freed + 1 ELSE freed
             /\ released' = IF frame = "image" THEN released + 1 ELSE released

(* Mutant: the reply is not waited for. *)
SaveUnawaited == /\ RecvGoto("write", "test")
                 /\ saved' = Append(saved, cnt)
                 /\ FreeFrame
                 /\ UNCHANGED <<opt, senderVars, exit, last, misses, cnt, taken,
                                replaced, fetched, unsaved, wanted, codecVars,
                                serverVars>>

(* Write the picture, and ask the server. *)
SavePicture == /\ RecvGoto("write", "await")
               /\ saved' = Append(saved, cnt)
               /\ server' = IF server = "idle" THEN "asked" ELSE server
               /\ UNCHANGED <<opt, senderVars, exit, frame, last, misses, cnt,
                              frameVars, unsaved, wanted, codecVars, replied>>

(* fopen fails: the frame is freed, nobody is told. *)
SaveFails == /\ RecvGoto("write", "test")
             /\ unsaved' = unsaved \cup {cnt}
             /\ FreeFrame
             /\ UNCHANGED <<opt, senderVars, exit, last, misses, cnt, saved,
                            taken, replaced, fetched, wanted, codecVars,
                            serverVars>>

(* What the library may do if it is to save, or to free, the frame NULL.   *)
NullCrash == /\ frame = "null"
             /\ rpc = "write" \/ (rpc = "await" /\ replied)
             /\ rpc' = "off" /\ spc' = "crashed" /\ held' = {} /\ frame' = None
             /\ UNCHANGED <<opt, stage, pos, packet, tries, sent, exit, last,
                            misses, cnt, saved, frameVars, unsaved, wanted,
                            codecVars, serverVars>>

(* Mutant: save_yuv frees the frame it was given, not the one it fetched.  *)
ReplyFreesGiven == /\ RecvGoto("await", "test")
                   /\ replied
                   /\ replied' = FALSE
                   /\ frame' = None
                   /\ freed' = freed + 1
                   /\ UNCHANGED <<opt, senderVars, exit, last, misses, cnt, saved,
                                  taken, replaced, fetched, released, unsaved,
                                  wanted, codecVars, server>>

(* zmq_recv has no timeout. *)
ReceiveReply == /\ RecvGoto("await", "test")
                /\ replied
                /\ replied' = FALSE
                /\ FreeFrame
                /\ UNCHANGED <<opt, senderVars, exit, last, misses, cnt, saved,
                               taken, replaced, fetched, unsaved, wanted,
                               codecVars, server>>

RecvStep == \/ ReceiveFrame \/ ReceiveTraps \/ ReceiveNothing \/ TestLoop
            \/ RetrieveFrame \/ SavePicture \/ SaveFails \/ ReceiveReply

-----------------------------------------------------------------------------
(* External: the codec and the picture server. *)

CodecDecode == /\ ~dead
               /\ "session" \in held
               /\ inq # <<>>
               /\ Len(outq) < QueueSize
               /\ outq' = Append(outq, Head(inq))
               /\ inq' = Tail(inq)
               /\ UNCHANGED <<opt, senderVars, exit, recvVars, dead,
                              serverVars>>

CodecDies == /\ ~dead
             /\ dead' = TRUE
             /\ UNCHANGED <<opt, senderVars, exit, recvVars, inq, outq,
                            serverVars>>

ServerReply == /\ server = "asked"
               /\ server' = "idle"
               /\ replied' = TRUE
               /\ UNCHANGED <<opt, senderVars, exit, recvVars, codecVars>>

ServerDies == /\ server # "gone"
              /\ server' = "gone"
              /\ UNCHANGED <<opt, senderVars, exit, recvVars, codecVars,
                             replied>>

-----------------------------------------------------------------------------

Next == \/ SenderStep \/ SetupFails \/ SetupCrash \/ RecvStep \/ NullCrash
        \/ CodecDecode \/ CodecDies \/ ServerReply \/ ServerDies

Spec == Init /\ [][Next]_vars

(* The threads are scheduled; a codec that has not died decodes, a server  *)
(* that is there replies.                                                  *)
FairSpec == /\ Spec
            /\ WF_vars(SenderStep) /\ WF_vars(RecvStep)
            /\ WF_vars(CodecDecode) /\ WF_vars(ServerReply)

-----------------------------------------------------------------------------
(* Type invariant: what both threads use, what the sender, recv_thread and *)
(* the world outside have for themselves.                                  *)
SharedTypeOK ==
    /\ opt \in Options
    /\ spc \in {"setup", "read", "filter", "send", "eos", "join", "returned",
                "failed", "crashed"}
    /\ held \subseteq {"options", "format", "context", "bsf", "session", "packet"}
    /\ exit \in {0, 1}
    /\ rpc \in {"off", "recv", "test", "save", "write", "await", "done"}

SenderTypeOK ==
    /\ stage \in 1 .. Len(Stages)
    /\ pos \in 0 .. Len(Packets)
    /\ packet \in {"key", "delta", None}
    /\ tries \in 0 .. Limit
    /\ sent \in 0 .. Len(Packets)

RecvTypeOK ==
    /\ frame \in {"key", "delta", "image", "null", None}
    /\ last \in BOOLEAN
    /\ misses \in 0 .. Limit
    /\ cnt \in 0 .. Len(Packets)
    /\ saved \in Seq(1 .. Len(Packets))
    /\ taken \in 0 .. Len(Packets) + 1
    /\ freed \in 0 .. Len(Packets) + 1
    /\ replaced \in Nat /\ fetched \in Nat /\ released \in Nat
    /\ unsaved \subseteq 1 .. Len(Packets)
    /\ wanted \subseteq 1 .. Len(Packets)

OutsideTypeOK ==
    /\ inq \in Seq({"key", "delta", "eos"}) /\ Len(inq) <= QueueSize
    /\ outq \in Seq({"key", "delta", "eos"}) /\ Len(outq) <= QueueSize
    /\ dead \in BOOLEAN
    /\ server \in {"idle", "asked", "gone"}
    /\ replied \in BOOLEAN

TypeOK == SharedTypeOK /\ SenderTypeOK /\ RecvTypeOK /\ OutsideTypeOK

(* recv_thread uses the codec session, and avctx on the stack of           *)
(* demo_decode_file, only while they exist.                                *)
SessionOutlivesReceiver ==
    rpc \notin {"off", "done"} => "session" \in held /\ spc # "returned"

(* A session that nobody told to exit ends with every packet decoded and   *)
(* every frame received.                                                   *)
NothingLost == spc = "returned" /\ exit = 0 => cnt = sent

(* A frame from the codec is freed once, unless it is in recv_thread's     *)
(* hands, or is the last one, which save_yuv may leak, or was replaced by  *)
(* save_yuv, which then leaves it to the library; a frame that it was      *)
(* replaced by is freed once, unless it is in recv_thread's hands.         *)
FramesFreed ==
    LET hand  == IF frame \in {"key", "delta"} THEN 1 ELSE 0
        image == IF frame = "image" THEN 1 ELSE 0
    IN  /\ freed + replaced + hand <= taken
        /\ taken <= freed + replaced + hand + (IF last THEN 1 ELSE 0)
        /\ released + image = fetched

(* No picture is told to the server under a number used before; none is    *)
(* told that neither the options nor its type ask for, so none with -s 0;  *)
(* and every I frame is told, unless it could not be written or took the   *)
(* process with it.                                                        *)
PicturesNumbered ==
    /\ \A i, j \in DOMAIN saved : i < j => saved[i] < saved[j]
    /\ \A i \in DOMAIN saved : \/ Keyframe
                               \/ saved[i] \in wanted
                               \/ Skip # 0 /\ saved[i] % Skip = 0
    /\ \A n \in wanted : \/ \E i \in DOMAIN saved : saved[i] = n
                         \/ n \in unsaved
                         \/ n = cnt /\ (rpc \in {"save", "write"} \/ spc = "crashed")

(* What the paths out of demo_decode_file leave behind: nothing after a    *)
(* decode; the options if the file does not open; the bit stream filter    *)
(* and the codec session, at most, if the set-up fails late.               *)
LeftBehind == /\ spc = "returned" => held = {}
              /\ spc = "failed" => \/ held = {}
                                   \/ stage = 1 /\ held = {"options"}
                                   \/ stage >= 5 /\ held \subseteq {"bsf", "session"}

Ended == spc \in {"returned", "failed", "crashed"}

(* recv_thread waits for a reply that will not come. *)
Unanswered == rpc = "await" /\ server = "gone" /\ ~replied

(* A session ends, unless the picture server dies: recv_thread then waits, *)
(* and the join with it; and, in the file program only, unless the codec   *)
(* dies: its retries have no limit.                                        *)
SessionEnds == <>(Ended \/ (~Stream /\ dead) \/ []Unanswered)

(* Where a thread cannot go on: it has ended, it waits for something, or   *)
(* it tries again what fails, without a limit, in the file program.        *)
SenderBlocked == \/ Ended
                 \/ spc = "send" /\ ~Accepts /\ exit = 0 /\ ~Stream
                 \/ spc = "eos" /\ ~Accepts /\ exit = 0
                 \/ spc = "join" /\ rpc # "done"

Spins == /\ rpc \in {"recv", "test"} /\ exit = 0 /\ ~last
         /\ outq = <<>> \/ dead
         /\ ~Stream

RecvBlocked == rpc \in {"off", "done"} \/ (rpc = "await" /\ ~replied) \/ Spins

CodecBlocked == dead \/ "session" \notin held \/ inq = <<>> \/ Len(outq) = QueueSize

StandsStill == SenderBlocked /\ RecvBlocked /\ CodecBlocked /\ server # "asked"

(* The threads never wait for each other: a session that nothing but a     *)
(* retry can take further has ended, waits for the reply of a server that  *)
(* is gone, or is the file program's with a codec that died.               *)
StillMeansDone == StandsStill => Ended \/ (~Stream /\ dead) \/ Unanswered

(* How far a session is from its end: what the sender has left to do, its  *)
(* retries, the packets and frames in the codec, the retries of            *)
(* recv_thread, where that is, and the request at the picture server. The  *)
(* first of two distances that differ counts.                              *)
SenderLeft == CASE spc = "setup"  -> 3 * Len(Packets) + 11 - stage
                [] spc = "read"   -> 3 * (Len(Packets) - pos) + 4
                [] spc = "filter" -> 3 * (Len(Packets) - pos) + 6
                [] spc = "send"   -> 3 * (Len(Packets) - pos) + 5
                [] spc = "eos"    -> 3
                [] spc = "join"   -> 2
                [] OTHER          -> 0

RecvLeft == CASE rpc = "save" -> 5 [] rpc = "write" -> 4 [] rpc = "await" -> 3
              [] rpc = "test" -> 2 [] rpc = "recv" -> 1 [] OTHER -> 0

Distance == <<SenderLeft, Limit - tries, Len(inq), Len(outq), Limit - misses,
              RecvLeft, IF server = "asked" THEN 1 ELSE 0>>

Before(d, e) == \E i \in DOMAIN e : d[i] < e[i] /\ \A j \in 1 .. i - 1 : d[j] = e[j]

(* A retry of the file program, which changes nothing. *)
Idles == /\ Spins /\ Spins'
         /\ UNCHANGED <<opt, senderVars, exit, frame, last, misses, cnt, saved,
                        frameVars, unsaved, wanted, codecVars, serverVars>>

(* Every step of the threads, the codec or the server brings the session   *)
(* nearer to its end, but for those retries and for deaths. With           *)
(* StillMeansDone it is why sessions end: no other loop in them lasts.     *)
NearsEnd ==
    [][\/ Distance' \in Seq(Nat) /\ Before(Distance', Distance)
       \/ Idles
       \/ dead' # dead
       \/ server' # server /\ server' = "gone"]_vars

-----------------------------------------------------------------------------
(* What demo_decode_file promises (DecodeService), as far as it can be     *)
(* seen from outside.                                                      *)

Seen == IF rpc = "await" THEN "asking"
        ELSE IF Ended THEN spc ELSE "decoding"

Service == INSTANCE DecodeService WITH Numbers <- 1 .. Len(Packets), state <- Seen,
                                       told <- saved

(* demo_decode_file implements DecodeService: rising numbers, one picture  *)
(* outstanding, no failure after a picture.                                *)
ImplementsDecode == Service!Spec

=============================================================================
