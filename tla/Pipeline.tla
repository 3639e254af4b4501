------------------------------ MODULE Pipeline ------------------------------
(***************************************************************************)
(* The programs together, each as its service has it: files handed out to  *)
(* processes (DispatchService), what a process does with a file            *)
(* (DecodeService), the ramfs it writes pictures to, and the consumer on   *)
(* port 8003 that removes them (PictureService). The consumer may stop and *)
(* be started again while decoders run: its list is in memory only, and a  *)
(* request that reached it is not sent again.                              *)
(***************************************************************************)
EXTENDS Naturals, Sequences, FiniteSets

CONSTANTS Files,     (* of the input directory                             *)
          Children,  (* processes, those forked for dead ones included     *)
          None,      (* no file                                            *)
          Numbers,   (* the numbers a picture may get                      *)
          BadNames,  (* files whose name spoils the JSON text around it:   *)
                     (* one with a quotation mark, for example             *)
          MaxStops   (* bound: how often the consumer stops                *)

VARIABLES todo, held, gone,  (* as in DispatchService                      *)
          state,    (* of the decode of each file, as in DecodeService     *)
          told,     (* the pictures of each file told to the consumer      *)
          writing,  (* the picture written and not yet told, or 0          *)
          ramfs,    (* the output directory                                *)
          asked,    (* requests on their way to the consumer               *)
          replied,  (* files whose decoder has its reply on the way        *)
          up,       (* the consumer runs                                   *)
          backlog,  (* pictures in its list or in a worker's hands         *)
          stops     (* how often it stopped                                *)

dispatchVars == <<todo, held, gone>>
decoderVars  == <<state, told, writing>>
consumerVars == <<up, backlog, stops>>
vars == <<todo, held, gone, state, told, writing, ramfs, asked, replied, up,
          backlog, stops>>

ASSUME FilesAssumption == None \notin Files /\ BadNames \subseteq Files

ASSUME NumbersAssumption == Numbers \subseteq Nat \ {0} /\ MaxStops \in Nat

Pictures == Files \X Numbers

Dispatch == INSTANCE DispatchService

Init == /\ Dispatch!Init
        /\ state = [f \in Files |-> "decoding"]
        /\ told = [f \in Files |-> <<>>]
        /\ writing = [f \in Files |-> 0]
        /\ ramfs = {} /\ asked = {} /\ replied = {}
        /\ up = TRUE /\ backlog = {} /\ stops = 0

-----------------------------------------------------------------------------
(* The processes. *)

ReceiveFile(c, f) == /\ Dispatch!Hand(c, f)
                     /\ UNCHANGED <<decoderVars, ramfs, asked, replied,
                                    consumerVars>>

LoseFile(f) == /\ Dispatch!Lose(f)
               /\ UNCHANGED <<decoderVars, ramfs, asked, replied, consumerVars>>

Decoding(f) == /\ \E c \in Children : held[c] = f
               /\ state[f] = "decoding"

(* Mutant: the pictures of a file share one name. *)
WriteAgain(f, n) == /\ Decoding(f)
                    /\ writing[f] = 0
                    /\ Len(told[f]) < Cardinality(Numbers)
                    /\ writing' = [writing EXCEPT ![f] = n]
                    /\ ramfs' = ramfs \cup {<<f, n>>}
                    /\ UNCHANGED <<dispatchVars, state, told, asked, replied,
                                   consumerVars>>

(* save_yuv: fopen, the picture, fclose. *)
WritePicture(f, n) == /\ Decoding(f)
                      /\ writing[f] = 0
                      /\ \A i \in DOMAIN told[f] : told[f][i] < n
                      /\ writing' = [writing EXCEPT ![f] = n]
                      /\ ramfs' = ramfs \cup {<<f, n>>}
                      /\ UNCHANGED <<dispatchVars, state, told, asked, replied,
                                     consumerVars>>

(* save_yuv: zmq_send. The message waits in the socket if nobody is there. *)
AskConsumer(f) == /\ Decoding(f)
                  /\ writing[f] # 0
                  /\ told' = [told EXCEPT ![f] = Append(@, writing[f])]
                  /\ asked' = asked \cup {<<f, writing[f]>>}
                  /\ writing' = [writing EXCEPT ![f] = 0]
                  /\ state' = [state EXCEPT ![f] = "asking"]
                  /\ UNCHANGED <<dispatchVars, ramfs, replied, consumerVars>>

(* save_yuv: zmq_recv, without a timeout. *)
TakeReply(f) == /\ f \in replied
                /\ replied' = replied \ {f}
                /\ state' = [state EXCEPT ![f] = "decoding"]
                /\ UNCHANGED <<dispatchVars, told, writing, ramfs, asked,
                               consumerVars>>

(* demo_decode_file returns; it fails only before its first picture. *)
DecodeEnds(c) == /\ Dispatch!Finish(c)
                 /\ Decoding(held[c])
                 /\ writing[held[c]] = 0
                 /\ \E s \in {"returned", "failed"} :
                       /\ s = "failed" => told[held[c]] = <<>>
                       /\ state' = [state EXCEPT ![held[c]] = s]
                 /\ UNCHANGED <<told, writing, ramfs, asked, replied,
                                consumerVars>>

(* What a death in a decode takes along: the reply, and the request if it  *)
(* has not left the process; never the picture.                            *)
AbandonFile(f) == /\ state' = [state EXCEPT ![f] = "crashed"]
                  /\ writing' = [writing EXCEPT ![f] = 0]
                  /\ asked' \in {asked, {p \in asked : p[1] # f}}
                  /\ replied' = replied \ {f}

ProcessGone(c) == /\ Dispatch!Leave(c)
                  /\ IF held[c] = None
                     THEN UNCHANGED <<state, writing, asked, replied>>
                     ELSE AbandonFile(held[c])
                  /\ UNCHANGED <<told, ramfs, consumerVars>>

-----------------------------------------------------------------------------
(* The consumer. *)

Answers(p) == replied' = IF state[p[1]] = "asking" THEN replied \cup {p[1]}
                                                   ELSE replied

(* Mutant: the picture is answered for and not put into the list. *)
AcceptUnlisted(p) == /\ up
                     /\ p \in asked
                     /\ asked' = asked \ {p}
                     /\ Answers(p)
                     /\ UNCHANGED <<dispatchVars, decoderVars, ramfs,
                                    consumerVars>>

(* Mutant: no reply is sent. *)
AcceptUnanswered(p) == /\ up
                       /\ p \in asked
                       /\ asked' = asked \ {p}
                       /\ backlog' = backlog \cup {p}
                       /\ UNCHANGED <<dispatchVars, decoderVars, ramfs, replied,
                                      up, stops>>

(* thread_recv: into the list, then a reply; dropped if the decoder died. *)
AcceptPicture(p) == /\ up
                    /\ p \in asked
                    /\ asked' = asked \ {p}
                    /\ backlog' = backlog \cup {p}
                    /\ Answers(p)
                    /\ UNCHANGED <<dispatchVars, decoderVars, ramfs, up, stops>>

(* thread_proc, any of them: remove, unless the message does not parse.    *)
RemovePicture(p) == /\ up
                    /\ p \in backlog
                    /\ backlog' = backlog \ {p}
                    /\ ramfs' = IF p[1] \in BadNames THEN ramfs ELSE ramfs \ {p}
                    /\ UNCHANGED <<dispatchVars, decoderVars, asked, replied, up,
                                   stops>>

(* A signal: the workers leave what is in the list; requests that reached  *)
(* the process, and replies that left it, may go with the connection.      *)
ConsumerStops == /\ up
                 /\ stops < MaxStops
                 /\ up' = FALSE
                 /\ stops' = stops + 1
                 /\ backlog' = {}
                 /\ asked' \in SUBSET asked
                 /\ replied' \in SUBSET replied
                 /\ UNCHANGED <<dispatchVars, decoderVars, ramfs>>

(* Started again: an empty list; sockets reconnect by themselves. *)
ConsumerStarts == /\ ~up
                  /\ up' = TRUE
                  /\ UNCHANGED <<dispatchVars, decoderVars, ramfs, asked,
                                 replied, backlog, stops>>

-----------------------------------------------------------------------------

DecodeStep(f) == \/ \E n \in Numbers : WritePicture(f, n)
                 \/ AskConsumer(f) \/ TakeReply(f)
                 \/ \E c \in Children : held[c] = f /\ DecodeEnds(c)

ConsumerStep(p) == AcceptPicture(p) \/ RemovePicture(p)

Next == \/ \E f \in Files : \/ DecodeStep(f) \/ LoseFile(f)
                            \/ \E c \in Children : ReceiveFile(c, f)
        \/ \E c \in Children : ProcessGone(c)
        \/ \E p \in Pictures : ConsumerStep(p)
        \/ ConsumerStops \/ ConsumerStarts

Spec == Init /\ [][Next]_vars

(* Processes and threads are scheduled while they exist, pictures of every *)
(* name. Nobody has to start the consumer again.                           *)
FairSpec == /\ Spec
            /\ \A f \in Files : WF_vars(DecodeStep(f))
            /\ \A p \in Pictures : WF_vars(ConsumerStep(p))

-----------------------------------------------------------------------------

TypeOK == /\ todo \subseteq Files
          /\ held \in [Children -> Files \cup {None}]
          /\ gone \subseteq Children
          /\ state \in [Files -> {"decoding", "asking", "returned", "failed",
                                  "crashed"}]
          /\ told \in [Files -> Seq(Numbers)]
          /\ writing \in [Files -> Numbers \cup {0}]
          /\ ramfs \subseteq Pictures
          /\ asked \subseteq Pictures
          /\ replied \subseteq Files
          /\ up \in BOOLEAN
          /\ backlog \subseteq Pictures
          /\ stops \in 0 .. MaxStops

(* The consumer was told of p in a text that it cannot parse.              *)
Unreadable(p) == /\ p[1] \in BadNames
                 /\ \E i \in DOMAIN told[p[1]] : told[p[1]][i] = p[2]

(* Pictures on the ramfs that are not with the consumer, and that it will  *)
(* not have skipped.                                                       *)
Unclaimed == {p \in ramfs : p \notin asked \cup backlog /\ ~Unreadable(p)}

(* Until the consumer stops, every picture on the ramfs is with it, or it  *)
(* was told of in a text that does not parse, or it is about to be told by *)
(* the decoder that wrote it, or it is the last picture of a decode that   *)
(* died: one for each death, whatever the deaths' timing.                  *)
OrphansKnown ==
    stops = 0 =>
        \A p \in Unclaimed :
            \/ writing[p[1]] = p[2]
            \/ /\ state[p[1]] = "crashed"
               /\ \A q \in Unclaimed : q[1] = p[1] => q = p

(* A decoder never writes to a picture that the consumer was told of and   *)
(* may be about to remove.                                                 *)
NeverRewritten ==
    \A f \in Files : writing[f] # 0 => <<f, writing[f]>> \notin asked \cup backlog

(* A picture does not stay on the ramfs, unless its decode died, the       *)
(* consumer stopped or the message about it does not parse.                *)
PicturesDrain ==
    \A p \in Pictures :
        p \in ramfs ~> \/ p \notin ramfs
                       \/ stops > 0
                       \/ state[p[1]] = "crashed"
                       \/ Unreadable(p)

(* The consumer stopped when the request was there, or has not come back.  *)
Deaf(f) == /\ stops > 0
           /\ state[f] = "asking"
           /\ f \notin replied
           /\ up => \A p \in asked : p[1] # f

(* A decoder waits for ever only for a consumer that stopped: being started*)
(* again helps those whose request is still in their own socket.           *)
AnswersCome ==
    \A f \in Files : state[f] = "asking" ~> (state[f] # "asking" \/ []Deaf(f))

-----------------------------------------------------------------------------
(* Where no decode and no worker of the consumer can go on.                *)
DecoderBlocked(f) == ~Decoding(f) /\ f \notin replied

ConsumerBlocked == ~up \/ (asked = {} /\ backlog = {})

StandsStill == ConsumerBlocked /\ \A f \in Files : DecoderBlocked(f)

(* The programs never block each other: where all of them wait, a decoder  *)
(* waits for a consumer that stopped, and the pictures on the ramfs are    *)
(* those of decodes that died and those whose message does not parse,      *)
(* unless the consumer stopped.                                            *)
StillMeansDone ==
    StandsStill => /\ \A f \in Files : state[f] = "asking" => Deaf(f)
                   /\ \A p \in ramfs : \/ stops > 0
                                        \/ state[p[1]] = "crashed"
                                        \/ Unreadable(p)

-----------------------------------------------------------------------------

Decode(f) == INSTANCE DecodeService WITH state <- state[f], told <- told[f]

(* What happens to a file among the others, whatever becomes of its process*)
(* and of the consumer, is what demo_decode_file promises (DecodeService). *)
ImplementsDecodes == \A f \in Files : Decode(f)!Spec

=============================================================================
