------------------------ MODULE DecodeSessionProofs ------------------------
(***************************************************************************)
(* TLAPS proofs about DecodeSession, for a video of any length, any set of *)
(* options, any retry limit and queues of any size.                        *)
(***************************************************************************)
EXTENDS DecodeSession, SequenceTheorems, TLAPS

(* Where the two threads can be while they hold a packet or a frame, and   *)
(* how far their retries have come.                                        *)
ControlInv ==
    /\ rpc = "off" <=> spc \in {"setup", "failed", "crashed"}
    /\ spc = "setup" => misses = 0 /\ ~last
    /\ rpc # "off" /\ spc # "returned" => "session" \in held
    /\ spc = "returned" => rpc = "done"
    /\ rpc \in {"save", "write", "await"} => cnt >= 1
    /\ frame # None <=> rpc \in {"save", "write", "await"}
    /\ rpc = "save" => frame \in {"key", "delta"}
    /\ rpc = "done" => last \/ exit = 1
    /\ rpc \in {"recv", "save", "write", "await"} => ~last
    /\ spc \in {"filter", "send"} => packet # None
    /\ spc = "send" => tries < Limit
    /\ rpc \in {"recv", "save", "write", "await"} => misses < Limit
    /\ rpc = "test" /\ exit = 0 => misses < Limit

EndIn == inq # <<>> /\ inq[Len(inq)] = "eos"

EndOut == outq # <<>> /\ outq[Len(outq)] = "eos"

(* No packet is lost or made up between the sender and recv_thread, and    *)
(* the empty one that ends the stream is behind all others.                *)
EndsLast ==
    /\ \A i \in 1 .. Len(inq) : inq[i] = "eos" => i = Len(inq)
    /\ \A i \in 1 .. Len(outq) : outq[i] = "eos" => i = Len(outq) /\ inq = <<>>

QueueInv ==
    /\ EndsLast
    /\ last => inq = <<>> /\ outq = <<>>
    /\ EndIn \/ EndOut \/ last => spc \in {"join", "returned", "crashed"}
    /\ \/ (EndIn \/ EndOut) /\ Len(inq) + Len(outq) + cnt = sent + 1
       \/ ~EndIn /\ ~EndOut /\ Len(inq) + Len(outq) + cnt = sent
    /\ taken = cnt + (IF last THEN 1 ELSE 0)
    /\ sent <= pos
    /\ spc \in {"filter", "send"} => sent < pos

(* Frames are in somebody's hands once: those of the codec, and those that *)
(* replaced some of them.                                                  *)
FreedInv ==
    LET hand  == IF frame \in {"key", "delta"} THEN 1 ELSE 0
        image == IF frame = "image" THEN 1 ELSE 0
    IN  /\ \/ freed + replaced + hand = taken
           \/ last /\ freed + replaced + hand + 1 = taken
        /\ released + image = fetched

(* What is held at each stage of the set-up, and after it.                 *)
HeldInv ==
    /\ spc = "setup" =>
          \/ stage = 1 /\ held = {"options"}
          \/ stage \in {2, 3} /\ held = {"options", "format"}
          \/ stage = 4 /\ held = {"options", "format", "context"}
          \/ stage = 5 /\ held = {"options", "format", "context", "bsf"}
          \/ stage = 6 /\ held = {"options", "format", "context", "bsf", "session"}
    /\ spc \in {"eos", "join"} => held \subseteq {"session"}
    /\ LeftBehind

Typed == TypeOK /\ ControlInv /\ QueueInv /\ FreedInv /\ HeldInv

USE VideoAssumption, OptionsAssumption, SizesAssumption DEF frameVars

-----------------------------------------------------------------------------

LEMMA InitTyped == Init => Typed
<1> SUFFICES ASSUME Init PROVE Typed
  OBVIOUS
<1>1. Packets \in Seq(Kinds) /\ Len(Packets) \in Nat
  OBVIOUS
<1>2. Len(Stages) = 6
  BY DEF Stages
<1>3. saved \in Seq(1 .. Len(Packets)) /\ inq \in Seq({"key", "delta", "eos"})
      /\ outq \in Seq({"key", "delta", "eos"}) /\ Len(inq) = 0 /\ Len(outq) = 0
  BY DEF Init
<1>a. /\ opt \in Options /\ spc = "setup" /\ stage = 1 /\ held = {"options"}
      /\ pos = 0 /\ packet = None /\ tries = 0 /\ sent = 0 /\ exit = 0
      /\ rpc = "off" /\ frame = None /\ last = FALSE /\ misses = 0 /\ cnt = 0
      /\ taken = 0 /\ freed = 0 /\ replaced = 0 /\ fetched = 0 /\ released = 0
      /\ unsaved = {} /\ wanted = {} /\ dead = FALSE
      /\ server = "idle" /\ replied = FALSE
  BY DEF Init
<1>b. Len(inq) <= QueueSize /\ Len(outq) <= QueueSize  BY <1>3
<1>c. taken \in 0 .. Len(Packets) + 1 /\ freed \in 0 .. Len(Packets) + 1
  BY <1>1, <1>a
<1>d. 0 \in 0 .. Len(Packets) /\ 0 \in 0 .. Limit /\ stage \in 1 .. Len(Stages)
  BY <1>1, <1>2, <1>a
<1>e. /\ packet \in {"key", "delta", None} /\ frame \in {"key", "delta", "image", "null", None}
      /\ exit \in {0, 1} /\ server \in {"idle", "asked", "gone"}
      /\ last \in BOOLEAN /\ replied \in BOOLEAN /\ dead \in BOOLEAN
  BY <1>a
<1>4. TypeOK
  BY <1>3, <1>a, <1>b, <1>c, <1>d, <1>e
  DEF TypeOK, SharedTypeOK, SenderTypeOK, RecvTypeOK, OutsideTypeOK
<1>5. ControlInv  BY DEF Init, ControlInv, None
<1>6. QueueInv  BY <1>1, <1>3, <1>a DEF Init, QueueInv, EndsLast, EndIn, EndOut
<1>7. FreedInv  BY <1>a DEF FreedInv, None
<1>8. HeldInv  BY <1>a DEF HeldInv, LeftBehind
<1> QED  BY <1>4, <1>5, <1>6, <1>7, <1>8 DEF Typed

(* What is in the queues before and after a packet moves. *)
LEMMA Appended ==
  ASSUME NEW S, NEW q \in Seq(S), NEW e \in S
  PROVE  /\ Append(q, e) \in Seq(S) /\ Append(q, e) # <<>>
         /\ Len(Append(q, e)) = Len(q) + 1 /\ Len(q) \in Nat
         /\ Append(q, e)[Len(q) + 1] = e
         /\ \A i \in 1 .. Len(q) : Append(q, e)[i] = q[i]
  OBVIOUS

LEMMA Shifted ==
  ASSUME NEW S, NEW q \in Seq(S), q # <<>>
  PROVE  /\ Tail(q) \in Seq(S) /\ Head(q) \in S /\ Head(q) = q[1]
         /\ Len(Tail(q)) = Len(q) - 1 /\ Len(q) \in Nat \ {0}
         /\ \A i \in 1 .. Len(q) - 1 : Tail(q)[i] = q[i + 1]
  OBVIOUS

LEMMA EmptyIff ==
  ASSUME NEW S, NEW q \in Seq(S)
  PROVE  Len(q) \in Nat /\ (q = <<>> <=> Len(q) = 0)
  OBVIOUS

LEMMA NextQueue == Typed /\ [Next]_vars => QueueInv'
<1> SUFFICES ASSUME Typed, [Next]_vars PROVE QueueInv'
  OBVIOUS
<1> DEFINE E == {"key", "delta", "eos"}
<1>s. inq \in Seq(E) /\ outq \in Seq(E)
  BY DEF Typed, TypeOK, SharedTypeOK, SenderTypeOK, RecvTypeOK, OutsideTypeOK
<1>t. /\ cnt \in Nat /\ taken \in Nat /\ sent \in Nat /\ pos \in Nat
      /\ Len(inq) \in Nat /\ Len(outq) \in Nat
      /\ (inq = <<>> <=> Len(inq) = 0) /\ (outq = <<>> <=> Len(outq) = 0)
      /\ last \in BOOLEAN
  BY <1>s, EmptyIff DEF Typed, TypeOK, SharedTypeOK, SenderTypeOK, RecvTypeOK, OutsideTypeOK
<1>q. QueueInv  BY DEF Typed
<1>k. ControlInv  BY DEF Typed
<1>1. CASE /\ UNCHANGED <<inq, outq, cnt, taken, sent, last>>
           /\ pos' = pos
           /\ spc' \in {"filter", "send"} => spc \in {"filter", "send"}
           /\ spc \in {"join", "returned", "crashed"} =>
                 spc' \in {"join", "returned", "crashed"}
  <2>1. EndIn' = EndIn /\ EndOut' = EndOut
    BY <1>1 DEF EndIn, EndOut
  <2> QED  BY <1>1, <1>q, <1>t, <2>1 DEF QueueInv, EndsLast
<1>2. CASE SetupStep \/ SetupFails \/ SetupCrash
  <2>1. rpc = "off" /\ spc = "setup"
    BY <1>2, <1>k DEF SetupStep, SetupFails, SetupCrash, ControlInv
  <2>2. UNCHANGED <<inq, outq, cnt, taken, sent, last, pos>>
    BY <1>2 DEF SetupStep, SetupFails, SetupCrash, recvVars, codecVars
  <2>3. spc' \in {"setup", "failed", "read", "crashed"}
    BY <1>2, <2>1 DEF SetupStep, SetupFails, SetupCrash
  <2> QED  BY <1>1, <2>1, <2>2, <2>3
<1>3. CASE ReadPacket
  <2>1. UNCHANGED <<inq, outq, cnt, taken, sent, last>> /\ pos' = pos + 1
        /\ spc = "read" /\ spc' \in {"read", "filter"}
    BY <1>3 DEF ReadPacket, SenderGoto, recvVars, codecVars
  <2>2. EndIn' = EndIn /\ EndOut' = EndOut
    BY <2>1 DEF EndIn, EndOut
  <2> QED  BY <1>q, <1>t, <2>1, <2>2 DEF QueueInv, EndsLast
<1>4. CASE SendPacket
  <2>1. /\ inq' = Append(inq, packet) /\ sent' = sent + 1
        /\ UNCHANGED <<outq, cnt, taken, last, pos>>
        /\ spc = "send" /\ spc' = "read"
    BY <1>4 DEF SendPacket, SenderGoto, recvVars
  <2>2. packet \in E /\ packet # "eos"
    BY <1>k, <2>1
    DEF Typed, TypeOK, SharedTypeOK, SenderTypeOK, RecvTypeOK, OutsideTypeOK, ControlInv, None
  <2>3. /\ inq' # <<>> /\ Len(inq') = Len(inq) + 1 /\ inq'[Len(inq) + 1] = packet
        /\ \A i \in 1 .. Len(inq) : inq'[i] = inq[i]
    BY <1>t, <2>1, <2>2, <1>s, Appended
  <2>4. ~EndIn /\ ~EndOut /\ ~last  BY <1>q, <2>1 DEF QueueInv, EndsLast
  <2>5. ~EndIn' /\ ~EndOut'
    BY <1>t, <2>1, <2>2, <2>3, <2>4 DEF EndIn, EndOut
  <2>6. \A i \in 1 .. Len(inq) : inq[i] # "eos"
    BY <1>q, <1>t, <2>4 DEF QueueInv, EndsLast, EndIn
  <2>7. \A i \in 1 .. Len(inq') : inq'[i] # "eos"
    BY <1>t, <2>2, <2>3, <2>6
  <2>8. \A i \in 1 .. Len(outq) : outq[i] # "eos"
    BY <1>q, <1>t, <2>4 DEF QueueInv, EndsLast, EndOut
  <2>9. EndsLast'  BY <2>1, <2>7, <2>8 DEF EndsLast
  <2>10. Len(inq') + Len(outq') + cnt' = sent'
    BY <1>q, <1>t, <2>1, <2>3, <2>4 DEF QueueInv
  <2>11. taken' = cnt' + (IF last' THEN 1 ELSE 0)
    BY <1>q, <1>t, <2>1 DEF QueueInv
  <2>12. sent' <= pos' /\ spc' = "read"
    BY <1>q, <1>t, <2>1 DEF QueueInv
  <2>13. ~last'  BY <2>1, <2>4
  <2> QED  BY <2>1, <2>5, <2>9, <2>10, <2>11, <2>12, <2>13 DEF QueueInv
<1>5. CASE SendEnd
  <2>1. /\ UNCHANGED <<outq, cnt, taken, last, pos, sent>>
        /\ spc = "eos" /\ spc' = "join"
        /\ inq' = Append(inq, "eos") \/ inq' = inq
    BY <1>5 DEF SendEnd, SenderGoto, recvVars
  <2>2. CASE inq' = inq
    BY <1>1, <2>1, <2>2
  <2>3. CASE inq' = Append(inq, "eos")
    <3>1. /\ inq' # <<>> /\ Len(inq') = Len(inq) + 1 /\ inq'[Len(inq) + 1] = "eos"
          /\ \A i \in 1 .. Len(inq) : inq'[i] = inq[i]
      BY <1>t, <2>3, <1>s, Appended
    <3>2. ~EndIn /\ ~EndOut /\ ~last  BY <1>q, <2>1 DEF QueueInv, EndsLast
    <3>3. EndIn' /\ ~EndOut'
      BY <1>t, <2>1, <3>1, <3>2 DEF EndIn, EndOut
    <3>4. \A i \in 1 .. Len(inq) : inq[i] # "eos"
      BY <1>q, <1>t, <3>2 DEF QueueInv, EndsLast, EndIn
    <3>5. \A i \in 1 .. Len(inq') : inq'[i] = "eos" => i = Len(inq')
      BY <1>t, <3>1, <3>4
    <3>6. \A i \in 1 .. Len(outq) : outq[i] # "eos"
      BY <1>q, <1>t, <3>2 DEF QueueInv, EndsLast, EndOut
    <3>7. EndsLast'  BY <2>1, <3>5, <3>6 DEF EndsLast
    <3>8. ~last' BY <2>1, <3>2
    <3>9. Len(inq') + Len(outq') + cnt' = sent' + 1
       BY <1>q, <1>t, <2>1, <3>1, <3>2 DEF QueueInv
    <3>10. taken' = cnt' + (IF last' THEN 1 ELSE 0)
       BY <1>q, <1>t, <2>1 DEF QueueInv
    <3>11. sent' <= pos' /\ (spc' \in {"filter", "send"} => sent' < pos')
       BY <1>q, <1>t, <2>1 DEF QueueInv
    <3> QED  BY <2>1, <3>3, <3>7, <3>8, <3>9, <3>10, <3>11 DEF QueueInv
  <2> QED  BY <2>1, <2>2, <2>3
<1>6. CASE CodecDecode
  <2>1. inq # <<>> /\ UNCHANGED <<cnt, taken, last, pos, sent, spc>>
    BY <1>6 DEF CodecDecode, senderVars, recvVars
  <2>m. outq' = Append(outq, Head(inq)) /\ inq' = Tail(inq)
    BY <1>6 DEF CodecDecode
  <2>2. /\ Head(inq) \in E /\ Head(inq) = inq[1]
        /\ Len(inq') = Len(inq) - 1 /\ Len(inq) \in Nat \ {0}
        /\ \A i \in 1 .. Len(inq) - 1 : inq'[i] = inq[i + 1]
    BY <1>s, <2>1, <2>m, Shifted
  <2>3. /\ outq' # <<>> /\ Len(outq') = Len(outq) + 1
        /\ outq'[Len(outq) + 1] = Head(inq)
        /\ \A i \in 1 .. Len(outq) : outq'[i] = outq[i]
    BY <1>s, <2>m, <2>2, Appended
  <2>4. inq' = <<>> <=> Len(inq') = 0  BY <1>s, <2>1, <2>m, Shifted, EmptyIff
  <2>5. ~EndOut /\ ~last /\ (\A i \in 1 .. Len(outq) : outq[i] # "eos")
    BY <1>q, <1>t, <2>1 DEF QueueInv, EndsLast, EndOut
  <2>6. CASE Head(inq) = "eos"
    <3>1. Len(inq) = 1 /\ EndIn  BY <1>q, <2>1, <2>2, <2>6 DEF QueueInv, EndsLast, EndIn
    <3>2. EndOut' /\ ~EndIn' /\ inq' = <<>>
      BY <1>t, <2>2, <2>3, <2>4, <2>6, <3>1 DEF EndIn, EndOut
    <3>3. \A i \in 1 .. Len(outq') : outq'[i] = "eos" => i = Len(outq')
      BY <1>t, <2>3, <2>5
    <3>4. \A i \in 1 .. Len(inq') : inq'[i] # "eos"  BY <2>2, <3>1
    <3> QED  BY <1>q, <1>t, <2>1, <2>2, <2>3, <2>5, <3>1, <3>2, <3>3, <3>4
             DEF QueueInv, EndsLast
  <2>7. CASE Head(inq) # "eos"
    <3>1. \A i \in 1 .. Len(outq') : outq'[i] # "eos"
      BY <1>t, <2>3, <2>5, <2>7
    <3>2. ~EndOut'  BY <1>t, <2>3, <3>1 DEF EndOut
    <3>3. \A i \in 1 .. Len(inq') : inq'[i] = "eos" => i = Len(inq')
      BY <1>q, <1>t, <2>2 DEF QueueInv, EndsLast
    <3>4. EndIn' <=> EndIn
      BY <1>t, <2>1, <2>2, <2>4, <2>7 DEF EndIn
    <3>5. EndsLast'  BY <3>1, <3>3 DEF EndsLast
    <3>6. Len(inq') + Len(outq') = Len(inq) + Len(outq)  BY <1>t, <2>2, <2>3
    <3> QED  BY <1>q, <1>t, <2>1, <2>5, <3>2, <3>4, <3>5, <3>6 DEF QueueInv
  <2> QED  BY <2>6, <2>7
<1>7. CASE ReceiveFrame
  <2>1. /\ outq # <<>> /\ taken' = taken + 1
        /\ UNCHANGED <<inq, pos, sent, spc>> /\ rpc = "recv"
    BY <1>7 DEF ReceiveFrame, senderVars, RecvGoto
  <2>m. outq' = Tail(outq)  BY <1>7 DEF ReceiveFrame
  <2>2. /\ Head(outq) = outq[1]
        /\ Len(outq') = Len(outq) - 1 /\ Len(outq) \in Nat \ {0}
        /\ \A i \in 1 .. Len(outq) - 1 : outq'[i] = outq[i + 1]
    BY <1>s, <2>1, <2>m, Shifted
  <2>3. outq' = <<>> <=> Len(outq') = 0  BY <1>s, <2>1, <2>m, Shifted, EmptyIff
  <2>4. ~last  BY <1>k, <2>1 DEF ControlInv
  <2>5. EndIn' = EndIn  BY <2>1 DEF EndIn
  <2>6. CASE Head(outq) = "eos"
    <3>1. last' = TRUE /\ cnt' = cnt  BY <1>7, <2>6 DEF ReceiveFrame
    <3>2. Len(outq) = 1 /\ inq = <<>> /\ EndOut
      BY <1>q, <2>1, <2>2, <2>6 DEF QueueInv, EndsLast, EndOut
    <3>3. outq' = <<>> /\ ~EndOut' /\ ~EndIn
      BY <2>2, <2>3, <3>2 DEF EndOut, EndIn
    <3>4. \A i \in 1 .. Len(outq') : outq'[i] # "eos"  BY <2>2, <3>2
    <3> QED  BY <1>q, <1>t, <2>1, <2>2, <2>4, <2>5, <3>1, <3>2, <3>3, <3>4
             DEF QueueInv, EndsLast
  <2>7. CASE Head(outq) # "eos"
    <3>1. last' = last /\ cnt' = cnt + 1  BY <1>7, <2>7 DEF ReceiveFrame
    <3>2. \A i \in 1 .. Len(outq') :
             outq'[i] = "eos" => i = Len(outq') /\ inq = <<>>
      BY <1>q, <1>t, <2>2 DEF QueueInv, EndsLast
    <3>3. EndOut' <=> EndOut
      BY <1>t, <2>1, <2>2, <2>3, <2>7 DEF EndOut
    <3>4. EndsLast'  BY <1>q, <2>1, <3>2 DEF QueueInv, EndsLast
    <3>5. Len(inq') + Len(outq') + cnt' = Len(inq) + Len(outq) + cnt
      BY <1>t, <2>1, <2>2, <3>1
    <3> QED  BY <1>q, <1>t, <2>1, <2>4, <2>5, <3>1, <3>3, <3>4, <3>5
             DEF QueueInv
  <2> QED  BY <2>6, <2>7
<1>8. CASE \/ FilterPacket \/ SendGivenUp \/ SendRetry \/ ReadEnd
           \/ JoinAndClose
  <2>1. UNCHANGED <<inq, outq, cnt, taken, sent, last>> /\ pos' = pos
    BY <1>8 DEF FilterPacket, SendGivenUp, SendRetry, ReadEnd, JoinAndClose,
                recvVars, codecVars
  <2>2. /\ spc' \in {"filter", "send"} => spc \in {"filter", "send"}
        /\ spc \in {"join", "returned", "crashed"} =>
              spc' \in {"join", "returned", "crashed"}
    BY <1>8 DEF FilterPacket, SendGivenUp, SendRetry, ReadEnd, JoinAndClose,
                SenderGoto
  <2> QED  BY <1>1, <2>1, <2>2
<1>9. CASE \/ ReceiveTraps \/ ReceiveNothing \/ TestLoop \/ RetrieveFrame
           \/ SavePicture \/ SaveFails \/ ReceiveReply \/ NullCrash
  <2>1. UNCHANGED <<inq, outq, cnt, taken, sent, last>> /\ pos' = pos
    BY <1>9 DEF ReceiveTraps, ReceiveNothing, TestLoop, RetrieveFrame, SavePicture,
                SaveFails, ReceiveReply, NullCrash, senderVars, codecVars
  <2>2. spc' = spc \/ spc' = "crashed"
    BY <1>9 DEF ReceiveTraps, ReceiveNothing, TestLoop, RetrieveFrame, SavePicture,
                SaveFails, ReceiveReply, NullCrash, senderVars
  <2> QED  BY <1>1, <2>1, <2>2
<1>10. CASE CodecDies \/ ServerReply \/ ServerDies \/ UNCHANGED vars
  <2>1. UNCHANGED <<inq, outq, cnt, taken, sent, last, spc>> /\ pos' = pos
    BY <1>10 DEF CodecDies, ServerReply, ServerDies, vars, senderVars, recvVars,
                 codecVars
  <2> QED  BY <1>1, <2>1
<1> QED
  BY <1>2, <1>3, <1>4, <1>5, <1>6, <1>7, <1>8, <1>9, <1>10
     DEF Next, SenderStep, RecvStep

LEMMA NextFreed == Typed /\ [Next]_vars => FreedInv'
<1> SUFFICES ASSUME Typed, [Next]_vars PROVE FreedInv'
  OBVIOUS
<1>t. /\ taken \in Nat /\ freed \in Nat /\ last \in BOOLEAN
      /\ replaced \in Nat /\ fetched \in Nat /\ released \in Nat
      /\ frame \in {"key", "delta", "image", "null", None}
  BY DEF Typed, TypeOK, SharedTypeOK, SenderTypeOK, RecvTypeOK, OutsideTypeOK
<1>q. FreedInv  BY DEF Typed
<1>k. ControlInv  BY DEF Typed
<1>1. CASE UNCHANGED <<frame, frameVars, last>>
  BY <1>1, <1>q DEF FreedInv
<1>2. CASE SenderStep \/ SetupFails \/ SetupCrash
  BY <1>1, <1>2 DEF SenderStep, SetupStep, ReadPacket, FilterPacket, SendPacket,
     SendGivenUp, SendRetry, ReadEnd, SendEnd, JoinAndClose, SetupFails,
     SetupCrash, recvVars
<1>3. CASE ReceiveFrame
  <2>1. /\ taken' = taken + 1 /\ frame = None /\ ~last
        /\ UNCHANGED <<replaced, fetched, released>>
    BY <1>3, <1>k DEF ReceiveFrame, RecvGoto, ControlInv
  <2>f. freed + replaced = taken /\ released = fetched
    BY <1>q, <1>t, <2>1 DEF FreedInv, None
  <2>2. CASE Head(outq) = "eos"
    <3>1. last' = TRUE /\ frame' = None /\ (freed' = freed \/ freed' = freed + 1)
      BY <1>3, <2>1, <2>2 DEF ReceiveFrame
    <3> QED  BY <1>t, <2>1, <2>f, <3>1 DEF FreedInv, None
  <2>3. CASE Head(outq) # "eos"
    <3>1. \/ frame' = Head(outq) /\ freed' = freed /\ rpc' = "save"
          \/ frame' = None /\ freed' = freed + 1
      BY <1>3, <2>1, <2>3 DEF ReceiveFrame, RecvGoto
    <3>2. Head(outq) \in {"key", "delta"}
      BY <1>3, <2>3, Shifted
      DEF ReceiveFrame, Typed, TypeOK, SharedTypeOK, SenderTypeOK, RecvTypeOK, OutsideTypeOK
    <3> QED  BY <1>t, <2>1, <2>f, <3>1, <3>2 DEF FreedInv, None
  <2> QED  BY <2>2, <2>3
<1>4. CASE SaveFails \/ ReceiveReply
  <2>1. FreeFrame /\ UNCHANGED <<taken, last, replaced, fetched>>
    BY <1>4 DEF SaveFails, ReceiveReply
  <2> QED  BY <1>q, <1>t, <2>1 DEF FreedInv, FreeFrame, None
<1>5. CASE ReceiveTraps \/ ReceiveNothing \/ TestLoop \/ SavePicture
  BY <1>1, <1>5 DEF ReceiveTraps, ReceiveNothing, TestLoop, SavePicture
<1>7. CASE RetrieveFrame
  <2>1. /\ frame \in {"key", "delta"}
        /\ UNCHANGED <<taken, freed, released, last>>
        /\ \/ UNCHANGED <<frame, replaced, fetched>>
           \/ replaced' = replaced + 1 /\ frame' = "image" /\ fetched' = fetched + 1
           \/ replaced' = replaced + 1 /\ frame' = "null" /\ fetched' = fetched
    BY <1>7, <1>k DEF RetrieveFrame, RecvGoto, ControlInv
  <2> QED  BY <1>q, <1>t, <2>1 DEF FreedInv
<1>8. CASE NullCrash
  <2>1. frame = "null" /\ frame' = None /\ UNCHANGED <<frameVars, last>>
    BY <1>8 DEF NullCrash
  <2> QED  BY <1>q, <1>t, <2>1 DEF FreedInv, None
<1>6. CASE \/ CodecDecode \/ CodecDies \/ ServerReply \/ ServerDies
           \/ UNCHANGED vars
  BY <1>1, <1>6 DEF CodecDecode, CodecDies, ServerReply, ServerDies, vars, recvVars
<1> QED
  BY <1>2, <1>3, <1>4, <1>5, <1>6, <1>7, <1>8 DEF Next, RecvStep

LEMMA NextHeld == Typed /\ [Next]_vars => HeldInv'
<1> SUFFICES ASSUME Typed, [Next]_vars PROVE HeldInv'
  OBVIOUS
<1>h. HeldInv  BY DEF Typed
<1>s. stage \in Nat  BY DEF Typed, TypeOK, SharedTypeOK, SenderTypeOK, RecvTypeOK, OutsideTypeOK
<1>1. CASE UNCHANGED <<spc, held, stage>>
  BY <1>1, <1>h DEF HeldInv, LeftBehind
<1>2. CASE SetupStep
  <2>1. CASE stage < 6
    <3>1. stage \in 1 .. 5 /\ spc' = "setup" /\ stage' = stage + 1
          /\ held' = held \cup Stages[stage].gets
      BY <1>2, <1>h, <1>s, <2>1 DEF SetupStep, Stages, HeldInv
    <3> QED  BY <1>2, <1>h, <3>1 DEF SetupStep, HeldInv, LeftBehind, Stages
  <2>2. CASE ~(stage < 6)
    <3>1. spc' = "read"
      BY <1>2, <1>h, <1>s, <2>2 DEF SetupStep, Stages, HeldInv
    <3> QED  BY <3>1 DEF HeldInv, LeftBehind
  <2> QED  BY <2>1, <2>2
<1>3. CASE SetupFails
  <2>1. spc = "setup" /\ spc' = "failed" /\ stage' = stage
        /\ held' = held \cap Stages[stage].leaves
    BY <1>3 DEF SetupFails
  <2> QED  BY <1>h, <2>1 DEF HeldInv, LeftBehind, Stages
<1>4. CASE SetupCrash \/ ReceiveTraps \/ NullCrash
  BY <1>4 DEF SetupCrash, ReceiveTraps, NullCrash, HeldInv, LeftBehind
<1>5. CASE \/ ReadPacket \/ FilterPacket \/ SendPacket \/ SendGivenUp
           \/ SendRetry
  <2>1. spc' \in {"read", "filter", "send"}
    BY <1>5 DEF ReadPacket, FilterPacket, SendPacket, SendGivenUp, SendRetry,
                SenderGoto
  <2> QED  BY <2>1 DEF HeldInv, LeftBehind
<1>6. CASE ReadEnd \/ SendEnd \/ JoinAndClose
  BY <1>6, <1>h DEF ReadEnd, SendEnd, JoinAndClose, SenderGoto, HeldInv, LeftBehind
<1>7. CASE \/ ReceiveFrame \/ ReceiveNothing \/ TestLoop \/ RetrieveFrame
           \/ SavePicture \/ SaveFails \/ ReceiveReply
  BY <1>1, <1>7 DEF ReceiveFrame, ReceiveNothing, TestLoop, RetrieveFrame,
     SavePicture, SaveFails, ReceiveReply, senderVars
<1>8. CASE \/ CodecDecode \/ CodecDies \/ ServerReply \/ ServerDies
           \/ UNCHANGED vars
  BY <1>1, <1>8 DEF CodecDecode, CodecDies, ServerReply, ServerDies, vars,
     senderVars
<1> QED
  BY <1>2, <1>3, <1>4, <1>5, <1>6, <1>7, <1>8 DEF Next, SenderStep, RecvStep

LEMMA NextControl == Typed /\ [Next]_vars => ControlInv'
<1> SUFFICES ASSUME Typed, [Next]_vars PROVE ControlInv'
  OBVIOUS
<1>t. /\ tries \in Nat /\ misses \in Nat /\ cnt \in Nat /\ Limit \in Nat \ {0}
      /\ last \in BOOLEAN /\ exit \in {0, 1}
      /\ spc \in {"setup", "read", "filter", "send", "eos", "join",
                  "returned", "failed", "crashed"}
      /\ rpc \in {"off", "recv", "test", "save", "write", "await", "done"}
  BY DEF Typed, TypeOK, SharedTypeOK, SenderTypeOK, RecvTypeOK, OutsideTypeOK
<1>k. ControlInv  BY DEF Typed
<1>1. CASE SetupStep
  <2>1. spc = "setup" /\ rpc = "off" /\ exit' = exit
        /\ UNCHANGED <<frame, last, misses, cnt>>
    BY <1>1, <1>k DEF SetupStep, ControlInv
  <2>2. CASE stage < Len(Stages)
    BY <1>1, <1>k, <2>1, <2>2 DEF SetupStep, ControlInv
  <2>3. CASE ~(stage < Len(Stages))
    <3>1. "session" \in held'
      BY <1>1, <2>1, <2>3 DEF SetupStep, Typed, HeldInv, Stages
    <3>2. misses = 0 /\ ~last  BY <1>k, <2>1 DEF ControlInv
    <3> QED  BY <1>1, <1>k, <1>t, <2>1, <2>3, <3>1, <3>2 DEF SetupStep, ControlInv
  <2> QED  BY <2>2, <2>3
<1>2. CASE SetupFails \/ SetupCrash
  BY <1>2, <1>k, <1>t DEF SetupFails, SetupCrash, ControlInv, recvVars
<1>3. CASE ReadPacket
  <2>1. UNCHANGED <<rpc, held, frame, last, exit, misses, tries, cnt>>
    BY <1>3 DEF ReadPacket, recvVars
  <2>2. Wanted(Packets[pos + 1]) => Packets[pos + 1] # None
    BY <1>3
    DEF ReadPacket, Wanted, Kinds, None, Typed, TypeOK, SharedTypeOK, SenderTypeOK, RecvTypeOK, OutsideTypeOK
  <2> QED  BY <1>3, <1>k, <1>t, <2>1, <2>2 DEF ReadPacket, SenderGoto, ControlInv
<1>4. CASE FilterPacket \/ SendPacket \/ SendGivenUp
  <2>1. UNCHANGED <<rpc, held, frame, last, exit, misses, cnt>>
    BY <1>4 DEF FilterPacket, SendPacket, SendGivenUp, recvVars
  <2> QED  BY <1>4, <1>k, <1>t, <2>1 DEF FilterPacket, SendPacket, SendGivenUp,
           SenderGoto, ControlInv
<1>5. CASE SendRetry
  <2>1. UNCHANGED <<rpc, held, frame, last, misses, cnt>>
    BY <1>5 DEF SendRetry, recvVars
  <2> QED  BY <1>5, <1>k, <1>t, <2>1 DEF SendRetry, ControlInv
<1>6. CASE ReadEnd \/ SendEnd \/ JoinAndClose
  BY <1>6, <1>k, <1>t DEF ReadEnd, SendEnd, JoinAndClose, SenderGoto, ControlInv,
     recvVars
<1>7. CASE ReceiveFrame
  <2>1. /\ rpc = "recv" /\ rpc' \in {"save", "test"} /\ misses' = 0
        /\ UNCHANGED <<spc, held, packet, tries, exit>>
    BY <1>7 DEF ReceiveFrame, RecvGoto, senderVars
  <2>2. (frame' # None <=> rpc' = "save")
        /\ (rpc' = "save" => frame' \in {"key", "delta"})
    <3>1. Head(outq) \in {"key", "delta", "eos"}
      BY <1>7, Shifted
      DEF ReceiveFrame, Typed, TypeOK, SharedTypeOK, SenderTypeOK, RecvTypeOK, OutsideTypeOK
    <3> QED  BY <1>7, <1>k, <2>1, <3>1 DEF ReceiveFrame, RecvGoto, ControlInv, None
  <2>3. rpc' = "save" => ~last' /\ cnt' = cnt + 1
    BY <1>7, <1>k, <2>1 DEF ReceiveFrame, RecvGoto, ControlInv
  <2> QED  BY <1>k, <1>t, <2>1, <2>2, <2>3 DEF ControlInv
<1>8. CASE ReceiveTraps \/ NullCrash
  BY <1>8, <1>k, <1>t DEF ReceiveTraps, NullCrash, RecvGoto, ControlInv
<1>9. CASE ReceiveNothing
  <2>1. UNCHANGED <<spc, held, packet, tries, frame, last>>
    BY <1>9 DEF ReceiveNothing, senderVars
  <2> QED  BY <1>9, <1>k, <1>t, <2>1 DEF ReceiveNothing, RecvGoto, ControlInv
<1>10. CASE TestLoop \/ RetrieveFrame \/ SavePicture \/ SaveFails \/ ReceiveReply
  <2>1. UNCHANGED <<spc, held, packet, tries, last, exit, misses, cnt>>
    BY <1>10 DEF TestLoop, RetrieveFrame, SavePicture, SaveFails, ReceiveReply,
       senderVars
  <2>2. RetrieveFrame => frame' # None
    BY <1>k DEF RetrieveFrame, RecvGoto, ControlInv, None
  <2> QED  BY <1>10, <1>k, <1>t, <2>1, <2>2 DEF TestLoop, RetrieveFrame, SavePicture,
           SaveFails, ReceiveReply, FreeFrame, RecvGoto, ControlInv
<1>11. CASE \/ CodecDecode \/ CodecDies \/ ServerReply \/ ServerDies
            \/ UNCHANGED vars
  BY <1>11, <1>k DEF CodecDecode, CodecDies, ServerReply, ServerDies, vars,
     senderVars, recvVars, ControlInv
<1> QED
  BY <1>1, <1>2, <1>3, <1>4, <1>5, <1>6, <1>7, <1>8, <1>9, <1>10, <1>11
     DEF Next, SenderStep, RecvStep

LEMMA NextTypes == Typed /\ [Next]_vars => TypeOK'
<1> SUFFICES ASSUME Typed, [Next]_vars PROVE TypeOK'
  OBVIOUS
<1> DEFINE E == {"key", "delta", "eos"}
<1> DEFINE N == Len(Packets)
<1>y. TypeOK  BY DEF Typed
<1>v. /\ SharedTypeOK /\ SenderTypeOK /\ RecvTypeOK /\ OutsideTypeOK
  BY <1>y DEF TypeOK
<1>shared. UNCHANGED <<opt, spc, held, exit, rpc>> => SharedTypeOK'
  BY <1>v DEF SharedTypeOK
<1>sender. UNCHANGED <<stage, pos, packet, tries, sent>> => SenderTypeOK'
  BY <1>v DEF SenderTypeOK
<1>recv. UNCHANGED <<frame, last, misses, cnt, saved, frameVars, unsaved, wanted>>
            => RecvTypeOK'
  BY <1>v DEF RecvTypeOK
<1>outside. UNCHANGED <<inq, outq, dead, server, replied>> => OutsideTypeOK'
  BY <1>v DEF OutsideTypeOK
<1>k. ControlInv  BY DEF Typed
<1>n. N \in Nat  OBVIOUS
<1>q. /\ Len(inq) \in Nat /\ Len(outq) \in Nat
      /\ spc \in {"filter", "send"} => sent < pos
      /\ cnt <= N /\ taken <= N + 1
      /\ outq # <<>> /\ ~last => taken <= N
      /\ outq # <<>> /\ Head(outq) # "eos" => cnt < N
      /\ freed + (IF frame \in {"key", "delta"} THEN 1 ELSE 0) <= taken
  <2>1. Len(inq) \in Nat /\ Len(outq) \in Nat
    BY <1>y, EmptyIff DEF TypeOK, SharedTypeOK, SenderTypeOK, RecvTypeOK, OutsideTypeOK
  <2>2. outq # <<>> => Len(outq) >= 1 /\ Head(outq) = outq[1]
    BY <1>y, Shifted DEF TypeOK, SharedTypeOK, SenderTypeOK, RecvTypeOK, OutsideTypeOK
  <2>3. /\ cnt \in Nat /\ taken \in Nat /\ sent \in Nat /\ pos \in Nat
        /\ freed \in Nat /\ pos <= N /\ last \in BOOLEAN
    BY <1>y DEF TypeOK, SharedTypeOK, SenderTypeOK, RecvTypeOK, OutsideTypeOK
  <2>4. QueueInv /\ FreedInv  BY DEF Typed
  <2>5. Len(inq) + Len(outq) + cnt <= N + 1 /\ taken <= cnt + 1
        /\ sent <= N /\ (~last => taken = cnt)
        /\ (EndIn \/ EndOut \/ Len(inq) + Len(outq) + cnt <= N)
    BY <1>n, <2>1, <2>3, <2>4 DEF QueueInv
  <2>6. EndIn => Len(inq) >= 1
    BY <1>y, <2>1, EmptyIff DEF EndIn, TypeOK, SharedTypeOK, SenderTypeOK, RecvTypeOK, OutsideTypeOK
  <2>7. EndOut => Len(outq) >= 1
    BY <1>y, <2>1, EmptyIff
    DEF EndOut, TypeOK, SharedTypeOK, SenderTypeOK, RecvTypeOK, OutsideTypeOK
  <2>8. cnt <= N
    BY <1>n, <2>1, <2>3, <2>5, <2>6, <2>7
  <2>9. taken <= N + 1 /\ (~last => taken <= N)
    BY <1>n, <2>3, <2>5, <2>8
  <2>10. ASSUME outq # <<>>, Head(outq) # "eos" PROVE cnt < N
    <3>1. EndOut => Len(outq) >= 2
      BY <2>1, <2>2, <2>7, <2>10 DEF EndOut
    <3>2. EndIn => Len(inq) + Len(outq) >= 2
      BY <2>1, <2>2, <2>6, <2>10
    <3> QED  BY <1>n, <2>1, <2>2, <2>3, <2>5, <2>10, <3>1, <3>2
  <2>11. freed + (IF frame \in {"key", "delta"} THEN 1 ELSE 0) <= taken
    <3>1. replaced \in Nat  BY <1>v DEF RecvTypeOK
    <3> QED  BY <2>3, <2>4, <3>1 DEF FreedInv
  <2> QED  BY <2>1, <2>4, <2>8, <2>9, <2>10, <2>11 DEF QueueInv
<1>1. CASE SetupStep
  <2>1. Len(Stages) = 6  BY DEF Stages
  <2>s. stage \in 1 .. 6  BY <1>v, <2>1 DEF SenderTypeOK
  <2>g. Stages[stage].gets \subseteq {"format", "context", "bsf", "session", "packet"}
    BY <2>s DEF Stages
  <2>2. /\ held' \subseteq {"options", "format", "context", "bsf", "session", "packet"}
        /\ stage' \in 1 .. 6
    <3>1. held' = held \cup Stages[stage].gets  BY <1>1 DEF SetupStep
    <3>2. stage' = stage \/ (stage < 6 /\ stage' = stage + 1)
      BY <1>1, <2>1 DEF SetupStep
    <3>3. stage' \in 1 .. 6  BY <2>s, <3>2
    <3> QED  BY <1>v, <2>g, <3>1, <3>3 DEF SharedTypeOK
  <2>3. spc' \in {"setup", "read"} /\ rpc' \in {rpc, "recv"}
        /\ UNCHANGED <<opt, exit>>
    BY <1>1 DEF SetupStep
  <2>4. SharedTypeOK'  BY <1>v, <2>2, <2>3 DEF SharedTypeOK
  <2>5. SenderTypeOK'  BY <1>1, <1>v, <2>1, <2>2 DEF SetupStep, SenderTypeOK
  <2> QED  BY <1>1, <1>recv, <1>outside, <2>4, <2>5
           DEF SetupStep, TypeOK, codecVars, serverVars
<1>2. CASE SetupFails \/ SetupCrash
  <2>1. SharedTypeOK'  BY <1>2, <1>v DEF SetupFails, SetupCrash, SharedTypeOK, recvVars
  <2> QED  BY <1>2, <1>sender, <1>recv, <1>outside, <2>1
           DEF SetupFails, SetupCrash, TypeOK, recvVars, codecVars, serverVars
<1>3. CASE ReadPacket
  <2>1. pos' \in 0 .. N /\ Packets[pos + 1] \in Kinds
    BY <1>3, <1>v, <1>n DEF ReadPacket, SenderTypeOK
  <2>2. packet' \in {"key", "delta", None} /\ spc' \in {"read", "filter"}
    BY <1>3, <1>v, <2>1 DEF ReadPacket, Wanted, Kinds, SenderTypeOK, SenderGoto
  <2>3. SharedTypeOK'  BY <1>3, <1>v, <2>2 DEF ReadPacket, SharedTypeOK, recvVars
  <2>4. SenderTypeOK'  BY <1>3, <1>v, <2>1, <2>2 DEF ReadPacket, SenderTypeOK
  <2> QED  BY <1>3, <1>recv, <1>outside, <2>3, <2>4
           DEF ReadPacket, TypeOK, recvVars, codecVars, serverVars
<1>4. CASE FilterPacket \/ SendGivenUp \/ ReadEnd \/ JoinAndClose
  <2>1. SharedTypeOK'
    BY <1>4, <1>v DEF FilterPacket, SendGivenUp, ReadEnd, JoinAndClose, SenderGoto,
       SharedTypeOK, recvVars
  <2>2. SenderTypeOK'
    BY <1>4, <1>v DEF FilterPacket, SendGivenUp, ReadEnd, JoinAndClose, SenderTypeOK
  <2> QED  BY <1>4, <1>recv, <1>outside, <2>1, <2>2
           DEF FilterPacket, SendGivenUp, ReadEnd, JoinAndClose, TypeOK, recvVars,
               codecVars, serverVars
<1>5. CASE SendPacket
  <2>1. /\ packet \in E /\ spc = "send" /\ sent' = sent + 1 /\ Len(inq) < QueueSize
        /\ inq' = Append(inq, packet)
    BY <1>5, <1>v, <1>k
       DEF SendPacket, SenderGoto, Accepts, SenderTypeOK, ControlInv, None
  <2>2. inq' \in Seq(E) /\ Len(inq') <= QueueSize
    BY <1>v, <2>1, Appended DEF OutsideTypeOK
  <2>3. sent' \in 0 .. N  BY <1>q, <1>n, <1>v, <2>1 DEF SenderTypeOK
  <2>4. OutsideTypeOK'
    BY <1>5, <1>v, <2>2 DEF SendPacket, OutsideTypeOK, serverVars
  <2>5. SenderTypeOK'  BY <1>5, <1>v, <2>3 DEF SendPacket, SenderTypeOK
  <2>6. SharedTypeOK'
    BY <1>5, <1>v DEF SendPacket, SenderGoto, SharedTypeOK, recvVars
  <2> QED  BY <1>5, <1>recv, <2>4, <2>5, <2>6 DEF SendPacket, TypeOK, recvVars
<1>6. CASE SendRetry
  <2>1. SharedTypeOK'  BY <1>6, <1>v DEF SendRetry, SharedTypeOK, recvVars
  <2>2. SenderTypeOK'
    BY <1>6, <1>k, <1>v DEF SendRetry, SenderTypeOK, ControlInv
  <2> QED  BY <1>6, <1>recv, <1>outside, <2>1, <2>2
           DEF SendRetry, TypeOK, recvVars, codecVars, serverVars
<1>7. CASE SendEnd
  <2>1. inq' \in Seq(E) /\ Len(inq') <= QueueSize
    <3>1. CASE inq' = inq  BY <1>v, <3>1 DEF OutsideTypeOK
    <3>2. CASE Len(inq) < QueueSize /\ inq' = Append(inq, "eos")
      BY <1>v, <3>2, Appended DEF OutsideTypeOK
    <3> QED  BY <1>7, <3>1, <3>2 DEF SendEnd, Accepts
  <2>2. OutsideTypeOK'  BY <1>7, <1>v, <2>1 DEF SendEnd, OutsideTypeOK, serverVars
  <2>3. SharedTypeOK'  BY <1>7, <1>v DEF SendEnd, SenderGoto, SharedTypeOK, recvVars
  <2> QED  BY <1>7, <1>sender, <1>recv, <2>2, <2>3 DEF SendEnd, TypeOK, recvVars
<1>8. CASE ReceiveFrame
  <2>1. /\ outq # <<>> /\ ~last /\ frame = None /\ outq' = Tail(outq)
        /\ rpc' \in {"save", "test"} /\ misses' = 0 /\ taken' = taken + 1
    BY <1>8, <1>k DEF ReceiveFrame, RecvGoto, ControlInv
  <2>2. Head(outq) \in E /\ outq' \in Seq(E) /\ Len(outq') = Len(outq) - 1
    BY <1>v, <2>1, Shifted DEF OutsideTypeOK
  <2>3. Len(outq') <= QueueSize  BY <1>q, <1>v, <2>2 DEF OutsideTypeOK
  <2>4. taken' \in 0 .. N + 1  BY <1>n, <1>q, <1>v, <2>1 DEF RecvTypeOK
  <2>5. freed' \in 0 .. N + 1
    <3>1. freed' = freed \/ freed' = freed + 1  BY <1>8 DEF ReceiveFrame
    <3> QED  BY <1>n, <1>q, <1>v, <2>1, <3>1 DEF RecvTypeOK, None
  <2>6. cnt' \in 0 .. N /\ wanted' \subseteq 1 .. N
    <3>1. CASE Head(outq) = "eos"
      BY <1>8, <1>v, <3>1 DEF ReceiveFrame, RecvTypeOK
    <3>2. CASE Head(outq) # "eos"
      <4>1. cnt' = cnt + 1 /\ wanted' \subseteq wanted \cup {cnt'}
        BY <1>8, <3>2 DEF ReceiveFrame
      <4>2. cnt' \in 1 .. N  BY <1>n, <1>q, <1>v, <2>1, <3>2, <4>1 DEF RecvTypeOK
      <4> QED  BY <1>v, <4>1, <4>2 DEF RecvTypeOK
    <3> QED  BY <3>1, <3>2
  <2>7. frame' \in {"key", "delta", "image", "null", None} /\ last' \in BOOLEAN
    BY <1>8, <1>v, <2>1, <2>2 DEF ReceiveFrame, RecvTypeOK
  <2>8. RecvTypeOK'
    BY <1>8, <1>v, <2>1, <2>4, <2>5, <2>6, <2>7 DEF ReceiveFrame, RecvTypeOK
  <2>9. OutsideTypeOK'
    BY <1>8, <1>v, <2>2, <2>3 DEF ReceiveFrame, OutsideTypeOK, serverVars
  <2>10. SharedTypeOK'
    BY <1>8, <1>v, <2>1 DEF ReceiveFrame, SharedTypeOK, senderVars
  <2> QED  BY <1>8, <1>sender, <2>8, <2>9, <2>10 DEF ReceiveFrame, TypeOK, senderVars
<1>9. CASE ReceiveTraps \/ TestLoop
  <2>1. SharedTypeOK'
    BY <1>9, <1>v DEF ReceiveTraps, TestLoop, RecvGoto, SharedTypeOK, senderVars
  <2> QED  BY <1>9, <1>sender, <1>recv, <1>outside, <2>1
           DEF ReceiveTraps, TestLoop, TypeOK, senderVars, codecVars, serverVars
<1>10. CASE ReceiveNothing
  <2>1. misses' \in 0 .. Limit
    BY <1>10, <1>k, <1>v DEF ReceiveNothing, RecvGoto, ControlInv, RecvTypeOK
  <2>2. RecvTypeOK'  BY <1>10, <1>v, <2>1 DEF ReceiveNothing, RecvTypeOK
  <2>3. SharedTypeOK'
    BY <1>10, <1>v DEF ReceiveNothing, RecvGoto, SharedTypeOK, senderVars
  <2> QED  BY <1>10, <1>sender, <1>outside, <2>2, <2>3
           DEF ReceiveNothing, TypeOK, senderVars, codecVars, serverVars
<1>11. CASE SavePicture
  <2>1. cnt \in 1 .. N
    BY <1>11, <1>v, <1>k DEF SavePicture, RecvGoto, RecvTypeOK, ControlInv
  <2>2. saved' \in Seq(1 .. N)
    BY <1>11, <1>v, <2>1, Appended DEF SavePicture, RecvTypeOK
  <2>3. RecvTypeOK'  BY <1>11, <1>v, <2>2 DEF SavePicture, RecvTypeOK
  <2>4. SharedTypeOK'
    BY <1>11, <1>v DEF SavePicture, RecvGoto, SharedTypeOK, senderVars
  <2>5. OutsideTypeOK'  BY <1>11, <1>v DEF SavePicture, OutsideTypeOK, codecVars
  <2> QED  BY <1>11, <1>sender, <2>3, <2>4, <2>5 DEF SavePicture, TypeOK, senderVars
<1>12. CASE SaveFails \/ ReceiveReply
  <2>0. rpc \in {"write", "await"} /\ FreeFrame
    BY <1>12 DEF SaveFails, ReceiveReply, RecvGoto
  <2>1. cnt \in 1 .. N
    BY <2>0, <1>n, <1>v, <1>k DEF RecvTypeOK, ControlInv
  <2>2. freed' \in 0 .. N + 1 /\ released' \in Nat /\ frame' = None
    BY <1>n, <1>q, <1>v, <2>0 DEF FreeFrame, RecvTypeOK
  <2>3. RecvTypeOK'
    BY <1>12, <1>v, <2>1, <2>2 DEF SaveFails, ReceiveReply, RecvTypeOK
  <2>4. SharedTypeOK'
    BY <1>12, <1>v DEF SaveFails, ReceiveReply, RecvGoto, SharedTypeOK, senderVars
  <2>5. OutsideTypeOK'
    BY <1>12, <1>v DEF SaveFails, ReceiveReply, OutsideTypeOK, codecVars, serverVars
  <2> QED  BY <1>12, <1>sender, <2>3, <2>4, <2>5
           DEF SaveFails, ReceiveReply, TypeOK, senderVars
<1>13. CASE CodecDecode
  <2>1. /\ inq # <<>> /\ outq' = Append(outq, Head(inq)) /\ inq' = Tail(inq)
        /\ Len(outq) < QueueSize
    BY <1>13 DEF CodecDecode
  <2>2. /\ Head(inq) \in E /\ inq' \in Seq(E) /\ Len(inq') = Len(inq) - 1
    BY <1>v, <2>1, Shifted DEF OutsideTypeOK
  <2>3. outq' \in Seq(E) /\ Len(outq') = Len(outq) + 1
    BY <1>v, <2>1, <2>2, Appended DEF OutsideTypeOK
  <2>4. Len(inq') <= QueueSize /\ Len(outq') <= QueueSize
    BY <1>q, <1>v, <2>1, <2>2, <2>3 DEF OutsideTypeOK
  <2>5. OutsideTypeOK'
    BY <1>13, <1>v, <2>2, <2>3, <2>4 DEF CodecDecode, OutsideTypeOK, serverVars
  <2> QED  BY <1>13, <1>shared, <1>sender, <1>recv, <2>5
           DEF CodecDecode, TypeOK, senderVars, recvVars
<1>14. CASE CodecDies \/ ServerReply \/ ServerDies
  <2>1. OutsideTypeOK'
    BY <1>14, <1>v DEF CodecDies, ServerReply, ServerDies, OutsideTypeOK, codecVars,
       serverVars
  <2> QED  BY <1>14, <1>shared, <1>sender, <1>recv, <2>1
           DEF CodecDies, ServerReply, ServerDies, TypeOK, senderVars, recvVars
<1>16. CASE RetrieveFrame
  <2>1. /\ frame' \in {"key", "delta", "image", "null", None}
        /\ replaced' \in Nat /\ fetched' \in Nat
    BY <1>16, <1>v DEF RetrieveFrame, RecvTypeOK
  <2>2. RecvTypeOK'  BY <1>16, <1>v, <2>1 DEF RetrieveFrame, RecvTypeOK
  <2>3. SharedTypeOK'
    BY <1>16, <1>v DEF RetrieveFrame, RecvGoto, SharedTypeOK, senderVars
  <2> QED  BY <1>16, <1>sender, <1>outside, <2>2, <2>3
           DEF RetrieveFrame, TypeOK, senderVars, codecVars, serverVars
<1>17. CASE NullCrash
  <2>1. SharedTypeOK'  BY <1>17, <1>v DEF NullCrash, SharedTypeOK
  <2>2. RecvTypeOK'  BY <1>17, <1>v DEF NullCrash, RecvTypeOK
  <2> QED  BY <1>17, <1>sender, <1>outside, <2>1, <2>2
           DEF NullCrash, TypeOK, codecVars, serverVars
<1>15. CASE UNCHANGED vars
  BY <1>15, <1>shared, <1>sender, <1>recv, <1>outside DEF vars, TypeOK
<1> QED
  BY <1>1, <1>2, <1>3, <1>4, <1>5, <1>6, <1>7, <1>8, <1>9, <1>10, <1>11, <1>12,
     <1>13, <1>14, <1>15, <1>16, <1>17 DEF Next, SenderStep, RecvStep

-----------------------------------------------------------------------------
(* Pictures.                                                               *)

(* Why a picture is told: the options ask for its number, or it is an I    *)
(* frame.                                                                  *)
Asked(n) == \/ Keyframe
            \/ n \in wanted
            \/ Skip # 0 /\ n % Skip = 0

(* A picture to be saved. *)
Saving == rpc \in {"save", "write"}

PicturesInv ==
    /\ spc = "setup" => saved = <<>>
    /\ \A i \in 1 .. Len(saved) : /\ saved[i] <= cnt
                                  /\ Saving => saved[i] < cnt
                                  /\ Asked(saved[i])
    /\ \A i, j \in 1 .. Len(saved) : i < j => saved[i] < saved[j]
    /\ Saving => Asked(cnt)
    /\ \A n \in wanted : \/ \E i \in 1 .. Len(saved) : saved[i] = n
                         \/ n \in unsaved
                         \/ n = cnt /\ (Saving \/ spc = "crashed")

LEMMA InitPictures == Init => PicturesInv
<1> SUFFICES ASSUME Init PROVE PicturesInv
  OBVIOUS
<1>1. saved = <<>> /\ rpc = "off" /\ wanted = {} /\ Len(saved) = 0
  BY DEF Init
<1> QED  BY <1>1 DEF PicturesInv, Saving

LEMMA NextPictures == Typed /\ PicturesInv /\ [Next]_vars => PicturesInv'
<1> SUFFICES ASSUME Typed, PicturesInv, [Next]_vars PROVE PicturesInv'
  OBVIOUS
<1>v. RecvTypeOK /\ SharedTypeOK  BY DEF Typed, TypeOK
<1>t. /\ cnt \in Nat /\ Len(saved) \in Nat /\ wanted \subseteq Nat
      /\ \A i \in 1 .. Len(saved) : saved[i] \in Nat
  BY <1>v DEF RecvTypeOK
<1>k. ControlInv  BY DEF Typed
<1>o. Keyframe' = Keyframe /\ Skip' = Skip
  BY DEF Keyframe, Skip, Next, SenderStep, SetupStep, ReadPacket, FilterPacket,
         SendPacket, SendGivenUp, SendRetry, ReadEnd, SendEnd, JoinAndClose,
         SetupFails, SetupCrash, RecvStep, ReceiveFrame, ReceiveTraps,
         ReceiveNothing, TestLoop, RetrieveFrame, SavePicture, SaveFails,
         ReceiveReply, NullCrash, CodecDecode, CodecDies, ServerReply, ServerDies, vars
<1>1. CASE /\ UNCHANGED <<cnt, saved, unsaved, wanted>>
           /\ Saving' => Saving
           /\ Saving \/ spc = "crashed" => Saving' \/ spc' = "crashed"
           /\ spc' = "setup" => spc = "setup"
  BY <1>1, <1>o DEF PicturesInv, Asked
<1>2. CASE \/ SetupStep \/ SetupFails \/ SetupCrash
  <2>1. UNCHANGED <<cnt, saved, unsaved, wanted>>
    BY <1>2 DEF SetupStep, SetupFails, SetupCrash, recvVars
  <2>2. rpc = "off" /\ rpc' \in {rpc, "recv"} /\ spc = "setup"
    BY <1>2, <1>k DEF SetupStep, SetupFails, SetupCrash, recvVars, ControlInv
  <2> QED  BY <1>1, <2>1, <2>2 DEF Saving
<1>3. CASE \/ ReadPacket \/ FilterPacket \/ SendPacket \/ SendGivenUp \/ SendRetry
           \/ ReadEnd \/ SendEnd \/ JoinAndClose
  <2>1. UNCHANGED <<cnt, saved, unsaved, wanted, rpc>>
    BY <1>3 DEF ReadPacket, FilterPacket, SendPacket, SendGivenUp, SendRetry,
       ReadEnd, SendEnd, JoinAndClose, recvVars
  <2>2. spc' # "setup" /\ spc # "crashed"
    BY <1>3 DEF ReadPacket, FilterPacket, SendPacket, SendGivenUp, SendRetry,
       ReadEnd, SendEnd, JoinAndClose, SenderGoto
  <2> QED  BY <1>1, <2>1, <2>2 DEF Saving
<1>4. CASE ReceiveFrame
  <2>1. /\ rpc = "recv" /\ saved' = saved /\ unsaved' = unsaved /\ spc' = spc
        /\ ~DividesByZero
    BY <1>4 DEF ReceiveFrame, RecvGoto, senderVars
  <2>c. ~Saving /\ spc # "crashed" /\ spc # "setup"
    BY <1>k, <2>1 DEF ControlInv, Saving
  <2>2. CASE Head(outq) = "eos"
    <3>1. cnt' = cnt /\ wanted' = wanted /\ rpc' = "test"
      BY <1>4, <2>2 DEF ReceiveFrame, RecvGoto
    <3> QED  BY <1>1, <2>1, <2>c, <3>1 DEF Saving
  <2>3. CASE Head(outq) # "eos"
    <3>1. cnt' = cnt + 1 /\ rpc' \in {"save", "test"}
      BY <1>4, <2>3 DEF ReceiveFrame, RecvGoto
    <3>2. wanted' = IF Head(outq) = "key" THEN wanted \cup {cnt'} ELSE wanted
      BY <1>4, <2>3 DEF ReceiveFrame
    <3>3. Saving' <=> ToSave(Head(outq), cnt')
      BY <1>4, <2>3 DEF ReceiveFrame, RecvGoto, Saving
    <3>4. Saving' => Asked(cnt)'
      BY <1>o, <2>1, <3>2, <3>3 DEF ToSave, DividesByZero, Asked
    <3>5. \A n : Asked(n) => (Keyframe' \/ n \in wanted' \/ (Skip' # 0 /\ n % Skip' = 0))
      BY <1>o, <3>2 DEF Asked
    <3>6. \A i \in 1 .. Len(saved) : saved[i] <= cnt /\ Asked(saved[i])
      BY DEF PicturesInv
    <3>7. \A i \in 1 .. Len(saved) : Asked(saved[i])'
      BY <2>1, <3>5, <3>6 DEF Asked
    <3>8. \A i \in 1 .. Len(saved) : saved[i] < cnt'
      BY <1>t, <3>1, <3>6
    <3>9. \A n \in wanted' : \/ \E i \in 1 .. Len(saved) : saved[i] = n
                             \/ n \in unsaved
                             \/ n = cnt' /\ Saving'
      <4>1. \A n \in wanted : \/ \E i \in 1 .. Len(saved) : saved[i] = n
                              \/ n \in unsaved
        BY <2>c DEF PicturesInv
      <4>2. Head(outq) = "key" => Saving'  BY <3>3 DEF ToSave
      <4> QED  BY <3>2, <4>1, <4>2
    <3>10. spc' # "setup"  BY <2>1, <2>c
    <3>11. \A i, j \in 1 .. Len(saved) : i < j => saved[i] < saved[j]
      BY DEF PicturesInv
    <3>12. \A i \in 1 .. Len(saved) : saved[i] <= cnt'
      BY <1>t, <3>1, <3>6
    <3> QED  BY <2>1, <3>4, <3>7, <3>8, <3>9, <3>10, <3>11, <3>12 DEF PicturesInv
  <2> QED  BY <2>2, <2>3
<1>5. CASE \/ ReceiveTraps \/ ReceiveNothing \/ TestLoop \/ RetrieveFrame
           \/ ReceiveReply \/ NullCrash
  <2>1. UNCHANGED <<cnt, saved, unsaved, wanted>>
    BY <1>5 DEF ReceiveTraps, ReceiveNothing, TestLoop, RetrieveFrame, ReceiveReply,
       NullCrash
  <2>2. /\ spc' = spc \/ spc' = "crashed"
        /\ Saving' => Saving
        /\ Saving => Saving' \/ spc' = "crashed"
    BY <1>5 DEF ReceiveTraps, ReceiveNothing, TestLoop, RetrieveFrame, ReceiveReply,
       NullCrash, RecvGoto, Saving, senderVars
  <2> QED  BY <1>1, <2>1, <2>2
<1>6. CASE SavePicture
  <2>1. /\ rpc = "write" /\ rpc' = "await" /\ UNCHANGED <<cnt, unsaved, wanted, spc>>
        /\ saved' = Append(saved, cnt)
    BY <1>6 DEF SavePicture, RecvGoto, senderVars
  <2>2. cnt \in 1 .. Len(Packets)
    BY <1>v, <1>k, <2>1 DEF RecvTypeOK, ControlInv
  <2>3. /\ Len(saved') = Len(saved) + 1 /\ saved'[Len(saved) + 1] = cnt
        /\ \A i \in 1 .. Len(saved) : saved'[i] = saved[i]
    BY <1>v, <2>1, <2>2, Appended DEF RecvTypeOK
  <2>4. Asked(cnt) /\ \A i \in 1 .. Len(saved) : saved[i] < cnt /\ Asked(saved[i])
    BY <2>1 DEF PicturesInv, Saving
  <2>5. \A i, j \in 1 .. Len(saved) : i < j => saved[i] < saved[j]
    BY DEF PicturesInv
  <2>6. \A i \in 1 .. Len(saved') : saved'[i] <= cnt' /\ Asked(saved'[i])
    BY <1>t, <2>1, <2>3, <2>4
  <2>7. \A i, j \in 1 .. Len(saved') : i < j => saved'[i] < saved'[j]
    BY <1>t, <2>3, <2>4, <2>5
  <2>8. \A n \in wanted' : \/ \E i \in 1 .. Len(saved') : saved'[i] = n
                           \/ n \in unsaved'
    <3> SUFFICES ASSUME NEW n \in wanted, n \notin unsaved
                 PROVE  \E i \in 1 .. Len(saved') : saved'[i] = n
      BY <2>1
    <3>1. CASE n = cnt
      <4>1. Len(saved) + 1 \in 1 .. Len(saved')  BY <1>t, <2>3
      <4> QED  BY <2>3, <3>1, <4>1
    <3>2. CASE n # cnt
      <4>1. PICK i \in 1 .. Len(saved) : saved[i] = n
        BY <1>k, <2>1, <3>2 DEF PicturesInv, ControlInv
      <4>2. i \in 1 .. Len(saved')  BY <1>t, <2>3, <4>1
      <4> QED  BY <2>3, <4>1, <4>2
    <3> QED  BY <3>1, <3>2
  <2>9. \A i \in 1 .. Len(saved') : Asked(saved[i])' <=> Asked(saved'[i])
    BY <1>o, <2>1 DEF Asked
  <2>10. spc' # "setup"  BY <1>k, <2>1 DEF ControlInv
  <2> QED  BY <2>1, <2>6, <2>7, <2>8, <2>9, <2>10 DEF PicturesInv, Saving
<1>7. CASE SaveFails
  <2>1. /\ rpc = "write" /\ rpc' = "test" /\ UNCHANGED <<cnt, saved, wanted, spc>>
        /\ unsaved' = unsaved \cup {cnt}
    BY <1>7 DEF SaveFails, RecvGoto, senderVars
  <2>2. spc \notin {"setup", "crashed"}  BY <1>k, <2>1 DEF ControlInv
  <2> QED  BY <1>o, <2>1, <2>2 DEF PicturesInv, Asked, Saving
<1>8. CASE \/ CodecDecode \/ CodecDies \/ ServerReply \/ ServerDies
           \/ UNCHANGED vars
  <2>1. UNCHANGED <<cnt, saved, unsaved, wanted, rpc, spc>>
    BY <1>8 DEF CodecDecode, CodecDies, ServerReply, ServerDies, vars, senderVars,
       recvVars
  <2> QED  BY <1>1, <2>1 DEF Saving
<1> QED
  BY <1>2, <1>3, <1>4, <1>5, <1>6, <1>7, <1>8 DEF Next, SenderStep, RecvStep

-----------------------------------------------------------------------------
(* The theorems.                                                           *)

IInv == Typed /\ PicturesInv

LEMMA NextTyped == Typed /\ [Next]_vars => Typed'
BY NextTypes, NextControl, NextQueue, NextFreed, NextHeld DEF Typed

LEMMA Inductive == Spec => []IInv
<1>1. Init => IInv
  BY InitTyped, InitPictures DEF IInv
<1>2. IInv /\ [Next]_vars => IInv'
  BY NextTyped, NextPictures DEF IInv
<1> QED  BY <1>1, <1>2, PTL DEF Spec

(* Type correctness of the whole session: both threads, the codec and what *)
(* the picture server sees of them.                                        *)
THEOREM TypeCorrect == Spec => []TypeOK
<1>1. IInv => TypeOK  BY DEF IInv, Typed
<1> QED  BY <1>1, Inductive, PTL

(* recv_thread never uses a codec session that demo_decode_file closed, or *)
(* the stack of a call that returned.                                      *)
THEOREM ReceiverInside == Spec => []SessionOutlivesReceiver
<1>1. IInv => SessionOutlivesReceiver
  BY DEF IInv, Typed, ControlInv, SessionOutlivesReceiver
<1> QED  BY <1>1, Inductive, PTL

(* A session that returns with exit unset received a frame for each packet *)
(* it sent, whatever the queues hold and however the threads are scheduled.*)
THEOREM AllReceived == Spec => []NothingLost
<1>1. IInv => NothingLost
  <2> SUFFICES ASSUME IInv, spc = "returned", exit = 0 PROVE cnt = sent
    BY DEF NothingLost
  <2>1. /\ inq \in Seq({"key", "delta", "eos"}) /\ outq \in Seq({"key", "delta", "eos"})
        /\ cnt \in Nat /\ sent \in Nat
    BY DEF IInv, Typed, TypeOK, SenderTypeOK, RecvTypeOK, OutsideTypeOK
  <2>2. rpc = "done" /\ last  BY DEF IInv, Typed, ControlInv
  <2>3. inq = <<>> /\ outq = <<>>  BY <2>2 DEF IInv, Typed, QueueInv
  <2>4. Len(inq) = 0 /\ Len(outq) = 0  BY <2>3
  <2>5. ~EndIn /\ ~EndOut  BY <2>3 DEF EndIn, EndOut
  <2> QED  BY <2>1, <2>4, <2>5 DEF IInv, Typed, QueueInv
<1> QED  BY <1>1, Inductive, PTL

(* No frame is freed twice, and none is lost but the last and those that   *)
(* save_yuv replaced; what it replaced them by is freed once too.          *)
THEOREM FreedOnce == Spec => []FramesFreed
<1>1. IInv => FramesFreed
  <2> SUFFICES ASSUME IInv PROVE FramesFreed
    OBVIOUS
  <2>1. taken \in Nat /\ freed \in Nat /\ replaced \in Nat
    BY DEF IInv, Typed, TypeOK, RecvTypeOK
  <2> QED  BY <2>1 DEF IInv, Typed, FreedInv, FramesFreed
<1> QED  BY <1>1, Inductive, PTL

(* What each way out of demo_decode_file leaves behind.                    *)
THEOREM LeftBehindExactly == Spec => []LeftBehind
<1>1. IInv => LeftBehind  BY DEF IInv, Typed, HeldInv
<1> QED  BY <1>1, Inductive, PTL

(* Pictures get rising numbers, those the options and the I frames ask     *)
(* for, and every I frame gets one.                                        *)
THEOREM NumbersRise == Spec => []PicturesNumbered
<1>1. IInv => PicturesNumbered
  <2> SUFFICES ASSUME IInv PROVE PicturesNumbered
    OBVIOUS
  <2>1. DOMAIN saved = 1 .. Len(saved)
    BY DEF IInv, Typed, TypeOK, RecvTypeOK
  <2> QED  BY <2>1 DEF IInv, PicturesInv, Asked, Saving, PicturesNumbered
<1> QED  BY <1>1, Inductive, PTL

-----------------------------------------------------------------------------
(* The refinement.                                                         *)

LEMMA NextService == IInv /\ [Next]_vars => [Service!Next]_Service!vars
<1> SUFFICES ASSUME IInv, [Next]_vars PROVE [Service!Next]_Service!vars
  OBVIOUS
<1>k. ControlInv  BY DEF IInv, Typed
<1>p. PicturesInv  BY DEF IInv
<1>v. RecvTypeOK  BY DEF IInv, Typed, TypeOK
<1>s. UNCHANGED <<Seen, saved>> => UNCHANGED Service!vars
  BY DEF Service!vars
<1>1. CASE SetupStep
  <2>1. saved' = saved /\ Seen = "decoding" /\ Seen' = "decoding"
    BY <1>1, <1>k DEF SetupStep, ControlInv, Seen, Ended
  <2> QED  BY <1>s, <2>1
<1>2. CASE SetupFails
  <2>1. saved' = saved /\ saved = <<>> /\ Seen = "decoding" /\ Seen' = "failed"
    BY <1>2, <1>k, <1>p DEF SetupFails, ControlInv, Seen, Ended, recvVars, PicturesInv
  <2> QED  BY <2>1 DEF Service!Next, Service!Fail, Service!Goto
<1>3. CASE SetupCrash \/ ReceiveTraps \/ NullCrash
  <2>1. saved' = saved /\ Seen \in {"decoding", "asking"} /\ Seen' = "crashed"
    BY <1>3, <1>k DEF SetupCrash, ReceiveTraps, NullCrash, RecvGoto, ControlInv, Seen,
       Ended, recvVars
  <2> QED  BY <2>1 DEF Service!Next, Service!Crash
<1>4. CASE \/ ReadPacket \/ FilterPacket \/ SendPacket \/ SendGivenUp \/ SendRetry
           \/ ReadEnd \/ SendEnd
  <2>1. saved' = saved /\ rpc' = rpc
    BY <1>4 DEF ReadPacket, FilterPacket, SendPacket, SendGivenUp, SendRetry,
       ReadEnd, SendEnd, recvVars
  <2>2. ~Ended /\ ~Ended'
    BY <1>4 DEF ReadPacket, FilterPacket, SendPacket, SendGivenUp, SendRetry,
       ReadEnd, SendEnd, SenderGoto, Ended
  <2> QED  BY <1>s, <2>1, <2>2 DEF Seen
<1>5. CASE JoinAndClose
  <2>1. saved' = saved /\ Seen = "decoding" /\ Seen' = "returned"
    BY <1>5 DEF JoinAndClose, SenderGoto, Seen, Ended, recvVars
  <2> QED  BY <2>1 DEF Service!Next, Service!Return, Service!Goto
<1>6. CASE ReceiveFrame \/ ReceiveNothing \/ TestLoop \/ RetrieveFrame \/ SaveFails
  <2>1. saved' = saved /\ rpc # "await" /\ rpc' # "await" /\ spc' = spc
    BY <1>6 DEF ReceiveFrame, ReceiveNothing, TestLoop, RetrieveFrame, SaveFails,
       RecvGoto, senderVars
  <2> QED  BY <1>s, <2>1 DEF Seen, Ended
<1>7. CASE SavePicture
  <2>1. rpc = "write" /\ rpc' = "await" /\ saved' = Append(saved, cnt) /\ spc' = spc
    BY <1>7 DEF SavePicture, RecvGoto, senderVars
  <2>2. Seen = "decoding" /\ Seen' = "asking"
    BY <1>k, <2>1 DEF ControlInv, Seen, Ended
  <2>3. cnt \in 1 .. Len(Packets)
    BY <1>v, <1>k, <2>1 DEF RecvTypeOK, ControlInv
  <2>4. \A i \in DOMAIN saved : saved[i] < cnt
    BY <1>v, <1>p, <2>1 DEF RecvTypeOK, PicturesInv, Saving
  <2>5. Service!Tell(cnt)
    BY <2>1, <2>2, <2>4 DEF Service!Tell, Service!Goto
  <2> QED  BY <2>3, <2>5 DEF Service!Next
<1>8. CASE ReceiveReply
  <2>1. rpc = "await" /\ rpc' = "test" /\ saved' = saved /\ spc' = spc
    BY <1>8 DEF ReceiveReply, RecvGoto, senderVars
  <2>2. Seen = "asking" /\ Seen' = "decoding"
    BY <1>k, <2>1 DEF ControlInv, Seen, Ended
  <2> QED  BY <2>1, <2>2 DEF Service!Next, Service!Answered, Service!Goto
<1>9. CASE \/ CodecDecode \/ CodecDies \/ ServerReply \/ ServerDies
           \/ UNCHANGED vars
  <2>1. UNCHANGED <<spc, rpc, saved>>
    BY <1>9 DEF CodecDecode, CodecDies, ServerReply, ServerDies, vars, senderVars,
       recvVars
  <2> QED  BY <1>s, <2>1 DEF Seen, Ended
<1> QED
  BY <1>1, <1>2, <1>3, <1>4, <1>5, <1>6, <1>7, <1>8, <1>9
     DEF Next, SenderStep, RecvStep

(* demo_decode_file does what DecodeService promises.                      *)
THEOREM Implements == Spec => ImplementsDecode
<1>1. Init => Service!Init
  BY DEF Init, Service!Init, Seen, Ended
<1>2. IInv /\ [Next]_vars => [Service!Next]_Service!vars
  BY NextService
<1> QED  BY <1>1, <1>2, Inductive, PTL DEF Spec, ImplementsDecode, Service!Spec

-----------------------------------------------------------------------------
(* How a session ends.                                                     *)

(* The last packet does not get lost, a server that lives was asked, and   *)
(* only the stream program sets exit.                                      *)
EndInv ==
    /\ spc = "join" => exit = 1 \/ last \/ EndIn \/ EndOut
    /\ rpc = "await" /\ ~replied => server # "idle"
    /\ exit = 1 => Stream

LEMMA InitEnd == Init => EndInv
BY DEF Init, EndInv

LEMMA NextEnd == Typed /\ EndInv /\ [Next]_vars => EndInv'
<1> SUFFICES ASSUME Typed, EndInv, [Next]_vars PROVE EndInv'
  OBVIOUS
<1> USE DEF senderVars, recvVars, codecVars, serverVars, SenderGoto, RecvGoto
<1> DEFINE E == {"key", "delta", "eos"}
<1>s. inq \in Seq(E) /\ outq \in Seq(E)
  BY DEF Typed, TypeOK, OutsideTypeOK
<1>t. exit \in {0, 1} /\ last \in BOOLEAN /\ replied \in BOOLEAN /\ Stream \in BOOLEAN
  BY OptionsAssumption DEF Typed, TypeOK, SharedTypeOK, RecvTypeOK, OutsideTypeOK, Stream
<1>o. opt' = opt
  BY DEF Next, SenderStep, RecvStep, SetupStep, SetupFails, SetupCrash, ReadPacket,
         FilterPacket, SendPacket, SendGivenUp, SendRetry, ReadEnd, SendEnd,
         JoinAndClose, ReceiveFrame, ReceiveTraps, ReceiveNothing, TestLoop,
         RetrieveFrame, SavePicture, SaveFails, ReceiveReply, NullCrash, CodecDecode,
         CodecDies, ServerReply, ServerDies, vars
<1>1. CASE /\ UNCHANGED <<inq, outq, last>>
           /\ exit' = exit \/ (exit' = 1 /\ Stream)
           /\ spc' = "join" => spc = "join"
           /\ UNCHANGED <<rpc, server, replied>> \/ (rpc' # "await" \/ server' # "idle" \/ replied')
  <2>1. EndIn' = EndIn /\ EndOut' = EndOut  BY <1>1 DEF EndIn, EndOut
  <2>2. Stream' = Stream  BY <1>o DEF Stream
  <2> QED  BY <1>1, <1>t, <2>1, <2>2 DEF EndInv
<1>2. CASE \/ SetupStep \/ SetupFails \/ SetupCrash \/ ReadPacket \/ FilterPacket
           \/ SendGivenUp \/ SendRetry \/ ReadEnd \/ JoinAndClose
  <2>1. UNCHANGED <<inq, outq, last, server, replied>>
    BY <1>2 DEF SetupStep, SetupFails, SetupCrash, ReadPacket, FilterPacket,
                SendGivenUp, SendRetry, ReadEnd, JoinAndClose
  <2>2. rpc' = rpc \/ rpc' = "recv"
    BY <1>2 DEF SetupStep, SetupFails, SetupCrash, ReadPacket, FilterPacket,
                SendGivenUp, SendRetry, ReadEnd, JoinAndClose
  <2>3. (exit' = exit \/ (exit' = 1 /\ Stream)) /\ spc' # "join"
    BY <1>2 DEF SetupStep, SetupFails, SetupCrash, ReadPacket, FilterPacket,
                SendGivenUp, SendRetry, ReadEnd, JoinAndClose
  <2> QED  BY <1>1, <2>1, <2>2, <2>3
<1>3. CASE SendPacket
  <2>1. /\ spc' # "join" /\ exit' = exit
        /\ UNCHANGED <<rpc, server, replied>>
    BY <1>3 DEF SendPacket
  <2> QED  BY <1>o, <2>1 DEF EndInv, Stream
<1>4. CASE SendEnd
  <2>1. /\ UNCHANGED <<outq, exit, rpc, server, replied, last>>
        /\ inq' = Append(inq, "eos") \/ exit = 1
    BY <1>4 DEF SendEnd
  <2>2. ASSUME inq' = Append(inq, "eos") PROVE EndIn'
    <3>1. inq' # <<>> /\ Len(inq') = Len(inq) + 1 /\ inq'[Len(inq) + 1] = "eos"
      BY <2>2, <1>s, Appended
    <3> QED  BY <3>1 DEF EndIn
  <2> QED  BY <1>o, <2>1, <2>2 DEF EndInv, Stream
<1>5. CASE CodecDecode
  <2>1. UNCHANGED <<spc, exit, rpc, server, replied, last>> /\ inq # <<>>
    BY <1>5 DEF CodecDecode
  <2>m. outq' = Append(outq, Head(inq)) /\ inq' = Tail(inq)
    BY <1>5 DEF CodecDecode
  <2>2. /\ Head(inq) \in E /\ Head(inq) = inq[1]
        /\ Len(inq') = Len(inq) - 1 /\ Len(inq) \in Nat \ {0}
        /\ \A i \in 1 .. Len(inq) - 1 : inq'[i] = inq[i + 1]
    BY <1>s, <2>1, <2>m, Shifted
  <2>3. /\ outq' # <<>> /\ Len(outq') = Len(outq) + 1
        /\ outq'[Len(outq) + 1] = Head(inq)
    BY <1>s, <2>m, <2>2, Appended
  <2>4. inq' = <<>> <=> Len(inq') = 0  BY <1>s, <2>1, <2>m, Shifted, EmptyIff
  <2>5. ~EndOut  BY <2>1 DEF Typed, QueueInv, EndsLast, EndOut
  <2>6. EndIn => EndIn' \/ EndOut'
    <3>1. CASE Len(inq) = 1
      BY <2>2, <2>3, <3>1 DEF EndIn, EndOut
    <3>2. CASE Len(inq) # 1
      BY <2>2, <2>4, <3>2 DEF EndIn
    <3> QED  BY <3>1, <3>2
  <2> QED  BY <1>o, <2>1, <2>5, <2>6 DEF EndInv, Stream
<1>6. CASE ReceiveFrame
  <2>1. /\ UNCHANGED <<spc, exit, server, replied, inq>> /\ rpc' # "await"
        /\ outq # <<>>
        /\ last' = last \/ last'
    BY <1>6 DEF ReceiveFrame
  <2>m. outq' = Tail(outq) /\ rpc = "recv"  BY <1>6 DEF ReceiveFrame
  <2>2. /\ Head(outq) = outq[1]
        /\ Len(outq') = Len(outq) - 1 /\ Len(outq) \in Nat \ {0}
        /\ \A i \in 1 .. Len(outq) - 1 : outq'[i] = outq[i + 1]
    BY <1>s, <2>1, <2>m, Shifted
  <2>3. outq' = <<>> <=> Len(outq') = 0  BY <1>s, <2>1, <2>m, Shifted, EmptyIff
  <2>4. EndIn' = EndIn  BY <2>1 DEF EndIn
  <2>5. EndOut => EndOut' \/ last'
    <3>1. CASE Len(outq) = 1
      BY <1>6, <2>2, <3>1 DEF EndOut, ReceiveFrame
    <3>2. CASE Len(outq) # 1
      BY <2>2, <2>3, <3>2 DEF EndOut
    <3> QED  BY <3>1, <3>2
  <2> QED  BY <1>o, <2>1, <2>4, <2>5 DEF EndInv, Stream
<1>7. CASE \/ ReceiveTraps \/ ReceiveNothing \/ TestLoop \/ RetrieveFrame
           \/ SaveFails \/ ReceiveReply \/ NullCrash
  <2>1. UNCHANGED <<inq, outq, last>> /\ rpc' # "await"
    BY <1>7 DEF ReceiveTraps, ReceiveNothing, TestLoop, RetrieveFrame, SaveFails,
                ReceiveReply, NullCrash
  <2>2. exit' = exit \/ (exit' = 1 /\ Stream)
    BY <1>7 DEF ReceiveTraps, ReceiveNothing, TestLoop, RetrieveFrame, SaveFails,
                ReceiveReply, NullCrash
  <2>3. spc' = spc \/ spc' = "crashed"
    BY <1>7 DEF ReceiveTraps, ReceiveNothing, TestLoop, RetrieveFrame, SaveFails,
                ReceiveReply, NullCrash
  <2> QED  BY <1>1, <2>1, <2>2, <2>3
<1>8. CASE SavePicture
  <2>1. UNCHANGED <<inq, outq, last, exit, spc>> /\ server' # "idle"
    BY <1>8 DEF SavePicture
  <2> QED  BY <1>1, <2>1
<1>9. CASE CodecDies \/ ServerReply \/ ServerDies \/ UNCHANGED vars
  <2>1. UNCHANGED <<inq, outq, last, exit, spc, rpc>>
    BY <1>9 DEF CodecDies, ServerReply, ServerDies, vars
  <2>2. UNCHANGED <<server, replied>> \/ server' # "idle" \/ replied'
    BY <1>9 DEF CodecDies, ServerReply, ServerDies, vars
  <2> QED  BY <1>1, <2>1, <2>2
<1> QED
  BY <1>2, <1>3, <1>4, <1>5, <1>6, <1>7, <1>8, <1>9 DEF Next, SenderStep, RecvStep

LEMMA EndHolds == Spec => [](Typed /\ EndInv)
<1>1. Init => Typed /\ EndInv
  BY InitTyped, InitEnd
<1>2. Typed /\ EndInv /\ [Next]_vars => (Typed /\ EndInv)'
  BY NextTyped, NextEnd
<1> QED  BY <1>1, <1>2, PTL DEF Spec

(* Sender, recv_thread, codec and server do not end up waiting for each    *)
(* other: a full queue is emptied, and the end of the stream gets through. *)
THEOREM StandsStillDone == Spec => []StillMeansDone
<1>1. Typed /\ EndInv => StillMeansDone
  <2> SUFFICES ASSUME Typed, EndInv, StandsStill, ~Ended, ~(~Stream /\ dead)
               PROVE  Unanswered
    BY DEF StillMeansDone
  <2>t. /\ spc \in {"setup", "read", "filter", "send", "eos", "join", "returned",
                    "failed", "crashed"}
        /\ rpc \in {"off", "recv", "test", "save", "write", "await", "done"}
        /\ exit \in {0, 1} /\ server \in {"idle", "asked", "gone"}
    BY DEF Typed, TypeOK, SharedTypeOK, OutsideTypeOK
  <2>1. /\ SenderBlocked /\ RecvBlocked /\ CodecBlocked /\ server # "asked"
        /\ spc \in {"send", "eos", "join"}
    BY <2>t DEF StandsStill, SenderBlocked
  <2>2. spc = "join" => rpc # "done"  BY <2>1 DEF SenderBlocked, Ended
  <2>3. rpc # "off"  BY <2>1 DEF Typed, ControlInv
  <2>4. rpc # "done"
    <3>1. SUFFICES ASSUME rpc = "done" PROVE FALSE
      OBVIOUS
    <3>2. exit = 0 /\ spc # "join"  BY <2>1, <2>2, <3>1 DEF SenderBlocked, Ended
    <3> QED  BY <2>1, <3>1, <3>2 DEF Typed, ControlInv, QueueInv
  <2>5. ~Spins
    <3> SUFFICES ASSUME Spins PROVE FALSE
      OBVIOUS
    <3>1. ~dead /\ outq = <<>> /\ ~last /\ exit = 0  BY DEF Spins
    <3>2. "session" \in held  BY <2>1, <2>3 DEF Typed, ControlInv
    <3>3. Len(outq) # QueueSize  BY <3>1, SizesAssumption
    <3>4. inq = <<>>  BY <2>1, <3>1, <3>2, <3>3 DEF CodecBlocked
    <3>5. Accepts  BY <3>1, <3>4, SizesAssumption DEF Accepts
    <3>6. spc = "join"  BY <2>1, <3>5 DEF SenderBlocked, Ended
    <3> QED  BY <3>1, <3>4, <3>6 DEF EndInv, EndIn, EndOut
  <2>6. rpc = "await" /\ ~replied  BY <2>1, <2>3, <2>4, <2>5 DEF RecvBlocked
  <2> QED  BY <2>t, <2>1, <2>6 DEF EndInv, Unanswered
<1> QED  BY <1>1, EndHolds, PTL

ServerLeft == IF server = "asked" THEN 1 ELSE 0

(* Every distance is a natural number. *)
DistancesInv ==
    /\ SenderLeft \in Nat /\ Limit - tries \in Nat /\ Len(inq) \in Nat
    /\ Len(outq) \in Nat /\ Limit - misses \in Nat /\ RecvLeft \in Nat
    /\ ServerLeft \in Nat

LEMMA DistancesNat == Typed => DistancesInv
<1> SUFFICES ASSUME Typed PROVE DistancesInv
  OBVIOUS
<1>1. /\ stage \in 1 .. 6 /\ pos \in 0 .. Len(Packets) /\ Len(Packets) \in Nat
      /\ tries \in 0 .. Limit /\ misses \in 0 .. Limit /\ Limit \in Nat
      /\ spc \in {"setup", "read", "filter", "send", "eos", "join", "returned",
                  "failed", "crashed"}
  BY VideoAssumption, SizesAssumption
     DEF Typed, TypeOK, SharedTypeOK, SenderTypeOK, RecvTypeOK, Stages
<1>2. inq \in Seq({"key", "delta", "eos"}) /\ outq \in Seq({"key", "delta", "eos"})
  BY DEF Typed, TypeOK, OutsideTypeOK
<1>3. Len(inq) \in Nat /\ Len(outq) \in Nat  BY <1>2, EmptyIff
<1>4. SenderLeft \in Nat
  <2>1. CASE spc = "setup"
    BY <1>1, <2>1 DEF SenderLeft
  <2>2. CASE spc \in {"read", "filter", "send"}
    <3>1. 3 * (Len(Packets) - pos) \in Nat  BY <1>1
    <3> QED  BY <2>2, <3>1 DEF SenderLeft
  <2>3. CASE spc \in {"eos", "join", "returned", "failed", "crashed"}
    BY <2>3 DEF SenderLeft
  <2> QED  BY <1>1, <2>1, <2>2, <2>3
<1>5. RecvLeft \in Nat /\ ServerLeft \in Nat  BY DEF RecvLeft, ServerLeft
<1>6. Limit - tries \in Nat /\ Limit - misses \in Nat  BY <1>1
<1> QED  BY <1>3, <1>4, <1>5, <1>6 DEF DistancesInv

(* What counts as nearer. *)
Nearer ==
    \/ SenderLeft' < SenderLeft
    \/ /\ SenderLeft' = SenderLeft
       /\ \/ tries' > tries
          \/ /\ tries' = tries
             /\ \/ Len(inq') < Len(inq)
                \/ /\ Len(inq') = Len(inq)
                   /\ \/ Len(outq') < Len(outq)
                      \/ /\ Len(outq') = Len(outq)
                         /\ \/ misses' > misses
                            \/ /\ misses' = misses
                               /\ \/ RecvLeft' < RecvLeft
                                  \/ RecvLeft' = RecvLeft /\ ServerLeft' < ServerLeft

LEMMA NearerIsBefore ==
  Typed /\ Typed' /\ Nearer => Distance' \in Seq(Nat) /\ Before(Distance', Distance)
<1> SUFFICES ASSUME Typed, Typed', Nearer
             PROVE  Distance' \in Seq(Nat) /\ Before(Distance', Distance)
  OBVIOUS
<1>1. DistancesInv  BY DistancesNat
<1>2. DistancesInv'  BY DistancesNat, PTL
<1>3. /\ tries \in Nat /\ tries' \in Nat /\ misses \in Nat /\ misses' \in Nat
      /\ Limit \in Nat
  BY SizesAssumption DEF Typed, TypeOK, SenderTypeOK, RecvTypeOK
<1>4. /\ tries' > tries => Limit - tries' < Limit - tries
      /\ misses' > misses => Limit - misses' < Limit - misses
  <2> DEFINE t == tries  t1 == tries'  m == misses  m1 == misses'
  <2>1. /\ t \in Nat /\ t1 \in Nat /\ m \in Nat /\ m1 \in Nat /\ Limit \in Nat  BY <1>3
  <2> HIDE DEF t, t1, m, m1
  <2>2. t1 > t => Limit - t1 < Limit - t  BY <2>1
  <2>3. m1 > m => Limit - m1 < Limit - m  BY <2>1
  <2> QED  BY <2>2, <2>3 DEF t, t1, m, m1
<1> DEFINE a == <<SenderLeft, Limit - tries, Len(inq), Len(outq), Limit - misses,
                  RecvLeft, ServerLeft>>
           b == <<SenderLeft', Limit - tries', Len(inq'), Len(outq'),
                  Limit - misses', RecvLeft', ServerLeft'>>
<1>5. Distance = a /\ Distance' = b
  BY DEF Distance, ServerLeft
<1>6. b \in Seq(Nat) /\ Before(b, a)
  <2> DEFINE a1 == SenderLeft  a2 == Limit - tries  a3 == Len(inq)  a4 == Len(outq)
             a5 == Limit - misses  a6 == RecvLeft  a7 == ServerLeft
             b1 == SenderLeft'  b2 == Limit - tries'  b3 == Len(inq')
             b4 == Len(outq')  b5 == Limit - misses'  b6 == RecvLeft'
             b7 == ServerLeft'
  <2>1. /\ a1 \in Nat /\ a2 \in Nat /\ a3 \in Nat /\ a4 \in Nat /\ a5 \in Nat
        /\ a6 \in Nat /\ a7 \in Nat
    BY <1>1 DEF DistancesInv
  <2>2. /\ b1 \in Nat /\ b2 \in Nat /\ b3 \in Nat /\ b4 \in Nat /\ b5 \in Nat
        /\ b6 \in Nat /\ b7 \in Nat
    BY <1>2 DEF DistancesInv
  <2>3. \/ b1 < a1
        \/ b1 = a1 /\ b2 < a2
        \/ b1 = a1 /\ b2 = a2 /\ b3 < a3
        \/ b1 = a1 /\ b2 = a2 /\ b3 = a3 /\ b4 < a4
        \/ b1 = a1 /\ b2 = a2 /\ b3 = a3 /\ b4 = a4 /\ b5 < a5
        \/ b1 = a1 /\ b2 = a2 /\ b3 = a3 /\ b4 = a4 /\ b5 = a5 /\ b6 < a6
        \/ b1 = a1 /\ b2 = a2 /\ b3 = a3 /\ b4 = a4 /\ b5 = a5 /\ b6 = a6 /\ b7 < a7
    BY <1>4 DEF Nearer
  <2> HIDE DEF a1, a2, a3, a4, a5, a6, a7, b1, b2, b3, b4, b5, b6, b7
  <2>4. /\ <<b1, b2, b3, b4, b5, b6, b7>> \in Seq(Nat)
        /\ Before(<<b1, b2, b3, b4, b5, b6, b7>>, <<a1, a2, a3, a4, a5, a6, a7>>)
    <3> DEFINE d == <<b1, b2, b3, b4, b5, b6, b7>>
               e == <<a1, a2, a3, a4, a5, a6, a7>>
    <3>1. d \in Seq(Nat) /\ DOMAIN e = 1 .. 7
      BY <2>2
    <3>2. ASSUME NEW i \in 1 .. 7, d[i] < e[i], \A j \in 1 .. i - 1 : d[j] = e[j]
          PROVE  Before(d, e)
      BY <3>1, <3>2 DEF Before
    <3>i. /\ d[1] = b1 /\ d[2] = b2 /\ d[3] = b3 /\ d[4] = b4 /\ d[5] = b5
          /\ d[6] = b6 /\ d[7] = b7
          /\ e[1] = a1 /\ e[2] = a2 /\ e[3] = a3 /\ e[4] = a4 /\ e[5] = a5
          /\ e[6] = a6 /\ e[7] = a7
      OBVIOUS
    <3> HIDE DEF d, e
    <3>3. ASSUME b1 < a1 PROVE Before(d, e)
      <4>1. d[1] < e[1] /\ \A j \in 1 .. 1 - 1 : d[j] = e[j]  BY <3>i, <3>3
      <4> QED  BY <3>2, <4>1
    <3>4. ASSUME b1 = a1, b2 < a2 PROVE Before(d, e)
      <4>1. d[2] < e[2] /\ \A j \in 1 .. 2 - 1 : d[j] = e[j]  BY <3>i, <3>4
      <4> QED  BY <3>2, <4>1
    <3>5. ASSUME b1 = a1, b2 = a2, b3 < a3 PROVE Before(d, e)
      <4>1. d[3] < e[3] /\ \A j \in 1 .. 3 - 1 : d[j] = e[j]  BY <3>i, <3>5
      <4> QED  BY <3>2, <4>1
    <3>6. ASSUME b1 = a1, b2 = a2, b3 = a3, b4 < a4 PROVE Before(d, e)
      <4>1. d[4] < e[4] /\ \A j \in 1 .. 4 - 1 : d[j] = e[j]  BY <3>i, <3>6
      <4> QED  BY <3>2, <4>1
    <3>7. ASSUME b1 = a1, b2 = a2, b3 = a3, b4 = a4, b5 < a5 PROVE Before(d, e)
      <4>1. d[5] < e[5] /\ \A j \in 1 .. 5 - 1 : d[j] = e[j]  BY <3>i, <3>7
      <4> QED  BY <3>2, <4>1
    <3>8. ASSUME b1 = a1, b2 = a2, b3 = a3, b4 = a4, b5 = a5, b6 < a6 PROVE Before(d, e)
      <4>1. d[6] < e[6] /\ \A j \in 1 .. 6 - 1 : d[j] = e[j]  BY <3>i, <3>8
      <4> QED  BY <3>2, <4>1
    <3>9. ASSUME b1 = a1, b2 = a2, b3 = a3, b4 = a4, b5 = a5, b6 = a6, b7 < a7
          PROVE  Before(d, e)
      <4>1. d[7] < e[7] /\ \A j \in 1 .. 7 - 1 : d[j] = e[j]  BY <3>i, <3>9
      <4> QED  BY <3>2, <4>1
    <3> QED  BY <2>3, <3>1, <3>3, <3>4, <3>5, <3>6, <3>7, <3>8, <3>9 DEF d, e
  <2> QED  BY <2>4 DEF a1, a2, a3, a4, a5, a6, a7, b1, b2, b3, b4, b5, b6, b7
<1> QED  BY <1>5, <1>6

(* The steps of the sender.                                                *)
LEMMA SenderNearer == Typed /\ SenderStep => Nearer
<1> SUFFICES ASSUME Typed, SenderStep PROVE Nearer
  OBVIOUS
<1> USE DEF SenderGoto, codecVars, recvVars
<1>t. /\ stage \in 1 .. 6 /\ pos \in 0 .. Len(Packets) /\ Len(Packets) \in Nat
      /\ tries \in 0 .. Limit /\ Limit \in Nat /\ Len(Stages) = 6
  BY VideoAssumption, SizesAssumption DEF Typed, TypeOK, SenderTypeOK, Stages
<1>s. /\ spc = "setup"  => SenderLeft = 3 * Len(Packets) + 11 - stage
      /\ spc = "read"   => SenderLeft = 3 * (Len(Packets) - pos) + 4
      /\ spc = "filter" => SenderLeft = 3 * (Len(Packets) - pos) + 6
      /\ spc = "send"   => SenderLeft = 3 * (Len(Packets) - pos) + 5
      /\ spc = "eos"    => SenderLeft = 3
      /\ spc = "join"   => SenderLeft = 2
  BY DEF SenderLeft
<1>p. /\ spc' = "setup"  => SenderLeft' = 3 * Len(Packets) + 11 - stage'
      /\ spc' = "read"   => SenderLeft' = 3 * (Len(Packets) - pos') + 4
      /\ spc' = "filter" => SenderLeft' = 3 * (Len(Packets) - pos') + 6
      /\ spc' = "send"   => SenderLeft' = 3 * (Len(Packets) - pos') + 5
      /\ spc' = "eos"    => SenderLeft' = 3
      /\ spc' = "join"   => SenderLeft' = 2
      /\ spc' = "returned" => SenderLeft' = 0
  BY DEF SenderLeft
<1>1. CASE SetupStep
  <2>1. CASE stage < 6
    <3>1. spc = "setup" /\ spc' = "setup" /\ stage' = stage + 1
      BY <1>t, <1>1, <2>1 DEF SetupStep
    <3> QED  BY <1>t, <1>s, <1>p, <3>1 DEF Nearer
  <2>2. CASE stage = 6
    <3>1. spc = "setup" /\ spc' = "read" /\ pos' = pos
      BY <1>t, <1>1, <2>2 DEF SetupStep
    <3> QED  BY <1>t, <1>s, <1>p, <2>2, <3>1 DEF Nearer
  <2> QED  BY <1>t, <2>1, <2>2
<1>2. CASE ReadPacket
  <2>1. spc = "read" /\ spc' \in {"read", "filter"} /\ pos' = pos + 1
    BY <1>2 DEF ReadPacket
  <2> QED  BY <1>t, <1>s, <1>p, <2>1 DEF Nearer
<1>3. CASE FilterPacket \/ SendPacket \/ SendGivenUp \/ ReadEnd \/ SendEnd \/ JoinAndClose
  <2>1. /\ pos' = pos
        /\ \/ spc = "filter" /\ spc' \in {"send", "read"}
           \/ spc = "send" /\ spc' = "read"
           \/ spc = "read" /\ spc' = "eos"
           \/ spc = "eos" /\ spc' = "join"
           \/ spc = "join" /\ spc' = "returned"
    BY <1>3 DEF FilterPacket, SendPacket, SendGivenUp, ReadEnd, SendEnd, JoinAndClose
  <2> QED  BY <1>t, <1>s, <1>p, <2>1 DEF Nearer
<1>4. CASE SendRetry
  <2>1. spc = "send" /\ pos' = pos /\ tries' = tries + 1 /\ spc' \in {"send", "read"}
    BY <1>4 DEF SendRetry
  <2>2. SenderLeft' < SenderLeft \/ SenderLeft' = SenderLeft
    BY <1>t, <1>s, <1>p, <2>1
  <2> QED  BY <1>t, <2>1, <2>2 DEF Nearer
<1> QED  BY <1>1, <1>2, <1>3, <1>4 DEF SenderStep

(* The steps of recv_thread. A frame is taken, or a retry counted, or it   *)
(* goes on with the frame it has.                                          *)
LEMMA RecvNearer == Typed /\ EndInv /\ (RecvStep \/ NullCrash) => Nearer \/ Idles
<1> SUFFICES ASSUME Typed, EndInv, RecvStep \/ NullCrash PROVE Nearer \/ Idles
  OBVIOUS
<1> USE DEF RecvGoto, senderVars, codecVars, serverVars
<1>t. /\ outq \in Seq({"key", "delta", "eos"}) /\ misses \in Nat
      /\ exit \in {0, 1} /\ last \in BOOLEAN
  BY DEF Typed, TypeOK, SharedTypeOK, RecvTypeOK, OutsideTypeOK
<1>r. /\ rpc = "recv" => RecvLeft = 1
      /\ rpc = "test" => RecvLeft = 2
      /\ rpc = "await" => RecvLeft = 3
      /\ rpc = "write" => RecvLeft = 4
      /\ rpc = "save" => RecvLeft = 5
      /\ rpc' = "write" => RecvLeft' = 4
      /\ rpc' = "done" => RecvLeft' = 0
      /\ rpc' = "recv" => RecvLeft' = 1
      /\ rpc' = "test" => RecvLeft' = 2
      /\ rpc' = "await" => RecvLeft' = 3
  BY DEF RecvLeft
<1>1. CASE ReceiveFrame
  <2>1. /\ UNCHANGED <<spc, stage, pos, tries, inq>>
        /\ outq # <<>> /\ outq' = Tail(outq)
    BY <1>1 DEF ReceiveFrame
  <2>2. Len(outq') < Len(outq)
    <3>1. Len(outq') = Len(outq) - 1 /\ Len(outq) \in Nat  BY <1>t, <2>1, Shifted
    <3> QED  BY <3>1
  <2>3. SenderLeft' = SenderLeft /\ Len(inq') = Len(inq)  BY <2>1 DEF SenderLeft
  <2> QED  BY <2>1, <2>2, <2>3 DEF Nearer
<1>2. CASE ReceiveTraps \/ NullCrash
  <2>1. rpc # "off" /\ spc # "returned" /\ spc' = "crashed"
    BY <1>2 DEF ReceiveTraps, NullCrash, Typed, ControlInv
  <2>2. spc \in {"read", "filter", "send", "eos", "join"}
    BY <2>1 DEF Typed, ControlInv, TypeOK, SharedTypeOK
  <2>3. SenderLeft' = 0  BY <2>1 DEF SenderLeft
  <2>4. 0 < SenderLeft
    <3>1. pos \in 0 .. Len(Packets) /\ Len(Packets) \in Nat
      BY VideoAssumption DEF Typed, TypeOK, SenderTypeOK
    <3>2. /\ 0 < 3 * (Len(Packets) - pos) + 4 /\ 0 < 3 * (Len(Packets) - pos) + 6
          /\ 0 < 3 * (Len(Packets) - pos) + 5
      BY <3>1
    <3> QED  BY <2>2, <3>2 DEF SenderLeft
  <2> QED  BY <2>3, <2>4 DEF Nearer
<1>3. CASE \/ ReceiveNothing \/ TestLoop \/ RetrieveFrame \/ SavePicture
           \/ SaveFails \/ ReceiveReply
  <2>1. UNCHANGED <<spc, stage, pos, tries, inq, outq>>
    BY <1>3 DEF ReceiveNothing, TestLoop, RetrieveFrame, SavePicture, SaveFails,
       ReceiveReply
  <2>2. /\ SenderLeft' = SenderLeft /\ Len(inq') = Len(inq) /\ Len(outq') = Len(outq)
    BY <2>1 DEF SenderLeft
  <2>3. CASE ReceiveNothing /\ Stream
    <3>1. misses' = misses + 1  BY <2>3 DEF ReceiveNothing
    <3> QED  BY <1>t, <2>1, <2>2, <3>1 DEF Nearer
  <2>4. CASE ReceiveNothing /\ ~Stream
    <3>1. /\ rpc = "recv" /\ rpc' = "test" /\ (outq = <<>> \/ dead)
          /\ UNCHANGED <<opt, senderVars, exit, frame, last, misses, cnt, saved,
                         frameVars, unsaved, wanted, codecVars, serverVars>>
      BY <2>4 DEF ReceiveNothing
    <3>2. exit = 0 /\ ~last  BY <1>t, <2>4, <3>1 DEF EndInv, Typed, ControlInv
    <3>3. Spins /\ Spins'  BY <2>4, <3>1, <3>2 DEF Spins, Stream
    <3> QED  BY <3>1, <3>3 DEF Idles
  <2>5. CASE TestLoop
    <3>1. /\ rpc = "test" /\ rpc' = IF exit = 0 /\ ~last THEN "recv" ELSE "done"
          /\ UNCHANGED <<opt, senderVars, exit, frame, last, misses, cnt, saved,
                         frameVars, unsaved, wanted, codecVars, serverVars>>
      BY <2>5 DEF TestLoop
    <3>2. RecvLeft' < RecvLeft  BY <1>r, <3>1
    <3> QED  BY <2>1, <2>2, <3>1, <3>2 DEF Nearer
  <2>6. CASE RetrieveFrame \/ SavePicture \/ SaveFails \/ ReceiveReply
    <3>1. /\ misses' = misses
          /\ \/ rpc = "save" /\ rpc' = "write"
             \/ rpc = "write" /\ rpc' \in {"await", "test"}
             \/ rpc = "await" /\ rpc' = "test"
      BY <2>6 DEF RetrieveFrame, SavePicture, SaveFails, ReceiveReply
    <3>2. RecvLeft' < RecvLeft  BY <1>r, <3>1
    <3> QED  BY <2>1, <2>2, <3>1, <3>2 DEF Nearer
  <2> QED  BY <1>3, <2>3, <2>4, <2>5, <2>6
<1> QED  BY <1>1, <1>2, <1>3 DEF RecvStep

LEMMA OutsideNearer ==
  /\ Typed /\ SetupFails => Nearer
  /\ Typed /\ SetupCrash => Nearer
  /\ Typed /\ CodecDecode => Nearer
  /\ Typed /\ ServerReply => Nearer
<1> USE DEF senderVars, recvVars, codecVars, serverVars
<1>1. ASSUME Typed, SetupFails \/ SetupCrash PROVE Nearer
  <2>1. spc = "setup" /\ spc' \in {"failed", "crashed"}
    BY <1>1 DEF SetupFails, SetupCrash
  <2>2. stage \in 1 .. 6 /\ Len(Packets) \in Nat
    BY <1>1, VideoAssumption DEF Typed, TypeOK, SenderTypeOK, Stages
  <2>3. SenderLeft = 3 * Len(Packets) + 11 - stage /\ SenderLeft' = 0
    BY <2>1 DEF SenderLeft
  <2> QED  BY <2>2, <2>3 DEF Nearer
<1>2. ASSUME Typed, CodecDecode PROVE Nearer
  <2>1. /\ UNCHANGED <<spc, stage, pos, tries>> /\ inq # <<>> /\ inq' = Tail(inq)
        /\ inq \in Seq({"key", "delta", "eos"})
    BY <1>2 DEF CodecDecode, Typed, TypeOK, OutsideTypeOK
  <2>2. Len(inq') < Len(inq)
    <3>1. Len(inq') = Len(inq) - 1 /\ Len(inq) \in Nat  BY <2>1, Shifted
    <3> QED  BY <3>1
  <2>3. SenderLeft' = SenderLeft  BY <2>1 DEF SenderLeft
  <2> QED  BY <2>1, <2>2, <2>3 DEF Nearer
<1>3. ASSUME Typed, ServerReply PROVE Nearer
  <2>1. /\ UNCHANGED <<spc, stage, pos, tries, inq, outq, misses, rpc>>
        /\ server = "asked" /\ server' = "idle"
    BY <1>3 DEF ServerReply
  <2>2. SenderLeft' = SenderLeft /\ RecvLeft' = RecvLeft  BY <2>1 DEF SenderLeft, RecvLeft
  <2>3. ServerLeft' < ServerLeft  BY <2>1 DEF ServerLeft
  <2> QED  BY <2>1, <2>2, <2>3 DEF Nearer
<1> QED  BY <1>1, <1>2, <1>3

(* Every step of a session but a fruitless retry of the file program takes *)
(* it nearer to its end, for any video, limit and queue size.              *)
THEOREM ComesToEnd == Spec => NearsEnd
<1> DEFINE Towards == \/ Distance' \in Seq(Nat) /\ Before(Distance', Distance)
                      \/ Idles
                      \/ dead' # dead
                      \/ server' # server /\ server' = "gone"
<1>1. Typed /\ EndInv /\ Typed' /\ [Next]_vars => [Towards]_vars
  <2> SUFFICES ASSUME Typed, EndInv, Typed', Next PROVE Towards
    OBVIOUS
  <2>1. CASE SenderStep \/ SetupFails \/ SetupCrash \/ CodecDecode \/ ServerReply
    BY <2>1, SenderNearer, OutsideNearer, NearerIsBefore
  <2>2. CASE RecvStep \/ NullCrash
    BY <2>2, RecvNearer, NearerIsBefore
  <2>3. CASE CodecDies \/ ServerDies
    BY <2>3 DEF CodecDies, ServerDies
  <2> QED  BY <2>1, <2>2, <2>3 DEF Next
<1>2. Spec => [][Towards]_vars
  <2> HIDE DEF Towards
  <2> QED  BY EndHolds, <1>1, PTL DEF Spec
<1> QED  BY <1>2 DEF NearsEnd

=============================================================================
