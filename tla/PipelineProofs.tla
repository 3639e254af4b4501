--------------------------- MODULE PipelineProofs ---------------------------
(***************************************************************************)
(* TLAPS proofs about Pipeline, for any number of files, processes and     *)
(* pictures, and however often the consumer stops.                         *)
(***************************************************************************)
EXTENDS Pipeline, TLAPS

(* A file is with one process, whose decode has not ended.                 *)
HeldInv ==
    /\ \A c, d \in Children : held[c] = held[d] /\ held[c] # None => c = d
    /\ \A c \in Children : held[c] # None => /\ held[c] \notin todo
                                             /\ state[held[c]] \in {"decoding", "asking"}
    /\ \A f \in todo : state[f] = "decoding"

(* A decoder has one request, or its reply, and no other waits.            *)
AskedInv ==
    /\ \A p, q \in asked : p[1] = q[1] => p = q
    /\ \A p \in asked : state[p[1]] \in {"asking", "crashed"} /\ p[1] \notin replied
    /\ \A f \in replied : state[f] = "asking"

(* The consumer knows what it was told, and the next picture is a new one. *)
NumbersInv ==
    /\ \A p \in asked \cup backlog : \E i \in DOMAIN told[p[1]] : told[p[1]][i] = p[2]
    /\ \A f \in Files : writing[f] # 0 =>
          /\ state[f] = "decoding"
          /\ \A i \in DOMAIN told[f] : told[f][i] < writing[f]

IInv == TypeOK /\ HeldInv /\ AskedInv /\ NumbersInv /\ OrphansKnown

USE FilesAssumption, NumbersAssumption

-----------------------------------------------------------------------------

LEMMA PictureIsPair ==
  ASSUME NEW p \in Pictures
  PROVE  p[1] \in Files /\ p[2] \in Numbers /\ p = <<p[1], p[2]>>
BY DEF Pictures

LEMMA Longer ==
  ASSUME NEW s \in Seq(Numbers), NEW n \in Numbers
  PROVE  /\ Append(s, n) \in Seq(Numbers)
         /\ \A i \in DOMAIN s : i \in DOMAIN Append(s, n) /\ Append(s, n)[i] = s[i]
         /\ \E i \in DOMAIN Append(s, n) : Append(s, n)[i] = n
<1>1. /\ DOMAIN s = 1 .. Len(s) /\ DOMAIN Append(s, n) = 1 .. Len(s) + 1
      /\ Len(s) \in Nat /\ Append(s, n)[Len(s) + 1] = n
      /\ \A i \in 1 .. Len(s) : Append(s, n)[i] = s[i]
  OBVIOUS
<1>2. Len(s) + 1 \in DOMAIN Append(s, n)  BY <1>1
<1> QED  BY <1>1, <1>2

LEMMA InitIInv == Init => IInv
<1> SUFFICES ASSUME Init PROVE IInv
  OBVIOUS
<1>1. /\ todo = Files /\ held = [c \in Children |-> None] /\ gone = {}
      /\ state = [f \in Files |-> "decoding"] /\ told = [f \in Files |-> <<>>]
      /\ writing = [f \in Files |-> 0] /\ ramfs = {} /\ asked = {} /\ replied = {}
      /\ up = TRUE /\ backlog = {} /\ stops = 0
  BY DEF Init, Dispatch!Init
<1>2. TypeOK  BY <1>1 DEF TypeOK
<1>3. HeldInv /\ AskedInv  BY <1>1 DEF HeldInv, AskedInv
<1>4. NumbersInv /\ OrphansKnown
  BY <1>1 DEF NumbersInv, OrphansKnown, Unclaimed
<1> QED  BY <1>2, <1>3, <1>4 DEF IInv

LEMMA NextTypes == IInv /\ [Next]_vars => TypeOK'
<1> SUFFICES ASSUME IInv, [Next]_vars PROVE TypeOK'
  OBVIOUS
<1> USE DEF dispatchVars, decoderVars, consumerVars
<1>t. TypeOK  BY DEF IInv
<1>1. ASSUME NEW f \in Files, NEW n \in Numbers, WritePicture(f, n) PROVE TypeOK'
  BY <1>t, <1>1 DEF WritePicture, TypeOK, Pictures
<1>2. ASSUME NEW f \in Files, AskConsumer(f) PROVE TypeOK'
  <2>1. writing[f] \in Numbers  BY <1>t, <1>2 DEF AskConsumer, TypeOK
  <2>2. told' \in [Files -> Seq(Numbers)]
    <3>1. told[f] \in Seq(Numbers)  BY <1>t DEF TypeOK
    <3>2. Append(told[f], writing[f]) \in Seq(Numbers)  BY <2>1, <3>1, Longer
    <3>3. told \in [Files -> Seq(Numbers)]  BY <1>t DEF TypeOK
    <3> QED  BY <1>2, <3>2, <3>3 DEF AskConsumer
  <2>3. asked' \subseteq Pictures
    BY <1>t, <1>2, <2>1 DEF AskConsumer, TypeOK, Pictures
  <2> QED  BY <1>t, <1>2, <2>2, <2>3 DEF AskConsumer, TypeOK
<1>3. ASSUME NEW f \in Files, TakeReply(f) PROVE TypeOK'
  BY <1>t, <1>3 DEF TakeReply, TypeOK
<1>4. ASSUME NEW c \in Children, DecodeEnds(c) PROVE TypeOK'
  BY <1>t, <1>4 DEF DecodeEnds, Dispatch!Finish, TypeOK
<1>5. ASSUME NEW c \in Children, NEW f \in Files, ReceiveFile(c, f) PROVE TypeOK'
  BY <1>t, <1>5 DEF ReceiveFile, Dispatch!Hand, TypeOK
<1>6. ASSUME NEW f \in Files, LoseFile(f) PROVE TypeOK'
  BY <1>t, <1>6 DEF LoseFile, Dispatch!Lose, TypeOK
<1>7. ASSUME NEW c \in Children, ProcessGone(c) PROVE TypeOK'
  <2>1. todo' \subseteq todo /\ gone' \subseteq Children /\ held' = [held EXCEPT ![c] = None]
    BY <1>t, <1>7 DEF ProcessGone, Dispatch!Leave, TypeOK
  <2>2. CASE held[c] = None
    BY <1>t, <1>7, <2>1, <2>2 DEF ProcessGone, TypeOK
  <2>3. CASE held[c] # None
    <3>1. AbandonFile(held[c]) /\ held[c] \in Files
      BY <1>t, <1>7, <2>3 DEF ProcessGone, TypeOK
    <3> QED  BY <1>t, <1>7, <2>1, <3>1 DEF ProcessGone, AbandonFile, TypeOK
  <2> QED  BY <2>2, <2>3
<1>8. ASSUME NEW p \in Pictures, AcceptPicture(p) PROVE TypeOK'
  BY <1>t, <1>8, PictureIsPair DEF AcceptPicture, Answers, TypeOK
<1>9. ASSUME NEW p \in Pictures, RemovePicture(p) PROVE TypeOK'
  BY <1>t, <1>9 DEF RemovePicture, TypeOK
<1>10. CASE ConsumerStops \/ ConsumerStarts
  <2>1. UNCHANGED <<todo, held, gone, state, told, writing, ramfs>>
    BY <1>10 DEF ConsumerStops, ConsumerStarts
  <2>2. asked' \subseteq asked /\ replied' \subseteq replied /\ backlog' \subseteq backlog
    BY <1>10 DEF ConsumerStops, ConsumerStarts
  <2>3. up' \in BOOLEAN
    BY <1>10 DEF ConsumerStops, ConsumerStarts
  <2>4. stops' \in 0 .. MaxStops
    BY <1>t, <1>10 DEF ConsumerStops, ConsumerStarts, TypeOK
  <2> QED  BY <1>t, <2>1, <2>2, <2>3, <2>4 DEF TypeOK
<1>11. CASE UNCHANGED vars
  BY <1>t, <1>11 DEF vars, TypeOK
<1> QED
  BY <1>1, <1>2, <1>3, <1>4, <1>5, <1>6, <1>7, <1>8, <1>9, <1>10, <1>11
     DEF Next, DecodeStep, ConsumerStep

LEMMA NextHeld == IInv /\ [Next]_vars => HeldInv'
<1> SUFFICES ASSUME IInv, [Next]_vars PROVE HeldInv'
  OBVIOUS
<1> USE DEF dispatchVars, decoderVars, consumerVars
<1>t. TypeOK /\ HeldInv /\ AskedInv  BY DEF IInv
<1>1. ASSUME NEW f \in Files, NEW n \in Numbers, WritePicture(f, n) PROVE HeldInv'
  BY <1>t, <1>1 DEF WritePicture, HeldInv
<1>2. ASSUME NEW f \in Files, AskConsumer(f) PROVE HeldInv'
  BY <1>t, <1>2 DEF AskConsumer, Decoding, HeldInv, TypeOK
<1>3. ASSUME NEW f \in Files, TakeReply(f) PROVE HeldInv'
  BY <1>t, <1>3 DEF TakeReply, HeldInv, TypeOK
<1>4. ASSUME NEW c \in Children, DecodeEnds(c) PROVE HeldInv'
  <2>1. /\ held' = [held EXCEPT ![c] = None] /\ todo' = todo
        /\ held[c] \in Files /\ held[c] \notin todo
        /\ \A f \in Files : f # held[c] => state'[f] = state[f]
    BY <1>t, <1>4 DEF DecodeEnds, Dispatch!Finish, HeldInv, TypeOK
  <2> QED  BY <1>t, <2>1 DEF HeldInv, TypeOK
<1>5. ASSUME NEW c \in Children, NEW f \in Files, ReceiveFile(c, f) PROVE HeldInv'
  BY <1>t, <1>5 DEF ReceiveFile, Dispatch!Hand, HeldInv, TypeOK
<1>6. ASSUME NEW f \in Files, LoseFile(f) PROVE HeldInv'
  BY <1>t, <1>6 DEF LoseFile, Dispatch!Lose, HeldInv
<1>7. ASSUME NEW c \in Children, ProcessGone(c) PROVE HeldInv'
  <2>1. todo' \subseteq todo /\ held' = [held EXCEPT ![c] = None]
    BY <1>7 DEF ProcessGone, Dispatch!Leave
  <2>2. \A f \in Files : f # held[c] => state'[f] = state[f]
    BY <1>t, <1>7 DEF ProcessGone, AbandonFile, TypeOK
  <2>3. CASE held[c] = None
    <3>1. state' = state  BY <1>7, <2>3 DEF ProcessGone
    <3> QED  BY <1>t, <2>1, <3>1 DEF HeldInv, TypeOK
  <2>4. CASE held[c] # None
    <3>1. held[c] \notin todo  BY <1>t, <2>4 DEF HeldInv
    <3> QED  BY <1>t, <2>1, <2>2, <2>4, <3>1 DEF HeldInv, TypeOK
  <2> QED  BY <2>3, <2>4
<1>8. CASE \/ \E p \in Pictures : AcceptPicture(p) \/ RemovePicture(p)
           \/ ConsumerStops \/ ConsumerStarts \/ UNCHANGED vars
  <2>1. UNCHANGED <<todo, held, state>>
    BY <1>8 DEF AcceptPicture, RemovePicture, ConsumerStops, ConsumerStarts, vars
  <2> QED  BY <1>t, <2>1 DEF HeldInv
<1> QED
  BY <1>1, <1>2, <1>3, <1>4, <1>5, <1>6, <1>7, <1>8 DEF Next, DecodeStep, ConsumerStep

LEMMA NextAsked == IInv /\ [Next]_vars => AskedInv'
<1> SUFFICES ASSUME IInv, [Next]_vars PROVE AskedInv'
  OBVIOUS
<1> USE DEF dispatchVars, decoderVars, consumerVars
<1>t. TypeOK /\ HeldInv /\ AskedInv  BY DEF IInv
<1>p. \A p \in asked : p[1] \in Files /\ p \in Pictures
  BY <1>t, PictureIsPair DEF TypeOK
<1>1. CASE UNCHANGED <<asked, replied, state>>
  BY <1>t, <1>1 DEF AskedInv
<1>2. ASSUME NEW f \in Files, AskConsumer(f) PROVE AskedInv'
  <2>1. /\ asked' = asked \cup {<<f, writing[f]>>} /\ replied' = replied
        /\ state' = [state EXCEPT ![f] = "asking"] /\ state[f] = "decoding"
    BY <1>2 DEF AskConsumer, Decoding
  <2>2. f \notin replied /\ \A p \in asked : p[1] # f
    BY <1>t, <2>1 DEF AskedInv
  <2>3. state'[f] = "asking" /\ \A g \in Files : g # f => state'[g] = state[g]
    BY <1>t, <2>1 DEF TypeOK
  <2>4. \A p \in asked' : p \in asked \/ p = <<f, writing[f]>>
    BY <2>1
  <2>5. \A p, q \in asked' : p[1] = q[1] => p = q
    BY <1>t, <2>2, <2>4 DEF AskedInv
  <2>6. \A p \in asked' : state'[p[1]] \in {"asking", "crashed"} /\ p[1] \notin replied'
    BY <1>t, <1>p, <2>1, <2>2, <2>3, <2>4 DEF AskedInv
  <2>7. \A g \in replied' : state'[g] = "asking"
    BY <1>t, <2>1, <2>3 DEF AskedInv, TypeOK
  <2> QED  BY <2>5, <2>6, <2>7 DEF AskedInv
<1>3. ASSUME NEW f \in Files, TakeReply(f) PROVE AskedInv'
  <2>1. \A p \in asked : p[1] # f  BY <1>t, <1>3 DEF TakeReply, AskedInv
  <2> QED  BY <1>t, <1>p, <1>3, <2>1 DEF TakeReply, AskedInv, TypeOK
<1>4. ASSUME NEW c \in Children, DecodeEnds(c) PROVE AskedInv'
  <2>1. state[held[c]] = "decoding" /\ UNCHANGED <<asked, replied>>
        /\ \A f \in Files : f # held[c] => state'[f] = state[f]
    BY <1>t, <1>4 DEF DecodeEnds, Decoding, TypeOK
  <2>2. held[c] \notin replied /\ \A p \in asked : p[1] # held[c]
    BY <1>t, <2>1 DEF AskedInv
  <2> QED  BY <1>t, <1>p, <2>1, <2>2 DEF AskedInv, TypeOK
<1>5. ASSUME NEW c \in Children, ProcessGone(c) PROVE AskedInv'
  <2>1. CASE held[c] = None
    BY <1>1, <1>5, <2>1 DEF ProcessGone
  <2>2. CASE held[c] # None
    <3>1. /\ state' = [state EXCEPT ![held[c]] = "crashed"]
          /\ asked' \subseteq asked /\ replied' = replied \ {held[c]}
      BY <1>5, <2>2 DEF ProcessGone, AbandonFile
    <3> QED  BY <1>t, <1>p, <3>1 DEF AskedInv, TypeOK
  <2> QED  BY <2>1, <2>2
<1>6. ASSUME NEW p \in Pictures, AcceptPicture(p) PROVE AskedInv'
  <2>1. /\ p \in asked /\ asked' = asked \ {p} /\ state' = state
        /\ replied' = IF state[p[1]] = "asking" THEN replied \cup {p[1]} ELSE replied
    BY <1>6 DEF AcceptPicture, Answers
  <2>2. \A q \in asked' : q[1] # p[1]  BY <1>t, <2>1 DEF AskedInv
  <2> QED  BY <1>t, <2>1, <2>2 DEF AskedInv
<1>7. CASE ConsumerStops
  BY <1>t, <1>7 DEF ConsumerStops, AskedInv
<1>8. CASE \/ \E f \in Files, n \in Numbers : WritePicture(f, n)
           \/ \E c \in Children, f \in Files : ReceiveFile(c, f)
           \/ \E f \in Files : LoseFile(f)
           \/ \E p \in Pictures : RemovePicture(p)
           \/ ConsumerStarts \/ UNCHANGED vars
  BY <1>1, <1>8 DEF WritePicture, ReceiveFile, LoseFile, RemovePicture,
     ConsumerStarts, vars
<1> QED
  BY <1>2, <1>3, <1>4, <1>5, <1>6, <1>7, <1>8 DEF Next, DecodeStep, ConsumerStep

LEMMA NextNumbers == IInv /\ [Next]_vars => NumbersInv'
<1> SUFFICES ASSUME IInv, [Next]_vars PROVE NumbersInv'
  OBVIOUS
<1> USE DEF dispatchVars, decoderVars, consumerVars
<1>t. TypeOK /\ HeldInv /\ AskedInv /\ NumbersInv  BY DEF IInv
<1>p. \A p \in asked \cup backlog : p[1] \in Files /\ p[2] \in Numbers
  BY <1>t, PictureIsPair DEF TypeOK
<1>1. CASE /\ UNCHANGED told
           /\ asked' \cup backlog' \subseteq asked \cup backlog
           /\ \A f \in Files : writing'[f] # 0 =>
                 writing'[f] = writing[f] /\ state'[f] = state[f]
  BY <1>t, <1>1 DEF NumbersInv
<1>2. ASSUME NEW f \in Files, NEW n \in Numbers, WritePicture(f, n) PROVE NumbersInv'
  BY <1>t, <1>2 DEF WritePicture, Decoding, NumbersInv, TypeOK
<1>3. ASSUME NEW f \in Files, AskConsumer(f) PROVE NumbersInv'
  <2>1. /\ told' = [told EXCEPT ![f] = Append(told[f], writing[f])]
        /\ asked' = asked \cup {<<f, writing[f]>>} /\ backlog' = backlog
        /\ writing' = [writing EXCEPT ![f] = 0]
        /\ state' = [state EXCEPT ![f] = "asking"]
    BY <1>3 DEF AskConsumer
  <2>2. writing[f] \in Numbers /\ told[f] \in Seq(Numbers)
    BY <1>t, <1>3 DEF AskConsumer, TypeOK
  <2>3. told'[f] = Append(told[f], writing[f]) /\ \A g \in Files \ {f} : told'[g] = told[g]
    BY <1>t, <2>1 DEF TypeOK
  <2>4. ASSUME NEW p \in asked \cup backlog
        PROVE  \E i \in DOMAIN told'[p[1]] : told'[p[1]][i] = p[2]
    <3>1. PICK i \in DOMAIN told[p[1]] : told[p[1]][i] = p[2]
      BY <1>t DEF NumbersInv
    <3>2. CASE p[1] = f
      <4>1. i \in DOMAIN told'[f] /\ told'[f][i] = told[f][i]
        BY <2>2, <2>3, <3>1, <3>2, Longer
      <4> QED  BY <3>1, <3>2, <4>1
    <3>3. CASE p[1] # f
      <4>1. told'[p[1]] = told[p[1]]  BY <1>p, <2>3, <3>3
      <4> QED  BY <3>1, <4>1
    <3> QED  BY <3>2, <3>3
  <2>5. \E i \in DOMAIN told'[f] : told'[f][i] = writing[f]
    BY <2>2, <2>3, Longer
  <2>6. \A g \in Files : writing'[g] # 0 => g # f /\ writing'[g] = writing[g]
                                            /\ state'[g] = state[g]
    BY <1>t, <2>1 DEF TypeOK
  <2> QED  BY <1>t, <2>1, <2>3, <2>4, <2>5, <2>6 DEF NumbersInv
<1>4. ASSUME NEW f \in Files, TakeReply(f) PROVE NumbersInv'
  <2>1. writing[f] = 0  BY <1>t, <1>4 DEF TakeReply, AskedInv, NumbersInv
  <2> QED  BY <1>1, <1>t, <1>4, <2>1 DEF TakeReply, TypeOK
<1>5. ASSUME NEW c \in Children, DecodeEnds(c) PROVE NumbersInv'
  <2>1. writing[held[c]] = 0 /\ UNCHANGED <<told, asked, backlog, writing>>
        /\ \A f \in Files : f # held[c] => state'[f] = state[f]
    BY <1>t, <1>5 DEF DecodeEnds, TypeOK
  <2> QED  BY <1>1, <2>1
<1>6. ASSUME NEW c \in Children, ProcessGone(c) PROVE NumbersInv'
  <2>1. asked' \subseteq asked /\ UNCHANGED <<told, backlog>>
    BY <1>6 DEF ProcessGone, AbandonFile
  <2>2. \A f \in Files : writing'[f] # 0 =>
           writing'[f] = writing[f] /\ state'[f] = state[f]
    BY <1>t, <1>6 DEF ProcessGone, AbandonFile, TypeOK
  <2> QED  BY <1>1, <2>1, <2>2
<1>7. CASE \/ \E c \in Children, f \in Files : ReceiveFile(c, f)
           \/ \E f \in Files : LoseFile(f)
           \/ \E p \in Pictures : AcceptPicture(p) \/ RemovePicture(p)
           \/ ConsumerStops \/ ConsumerStarts \/ UNCHANGED vars
  <2>1. UNCHANGED <<told, state, writing>>
    BY <1>7 DEF ReceiveFile, LoseFile, AcceptPicture, RemovePicture, ConsumerStops,
       ConsumerStarts, vars
  <2>2. asked' \cup backlog' \subseteq asked \cup backlog
    BY <1>7 DEF ReceiveFile, LoseFile, AcceptPicture, RemovePicture, ConsumerStops,
       ConsumerStarts, vars
  <2> QED  BY <1>1, <2>1, <2>2
<1> QED
  BY <1>2, <1>3, <1>4, <1>5, <1>6, <1>7 DEF Next, DecodeStep, ConsumerStep

LEMMA NextOrphans == IInv /\ [Next]_vars => OrphansKnown'
<1> SUFFICES ASSUME IInv, [Next]_vars, stops' = 0 PROVE OrphansKnown'
  BY DEF OrphansKnown
<1> USE DEF dispatchVars, decoderVars, consumerVars
<1>t. TypeOK /\ HeldInv /\ AskedInv /\ NumbersInv  BY DEF IInv
<1>z. ~ConsumerStops  BY <1>t DEF ConsumerStops, TypeOK
<1>s. stops = 0
  BY <1>t, <1>z DEF Next, DecodeStep, ConsumerStep, WritePicture, AskConsumer,
     TakeReply, DecodeEnds, ReceiveFile, LoseFile, ProcessGone, AcceptPicture,
     RemovePicture, ConsumerStarts, vars
<1>o. \A p \in Unclaimed :
         \/ writing[p[1]] = p[2]
         \/ /\ state[p[1]] = "crashed"
            /\ \A q \in Unclaimed : q[1] = p[1] => q = p
  BY <1>s DEF IInv, OrphansKnown
<1>p. \A p \in Unclaimed \cup asked : p[1] \in Files /\ p[2] \in Numbers
                                      /\ p = <<p[1], p[2]>>
  BY <1>t, PictureIsPair DEF TypeOK, Unclaimed
<1>0. CASE /\ Unclaimed' = Unclaimed /\ UNCHANGED writing
           /\ \A f \in Files : state[f] = "crashed" => state'[f] = "crashed"
  BY <1>o, <1>p, <1>0 DEF OrphansKnown
<1>1. ASSUME NEW f \in Files, NEW n \in Numbers, WritePicture(f, n) PROVE OrphansKnown'
  <2>1. /\ Unclaimed' \subseteq Unclaimed \cup {<<f, n>>} /\ state' = state
        /\ writing' = [writing EXCEPT ![f] = n]
        /\ writing[f] = 0 /\ state[f] = "decoding"
    BY <1>1 DEF WritePicture, Decoding, Unclaimed, Unreadable
  <2>2. \A p \in Unclaimed : p[1] # f  BY <1>o, <1>p, <2>1
  <2>3. writing'[f] = n /\ \A g \in Files : g # f => writing'[g] = writing[g]
    BY <1>t, <2>1 DEF TypeOK
  <2>4. ASSUME NEW p \in Unclaimed'
        PROVE  \/ writing'[p[1]] = p[2]
               \/ /\ state'[p[1]] = "crashed"
                  /\ \A q \in Unclaimed' : q[1] = p[1] => q = p
    <3>1. CASE p = <<f, n>>  BY <2>3, <3>1
    <3>2. CASE p # <<f, n>>
      <4>1. p \in Unclaimed /\ p[1] # f  BY <2>1, <2>2, <3>2
      <4>2. \A q \in Unclaimed' : q[1] = p[1] => q \in Unclaimed
        BY <2>1, <4>1
      <4> QED  BY <1>o, <1>p, <2>1, <2>3, <4>1, <4>2
    <3> QED  BY <3>1, <3>2
  <2> QED  BY <2>4 DEF OrphansKnown
<1>2. ASSUME NEW f \in Files, AskConsumer(f) PROVE OrphansKnown'
  <2>1. /\ Unclaimed' = Unclaimed \ {<<f, writing[f]>>}
        /\ state' = [state EXCEPT ![f] = "asking"]
        /\ writing' = [writing EXCEPT ![f] = 0]
        /\ state[f] = "decoding"
    <3>1. /\ told' = [told EXCEPT ![f] = Append(@, writing[f])]
          /\ asked' = asked \cup {<<f, writing[f]>>}
          /\ state' = [state EXCEPT ![f] = "asking"]
          /\ writing' = [writing EXCEPT ![f] = 0]
          /\ state[f] = "decoding" /\ UNCHANGED <<ramfs, backlog>>
          /\ writing[f] \in Numbers /\ told[f] \in Seq(Numbers)
      BY <1>t, <1>2 DEF AskConsumer, Decoding, TypeOK
    <3>2. ASSUME NEW p \in Pictures, p # <<f, writing[f]>>
          PROVE  Unreadable(p)' <=> Unreadable(p)
      <4>1. CASE p[1] # f  BY <1>t, <3>1, <4>1 DEF Unreadable, TypeOK
      <4>2. CASE p[1] = f
        <5>1. p[2] # writing[f]  BY <3>2, <4>2, PictureIsPair
        <5>2. told'[f] = Append(told[f], writing[f])  BY <1>t, <3>1 DEF TypeOK
        <5>3. (\E i \in DOMAIN told'[f] : told'[f][i] = p[2])
                 <=> \E i \in DOMAIN told[f] : told[f][i] = p[2]
          BY <3>1, <5>1, <5>2
        <5> QED  BY <4>2, <5>3 DEF Unreadable
      <4> QED  BY <4>1, <4>2
    <3>3. Unclaimed' = Unclaimed \ {<<f, writing[f]>>}
      BY <1>t, <3>1, <3>2 DEF Unclaimed, TypeOK
    <3> QED  BY <3>1, <3>3
  <2>2. \A p \in Unclaimed' : p \in Unclaimed /\ p[1] # f
    BY <1>o, <1>p, <2>1
  <2>3. \A g \in Files : g # f => writing'[g] = writing[g] /\ state'[g] = state[g]
    BY <1>t, <2>1 DEF TypeOK
  <2> QED  BY <1>o, <1>p, <2>2, <2>3 DEF OrphansKnown
<1>3. ASSUME NEW f \in Files, TakeReply(f) PROVE OrphansKnown'
  <2>1. Unclaimed' = Unclaimed /\ writing' = writing
    BY <1>3 DEF TakeReply, Unclaimed, Unreadable
  <2>2. state[f] = "asking"  BY <1>t, <1>3 DEF TakeReply, AskedInv
  <2>3. \A g \in Files : state[g] = "crashed" => state'[g] = "crashed"
    BY <1>t, <1>3, <2>2 DEF TakeReply, TypeOK
  <2> QED  BY <1>0, <2>1, <2>3
<1>4. ASSUME NEW c \in Children, DecodeEnds(c) PROVE OrphansKnown'
  <2>1. Unclaimed' = Unclaimed /\ writing' = writing /\ state[held[c]] = "decoding"
    BY <1>4 DEF DecodeEnds, Decoding, Unclaimed, Unreadable
  <2>2. \A g \in Files : state[g] = "crashed" => state'[g] = "crashed"
    BY <1>t, <1>4, <2>1 DEF DecodeEnds, TypeOK
  <2> QED  BY <1>0, <2>1, <2>2
<1>5. ASSUME NEW c \in Children, ProcessGone(c) PROVE OrphansKnown'
  <2>1. CASE held[c] = None
    BY <1>0, <1>5, <2>1 DEF ProcessGone, Unclaimed, Unreadable
  <2>2. CASE held[c] # None
    <3> DEFINE f == held[c]
    <3>1. /\ state' = [state EXCEPT ![f] = "crashed"]
          /\ writing' = [writing EXCEPT ![f] = 0]
          /\ UNCHANGED <<told, ramfs, backlog>>
          /\ asked' = asked \/ asked' = {p \in asked : p[1] # f}
      BY <1>5, <2>2 DEF ProcessGone, AbandonFile
    <3>2. f \in Files /\ state[f] \in {"decoding", "asking"}
      BY <1>t, <2>2 DEF HeldInv, TypeOK
    <3>3. \A g \in Files : g # f => writing'[g] = writing[g] /\ state'[g] = state[g]
      BY <1>t, <3>1, <3>2 DEF TypeOK
    <3>4. state'[f] = "crashed"  BY <1>t, <3>1, <3>2 DEF TypeOK
    <3>5. \A p \in Unclaimed' : p \in Unclaimed \/ (p \in asked /\ p[1] = f)
      BY <3>1 DEF Unclaimed, Unreadable
    <3>7. \A p, q \in Unclaimed' : p[1] = f /\ q[1] = f => p = q
      <4>1. SUFFICES ASSUME NEW p \in Unclaimed', NEW q \in Unclaimed', p[1] = f, q[1] = f
                     PROVE  p = q
        OBVIOUS
      <4>2. CASE state[f] = "decoding"
        <5>1. \A r \in asked : r[1] # f  BY <1>t, <4>2 DEF AskedInv
        <5>2. p \in Unclaimed /\ q \in Unclaimed  BY <3>5, <4>1, <5>1
        <5> QED  BY <1>o, <1>p, <4>1, <4>2, <5>2
      <4>3. CASE state[f] = "asking"
        <5>1. writing[f] = 0  BY <1>t, <3>2, <4>3 DEF NumbersInv
        <5>2. p \notin Unclaimed /\ q \notin Unclaimed
          BY <1>o, <1>p, <4>1, <4>3, <5>1
        <5>3. p \in asked /\ q \in asked  BY <3>5, <5>2
        <5> QED  BY <1>t, <4>1, <5>3 DEF AskedInv
      <4> QED  BY <3>2, <4>2, <4>3
    <3>8. ASSUME NEW p \in Unclaimed'
          PROVE  \/ writing'[p[1]] = p[2]
                 \/ /\ state'[p[1]] = "crashed"
                    /\ \A q \in Unclaimed' : q[1] = p[1] => q = p
      <4>1. CASE p[1] = f  BY <3>4, <3>7, <4>1
      <4>2. CASE p[1] # f
        <5>1. p \in Unclaimed  BY <3>5, <4>2
        <5>2. \A q \in Unclaimed' : q[1] = p[1] => q \in Unclaimed
          BY <3>5, <4>2
        <5> QED  BY <1>o, <1>p, <3>3, <4>2, <5>1, <5>2
      <4> QED  BY <4>1, <4>2
    <3> QED  BY <3>8 DEF OrphansKnown
  <2> QED  BY <2>1, <2>2
<1>6. ASSUME NEW p \in Pictures, AcceptPicture(p) \/ RemovePicture(p) PROVE OrphansKnown'
  <2>1. Unclaimed' = Unclaimed /\ writing' = writing /\ state' = state
    <3>1. UNCHANGED <<told, writing, state>> /\ \A q : Unreadable(q)' <=> Unreadable(q)
      BY <1>6 DEF AcceptPicture, RemovePicture, Unreadable
    <3>2. CASE AcceptPicture(p)
      BY <3>1, <3>2 DEF AcceptPicture, Unclaimed
    <3>3. CASE RemovePicture(p)
      <4>1. p[1] \in BadNames => Unreadable(p)
        BY <1>t, <3>3 DEF RemovePicture, NumbersInv, Unreadable
      <4> QED  BY <3>1, <3>3, <4>1 DEF RemovePicture, Unclaimed
    <3> QED  BY <1>6, <3>1, <3>2, <3>3
  <2> QED  BY <1>0, <2>1
<1>7. CASE \/ \E c \in Children, f \in Files : ReceiveFile(c, f)
           \/ \E f \in Files : LoseFile(f)
           \/ ConsumerStarts \/ UNCHANGED vars
  <2>1. Unclaimed' = Unclaimed /\ writing' = writing /\ state' = state
    BY <1>7 DEF ReceiveFile, LoseFile, ConsumerStarts, vars, Unclaimed, Unreadable
  <2> QED  BY <1>0, <2>1
<1> QED
  BY <1>1, <1>2, <1>3, <1>4, <1>5, <1>6, <1>7, <1>z DEF Next, DecodeStep, ConsumerStep

LEMMA Inductive == Spec => []IInv
<1>1. Init => IInv
  BY InitIInv
<1>2. IInv /\ [Next]_vars => IInv'
  BY NextTypes, NextHeld, NextAsked, NextNumbers, NextOrphans DEF IInv
<1> QED  BY <1>1, <1>2, PTL DEF Spec

-----------------------------------------------------------------------------

(* Type correctness of the programs together.                              *)
THEOREM TypeCorrect == Spec => []TypeOK
<1>1. IInv => TypeOK  BY DEF IInv
<1> QED  BY <1>1, Inductive, PTL

(* Each death of a decoder leaves one picture behind at most, beside those *)
(* the consumer was told of in texts that do not parse, and as long as the *)
(* consumer has not stopped nothing else does.                             *)
THEOREM OneOrphanADeath == Spec => []OrphansKnown
<1>1. IInv => OrphansKnown  BY DEF IInv
<1> QED  BY <1>1, Inductive, PTL

(* No picture is written that the consumer may be about to remove.         *)
THEOREM NoRewrite == Spec => []NeverRewritten
<1>1. IInv => NeverRewritten
  <2> SUFFICES ASSUME IInv, NEW f \in Files, writing[f] # 0,
                      <<f, writing[f]>> \in asked \cup backlog
               PROVE  FALSE
    BY DEF NeverRewritten
  <2>1. \E i \in DOMAIN told[f] : told[f][i] = writing[f]
    BY DEF IInv, NumbersInv
  <2>2. \A i \in DOMAIN told[f] : told[f][i] < writing[f]
    BY DEF IInv, NumbersInv
  <2>3. writing[f] \in Nat  BY DEF IInv, TypeOK
  <2> QED  BY <2>1, <2>2, <2>3
<1> QED  BY <1>1, Inductive, PTL

-----------------------------------------------------------------------------
(* The decode of one file. *)

LEMMA NextDecode ==
  ASSUME NEW f \in Files
  PROVE  IInv /\ [Next]_vars => [Decode(f)!Next]_(Decode(f)!vars)
<1> SUFFICES ASSUME IInv, [Next]_vars PROVE [Decode(f)!Next]_(Decode(f)!vars)
  OBVIOUS
<1> USE DEF dispatchVars, decoderVars, consumerVars
<1>t. /\ state \in [Files -> {"decoding", "asking", "returned", "failed", "crashed"}]
      /\ told \in [Files -> Seq(Numbers)] /\ writing \in [Files -> Numbers \cup {0}]
      /\ held \in [Children -> Files \cup {None}]
  BY DEF IInv, TypeOK
<1>s. state'[f] = state[f] /\ told'[f] = told[f] => UNCHANGED (Decode(f)!vars)
  BY DEF Decode!vars
<1>1. ASSUME NEW g \in Files, AskConsumer(g) PROVE [Decode(f)!Next]_(Decode(f)!vars)
  <2>1. CASE g # f
    BY <1>1, <1>t, <1>s, <2>1 DEF AskConsumer
  <2>2. CASE g = f
    <3>1. /\ state[f] = "decoding" /\ state'[f] = "asking"
          /\ told'[f] = Append(told[f], writing[f]) /\ writing[f] # 0
      BY <1>1, <1>t, <2>2 DEF AskConsumer, Decoding
    <3>2. writing[f] \in Numbers /\ \A i \in DOMAIN told[f] : told[f][i] < writing[f]
      BY <3>1, <1>t DEF IInv, NumbersInv
    <3>3. Decode(f)!Tell(writing[f])
      BY <3>1, <3>2 DEF Decode!Tell, Decode!Goto
    <3> QED  BY <3>2, <3>3 DEF Decode!Next
  <2> QED  BY <2>1, <2>2
<1>2. ASSUME NEW g \in Files, TakeReply(g) PROVE [Decode(f)!Next]_(Decode(f)!vars)
  <2>1. CASE g # f
    BY <1>2, <1>t, <1>s, <2>1 DEF TakeReply
  <2>2. CASE g = f
    <3>1. state[f] = "asking" /\ state'[f] = "decoding" /\ told' = told
      BY <1>2, <1>t, <2>2 DEF TakeReply, IInv, AskedInv
    <3> QED  BY <3>1 DEF Decode!Next, Decode!Answered, Decode!Goto
  <2> QED  BY <2>1, <2>2
<1>3. ASSUME NEW c \in Children, DecodeEnds(c) PROVE [Decode(f)!Next]_(Decode(f)!vars)
  <2>1. held[c] \in Files
    BY <1>3, <1>t DEF DecodeEnds, Dispatch!Finish
  <2>2. PICK s \in {"returned", "failed"} :
           /\ s = "failed" => told[held[c]] = <<>>
           /\ state' = [state EXCEPT ![held[c]] = s]
    BY <1>3 DEF DecodeEnds
  <2>3. state[held[c]] = "decoding" /\ told' = told
    BY <1>3 DEF DecodeEnds, Decoding
  <2>4. CASE held[c] # f
    BY <1>t, <1>s, <2>1, <2>2, <2>3, <2>4
  <2>5. CASE held[c] = f
    <3>1. state[f] = "decoding" /\ state'[f] = s /\ told'[f] = told[f]
      BY <1>t, <2>2, <2>3, <2>5
    <3>2. s = "failed" => told[f] = <<>>
      BY <2>2, <2>5
    <3> QED  BY <3>1, <3>2 DEF Decode!Next, Decode!Return, Decode!Fail, Decode!Goto
  <2> QED  BY <2>4, <2>5
<1>4. ASSUME NEW c \in Children, ProcessGone(c) PROVE [Decode(f)!Next]_(Decode(f)!vars)
  <2>1. told' = told  BY <1>4 DEF ProcessGone
  <2>2. CASE held[c] # f
    <3>1. held[c] = None \/ AbandonFile(held[c])
      BY <1>4 DEF ProcessGone
    <3>2. state'[f] = state[f]
      BY <1>4, <1>t, <2>2, <3>1 DEF ProcessGone, AbandonFile
    <3> QED  BY <1>s, <2>1, <3>2
  <2>3. CASE held[c] = f
    <3>1. state[f] \in {"decoding", "asking"}
      BY <2>3, FilesAssumption DEF IInv, HeldInv
    <3>2. state'[f] = "crashed"
      BY <1>4, <1>t, <2>3, FilesAssumption DEF ProcessGone, AbandonFile
    <3> QED  BY <2>1, <3>1, <3>2 DEF Decode!Next, Decode!Crash
  <2> QED  BY <2>2, <2>3
<1>5. CASE UNCHANGED <<state, told>>
  BY <1>5, <1>s
<1>6. \/ \E g \in Files, n \in Numbers : WritePicture(g, n)
      \/ \E g \in Files : LoseFile(g) \/ \E c \in Children : ReceiveFile(c, g)
      \/ \E p \in Pictures : ConsumerStep(p)
      \/ ConsumerStops \/ ConsumerStarts \/ UNCHANGED vars
      => UNCHANGED <<state, told>>
  BY DEF WritePicture, LoseFile, ReceiveFile, ConsumerStep, AcceptPicture,
     RemovePicture, ConsumerStops, ConsumerStarts, vars
<1> QED  BY <1>1, <1>2, <1>3, <1>4, <1>5, <1>6 DEF Next, DecodeStep

(* The composition keeps what a single decode promises: for every file,    *)
(* whatever happens to its process and to the consumer, pictures are told  *)
(* under rising numbers, each after the answer to the one before.          *)
THEOREM DecodesAsPromised == Spec => ImplementsDecodes
<1> SUFFICES ASSUME NEW f \in Files PROVE Spec => Decode(f)!Spec
  BY DEF ImplementsDecodes
<1>1. Init => Decode(f)!Init
  BY DEF Init, Decode!Init
<1>2. IInv /\ [Next]_vars => [Decode(f)!Next]_(Decode(f)!vars)
  BY NextDecode
<1> QED  BY <1>1, <1>2, Inductive, PTL DEF Spec, Decode!Spec

-----------------------------------------------------------------------------
(* What stands still.                                                      *)

(* A picture is written by a process that lives, and until the consumer    *)
(* stops, whoever asked it is heard.                                       *)
EndInv ==
    /\ \A f \in Files : writing[f] # 0 => \E c \in Children : held[c] = f
    /\ stops = 0 => up
    /\ stops = 0 => \A f \in Files : state[f] = "asking" =>
                       f \in replied \/ \E p \in asked : p[1] = f

LEMMA InitEnd == Init => EndInv
BY DEF Init, EndInv

LEMMA NextEnd == IInv /\ EndInv /\ [Next]_vars => EndInv'
<1> SUFFICES ASSUME IInv, EndInv, [Next]_vars PROVE EndInv'
  OBVIOUS
<1> USE DEF dispatchVars, decoderVars, consumerVars
<1>t. TypeOK /\ HeldInv /\ AskedInv /\ NumbersInv  BY DEF IInv
<1>1. ASSUME NEW f \in Files, NEW n \in Numbers, WritePicture(f, n) PROVE EndInv'
  <2>1. /\ UNCHANGED <<held, state, asked, replied, up, stops>>
        /\ \E c \in Children : held[c] = f
        /\ writing' = [writing EXCEPT ![f] = n]
    BY <1>1 DEF WritePicture, Decoding
  <2>2. \A g \in Files : g # f => writing'[g] = writing[g]
    BY <1>t, <2>1 DEF TypeOK
  <2> QED  BY <2>1, <2>2 DEF EndInv
<1>2. ASSUME NEW f \in Files, AskConsumer(f) PROVE EndInv'
  <2>1. /\ UNCHANGED <<held, replied, up, stops>>
        /\ asked' = asked \cup {<<f, writing[f]>>}
        /\ writing' = [writing EXCEPT ![f] = 0]
        /\ state' = [state EXCEPT ![f] = "asking"]
    BY <1>2 DEF AskConsumer
  <2>2. \A g \in Files : /\ writing'[g] # 0 => writing[g] # 0
                         /\ g # f => state'[g] = state[g]
    BY <1>t, <2>1 DEF TypeOK
  <2>3. \E p \in asked' : p[1] = f
    <3>1. <<f, writing[f]>> \in asked' /\ <<f, writing[f]>>[1] = f  BY <2>1
    <3> QED  BY <3>1
  <2> QED  BY <2>1, <2>2, <2>3 DEF EndInv
<1>3. ASSUME NEW f \in Files, TakeReply(f) PROVE EndInv'
  <2>1. /\ UNCHANGED <<held, writing, asked, up, stops>>
        /\ replied' = replied \ {f} /\ state' = [state EXCEPT ![f] = "decoding"]
    BY <1>3 DEF TakeReply
  <2>2. state'[f] = "decoding" /\ \A g \in Files : g # f => state'[g] = state[g]
    BY <1>t, <2>1 DEF TypeOK
  <2> QED  BY <2>1, <2>2 DEF EndInv
<1>4. ASSUME NEW c \in Children, DecodeEnds(c) PROVE EndInv'
  <2>1. /\ UNCHANGED <<writing, asked, replied, up, stops>>
        /\ held' = [held EXCEPT ![c] = None] /\ held[c] \in Files /\ writing[held[c]] = 0
        /\ \E s \in {"returned", "failed"} : state' = [state EXCEPT ![held[c]] = s]
    BY <1>t, <1>4 DEF DecodeEnds, Dispatch!Finish, TypeOK
  <2>2. \A d \in Children : held[d] # held[c] => held'[d] = held[d]
    BY <1>t, <2>1 DEF TypeOK
  <2>3. \A g \in Files : state'[g] = "asking" => state[g] = "asking"
    BY <1>t, <2>1 DEF TypeOK
  <2> QED  BY <2>1, <2>2, <2>3 DEF EndInv
<1>5. ASSUME NEW c \in Children, NEW f \in Files, ReceiveFile(c, f) PROVE EndInv'
  <2>1. /\ UNCHANGED <<state, writing, asked, replied, up, stops>>
        /\ held' = [held EXCEPT ![c] = f] /\ held[c] = None
    BY <1>5 DEF ReceiveFile, Dispatch!Hand
  <2>2. \A d \in Children : held[d] # None => held'[d] = held[d]
    BY <1>t, <2>1 DEF TypeOK
  <2> QED  BY <2>1, <2>2 DEF EndInv
<1>6. ASSUME NEW c \in Children, ProcessGone(c) PROVE EndInv'
  <2>1. /\ UNCHANGED <<up, stops>> /\ held' = [held EXCEPT ![c] = None]
    BY <1>6 DEF ProcessGone, Dispatch!Leave
  <2>2. \A d \in Children : held[d] # held[c] => held'[d] = held[d]
    BY <1>t, <2>1 DEF TypeOK
  <2>3. CASE held[c] = None
    <3>1. UNCHANGED <<state, writing, asked, replied>>  BY <1>6, <2>3 DEF ProcessGone
    <3> QED  BY <2>1, <2>2, <2>3, <3>1 DEF EndInv
  <2>4. CASE held[c] # None
    <3>1. /\ held[c] \in Files /\ state' = [state EXCEPT ![held[c]] = "crashed"]
          /\ writing' = [writing EXCEPT ![held[c]] = 0]
          /\ asked' \in {asked, {p \in asked : p[1] # held[c]}}
          /\ replied' = replied \ {held[c]}
      BY <1>t, <1>6, <2>4 DEF ProcessGone, AbandonFile, TypeOK
    <3>2. /\ writing'[held[c]] = 0 /\ state'[held[c]] = "crashed"
          /\ \A g \in Files : g # held[c] => /\ writing'[g] = writing[g]
                                             /\ state'[g] = state[g]
      BY <1>t, <3>1 DEF TypeOK
    <3>3. \A p \in asked : p[1] # held[c] => p \in asked'
      BY <3>1
    <3> QED  BY <2>1, <2>2, <3>1, <3>2, <3>3 DEF EndInv
  <2> QED  BY <2>3, <2>4
<1>7. ASSUME NEW p \in Pictures, AcceptPicture(p) PROVE EndInv'
  <2>1. /\ UNCHANGED <<held, state, writing, up, stops>> /\ asked' = asked \ {p}
        /\ replied' = IF state[p[1]] = "asking" THEN replied \cup {p[1]} ELSE replied
    BY <1>7 DEF AcceptPicture, Answers
  <2> QED  BY <2>1 DEF EndInv
<1>8. CASE \/ \E f \in Files : LoseFile(f)
           \/ \E p \in Pictures : RemovePicture(p)
           \/ UNCHANGED vars
  <2>1. UNCHANGED <<held, state, writing, asked, replied, up, stops>>
    BY <1>8 DEF LoseFile, Dispatch!Lose, RemovePicture, vars
  <2> QED  BY <2>1 DEF EndInv
<1>9. CASE ConsumerStops \/ ConsumerStarts
  <2>1. UNCHANGED <<held, state, writing>>
    BY <1>9 DEF ConsumerStops, ConsumerStarts
  <2>2. stops' # 0
    <3>1. stops \in Nat  BY <1>t DEF TypeOK
    <3>2. CASE ConsumerStops
      BY <3>1, <3>2 DEF ConsumerStops
    <3>3. CASE ConsumerStarts
      BY <3>3 DEF ConsumerStarts, EndInv
    <3> QED  BY <1>9, <3>2, <3>3
  <2> QED  BY <2>1, <2>2 DEF EndInv
<1> QED
  BY <1>1, <1>2, <1>3, <1>4, <1>5, <1>6, <1>7, <1>8, <1>9
     DEF Next, DecodeStep, ConsumerStep

(* Decoders and consumer do not end up waiting for each other; what is     *)
(* left when they all wait is what deaths and stops left, and what was told*)
(* in texts that do not parse.                                             *)
THEOREM StandsStillDone == Spec => []StillMeansDone
<1>1. IInv /\ EndInv => StillMeansDone
  <2> SUFFICES ASSUME IInv, EndInv, StandsStill PROVE StillMeansDone
    BY DEF StillMeansDone
  <2>t. TypeOK /\ NumbersInv /\ OrphansKnown  BY DEF IInv
  <2>n. stops \in Nat  BY <2>t DEF TypeOK
  <2>1. stops = 0 => asked = {} /\ backlog = {}
    BY DEF StandsStill, ConsumerBlocked, EndInv
  <2>2. ASSUME NEW f \in Files, state[f] = "asking" PROVE Deaf(f)
    <3>1. f \notin replied  BY DEF StandsStill, DecoderBlocked
    <3>2. stops > 0  BY <2>n, <2>1, <2>2, <3>1 DEF EndInv
    <3>3. up => asked = {}  BY DEF StandsStill, ConsumerBlocked
    <3> QED  BY <2>2, <3>1, <3>2, <3>3 DEF Deaf
  <2>3. ASSUME NEW p \in ramfs, stops = 0, ~Unreadable(p) PROVE state[p[1]] = "crashed"
    <3>1. p \in Unclaimed  BY <2>1, <2>3 DEF Unclaimed
    <3>2. p[1] \in Files /\ p[2] \in Numbers  BY <2>t, PictureIsPair DEF TypeOK
    <3>3. SUFFICES ASSUME writing[p[1]] = p[2] PROVE FALSE
      BY <2>t, <2>3, <3>1 DEF OrphansKnown
    <3>4. writing[p[1]] # 0  BY <3>2, <3>3
    <3>5. Decoding(p[1])
      BY <2>t, <3>2, <3>4 DEF EndInv, NumbersInv, Decoding
    <3> QED  BY <3>2, <3>5 DEF StandsStill, DecoderBlocked
  <2>4. \A p \in ramfs : stops > 0 \/ state[p[1]] = "crashed" \/ Unreadable(p)
    BY <2>n, <2>3
  <2> QED  BY <2>2, <2>4 DEF StillMeansDone
<1>2. Spec => [](IInv /\ EndInv)
  <2>1. Init => EndInv
    BY InitEnd
  <2>2. IInv /\ EndInv /\ [Next]_vars => EndInv'
    BY NextEnd
  <2> QED  BY <2>1, <2>2, Inductive, PTL DEF Spec
<1> QED  BY <1>1, <1>2, PTL

=============================================================================
