------------------------ MODULE StreamDispatchProofs ------------------------
(***************************************************************************)
(* TLAPS proofs about StreamDispatch, for a file of any length with its    *)
(* newlines anywhere, a buffer and an address of any size and any number   *)
(* of processes.                                                           *)
(***************************************************************************)
EXTENDS StreamDispatch, FiniteSetTheorems, SequenceTheorems, TLAPS

(* The counters never pass the number of children forked so far, nobody    *)
(* else has an address, and what fgets has of a line fits where the parent *)
(* is.                                                                     *)
CountersInv == /\ active <= index
               /\ \A c \in Children : c > index => job[c] = <<>>
               /\ rpc = "read" => Len(url) < UrlBytes
               /\ rpc = "fork" => url # <<>>
               /\ rpc \in {"test", "done"} => url = <<>> /\ eof
               /\ eof => buffer = <<>>
               /\ eof /\ rpc = "read" => url = <<>>

Typed == TypeOK /\ CountersInv

-----------------------------------------------------------------------------
(* What FillBuffer reads is the file from the offset on. *)
LEMMA Filled ==
  ASSUME TypeOK, FillBuffer
  PROVE  /\ offset' \in 0 .. Size /\ offset' > offset
         /\ buffer' \in Seq(1 .. Size)
         /\ Len(buffer') = offset' - offset
         /\ \A i \in 1 .. Len(buffer') : buffer'[i] = offset + i
<1> DEFINE end == EndOfRead
<1>1. offset \in 0 .. Size /\ offset < Size  BY DEF TypeOK, FillBuffer
<1>2. end \in 0 .. Size /\ end - offset \in Nat /\ end > offset
  BY <1>1, FileAssumption, BoundsAssumption DEF EndOfRead
<1>3. buffer' = [i \in 1 .. end - offset |-> offset + i] /\ offset' = end
  BY DEF FillBuffer
<1> HIDE DEF end
<1>4. ASSUME NEW i \in 1 .. end - offset PROVE offset + i \in 1 .. Size
  <2>1. i \in Nat /\ 1 <= i /\ i <= end - offset  BY <1>2, <1>4
  <2> QED  BY <1>1, <1>2, <2>1, FileAssumption
<1>5. buffer' \in [1 .. end - offset -> 1 .. Size]  BY <1>3, <1>4
<1>6. buffer' \in Seq(1 .. Size)  BY <1>2, <1>5, SeqDef, Zenon
<1>7. DOMAIN buffer' = 1 .. end - offset  BY <1>3
<1>8. Len(buffer') = end - offset  BY <1>2, <1>6, <1>7, LenProperties
<1> QED  BY <1>2, <1>3, <1>6, <1>8

(* A byte moves from the buffer to the address. *)
LEMMA Copied ==
  ASSUME TypeOK, CopyByte
  PROVE  /\ buffer # <<>> /\ Len(buffer) \in Nat \ {0} /\ Len(url) \in Nat
         /\ buffer' \in Seq(1 .. Size) /\ url' \in Seq(1 .. Size)
         /\ Len(buffer') = Len(buffer) - 1 /\ Len(url') = Len(url) + 1
         /\ \A i \in 1 .. Len(buffer') : buffer'[i] = buffer[i + 1]
         /\ \A i \in 1 .. Len(url) : url'[i] = url[i]
         /\ url'[Len(url) + 1] = buffer[1] /\ Head(buffer) = buffer[1]
<1>1. /\ buffer \in Seq(1 .. Size) /\ url \in Seq(1 .. Size)
      /\ buffer # <<>> /\ buffer' = Tail(buffer) /\ url' = Append(url, Head(buffer))
  BY DEF TypeOK, CopyByte
<1>2. Head(buffer) \in 1 .. Size /\ Head(buffer) = buffer[1]
  <2>1. Len(buffer) \in Nat \ {0}  BY <1>1
  <2>2. 1 \in 1 .. Len(buffer)  BY <2>1
  <2>3. buffer[1] \in 1 .. Size  BY <1>1, <2>2, ElementOfSeq
  <2> QED  BY <1>1, <2>3
<1>3. /\ Len(buffer) \in Nat \ {0} /\ buffer' \in Seq(1 .. Size)
      /\ Len(buffer') = Len(buffer) - 1
      /\ \A i \in 1 .. Len(buffer') : buffer'[i] = buffer[i + 1]
  BY <1>1
<1>4. /\ url' \in Seq(1 .. Size) /\ Len(url) \in Nat /\ Len(url') = Len(url) + 1
      /\ url'[Len(url) + 1] = Head(buffer)
      /\ \A i \in 1 .. Len(url) : url'[i] = url[i]
  BY <1>1, <1>2
<1> QED  BY <1>1, <1>2, <1>3, <1>4

LEMMA InitTyped == Init => Typed
<1> SUFFICES ASSUME Init PROVE Typed
  OBVIOUS
<1> USE FileAssumption, BoundsAssumption
<1>1. /\ child \in [Children -> {"unborn", "decode", "zombie", "reaped"}]
      /\ unread \in [Children -> Nat]
  BY DEF Init
<1>2. /\ job \in [Children -> Seq(1 .. Size)]
      /\ \A c \in Children : job[c] = <<>>
  BY DEF Init
<1>3. buffer \in Seq(1 .. Size) /\ url \in Seq(1 .. Size) /\ Len(url) = 0
  BY DEF Init
<1>4. /\ rpc = "read" /\ skipped = {} /\ rewound = FALSE /\ eof = FALSE
      /\ offset = 0 /\ active = 0 /\ index = 0
  BY DEF Init
<1>5. /\ offset \in 0 .. Size
      /\ active \in 0 .. MaxForks /\ index \in 0 .. MaxForks
  BY <1>4
<1>t. /\ rpc \in {"read", "fork", "test", "done"} /\ eof \in BOOLEAN
      /\ skipped \subseteq Seq(1 .. Size) /\ rewound \in BOOLEAN
  BY <1>4
<1>l. Len(url) <= UrlBytes  BY <1>3
<1>6. TypeOK  BY <1>1, <1>2, <1>3, <1>5, <1>t, <1>l DEF TypeOK
<1>7. CountersInv  BY <1>2, <1>3, <1>4 DEF CountersInv
<1> QED  BY <1>6, <1>7 DEF Typed

(* Every step keeps the types and the counters. *)
LEMMA NextTyped == Typed /\ [Next]_vars => Typed'
<1> SUFFICES ASSUME Typed, [Next]_vars PROVE Typed'
  OBVIOUS
<1> USE FileAssumption, BoundsAssumption DEF Typed, TypeOK, CountersInv, fileVars
<1>1. CASE CopyByte
  <2>1. /\ buffer' \in Seq(1 .. Size) /\ url' \in Seq(1 .. Size)
        /\ Len(url) \in Nat /\ Len(url') = Len(url) + 1
    BY <1>1, Copied
  <2>2. rpc = "read" /\ buffer # <<>> /\ ~eof /\ url' # <<>>
    BY <1>1, <2>1 DEF CopyByte
  <2>3. Len(url') <= UrlBytes /\ (Len(url') # UrlBytes => Len(url') < UrlBytes)
    BY <2>1, <2>2
  <2>4. /\ rpc' \in {"fork", "read"} /\ (rpc' = "read" => Len(url') # UrlBytes)
        /\ UNCHANGED <<offset, eof, active, index, child, unread, job, skipped, rewound>>
    BY <1>1 DEF CopyByte
  <2> QED  BY <2>1, <2>2, <2>3, <2>4
<1>2. CASE FillBuffer
  <2>1. offset' \in 0 .. Size /\ buffer' \in Seq(1 .. Size)
    BY <1>2, Filled
  <2> QED  BY <1>2, <2>1 DEF FillBuffer, ParentGoto
<1>3. CASE ReadEnd
  BY <1>3 DEF ReadEnd
<1>4. ASSUME NEW c \in Children, Fork(c) PROVE Typed'
  <2>1. index + 1 \in 1 .. MaxForks /\ c = index + 1
    BY <1>4 DEF Fork, ParentGoto, Children
  <2>2. /\ job' \in [Children -> Seq(1 .. Size)]
        /\ \A d \in Children : d > index' => job'[d] = <<>>
    <3>1. job' = [job EXCEPT ![c] = url] /\ index' = index + 1  BY <1>4 DEF Fork
    <3>2. ASSUME NEW d \in Children, d > index' PROVE job'[d] = <<>>
      <4>1. d # c /\ d > index  BY <2>1, <3>1, <3>2 DEF Children
      <4> QED  BY <3>1, <4>1
    <3> QED  BY <3>1, <3>2
  <2>3. Len(buffer) \in Nat /\ url' = <<>> /\ url' \in Seq(1 .. Size) /\ Len(url') = 0
    BY <1>4 DEF Fork
  <2>4. /\ rpc' = "read" /\ active' = active + 1 /\ index' = index + 1
        /\ child' \in [Children -> {"unborn", "decode", "zombie", "reaped"}]
        /\ unread' \in [Children -> Nat]
        /\ UNCHANGED <<offset, buffer, eof, skipped, rewound>>
    BY <1>4, <2>3 DEF Fork, ParentGoto
  <2>n. active' \in 0 .. MaxForks /\ index' \in 0 .. MaxForks
    <3>1. active \in Nat /\ index \in Nat /\ active <= index  BY BoundsAssumption
    <3> QED  BY <2>1, <2>4, <3>1
  <2>l. Len(url') <= UrlBytes /\ rpc' \in {"read", "fork", "test", "done"}
    BY <2>3, <2>4
  <2>5. TypeOK'  BY <2>2, <2>3, <2>4, <2>n, <2>l
  <2>6. CountersInv'  BY <2>1, <2>2, <2>3, <2>4
  <2> QED  BY <2>5, <2>6
<1>5. CASE ForkFails
  <2>1. url' = <<>> /\ url' \in Seq(1 .. Size) /\ Len(url') = 0  BY <1>5 DEF ForkFails
  <2> QED  BY <1>5, <2>1 DEF ForkFails, ParentGoto
<1>6. CASE CheckRound
  <2>1. child' \in [Children -> {"unborn", "decode", "zombie", "reaped"}]
    BY <1>6 DEF CheckRound
  <2> QED  BY <1>6, <2>1 DEF CheckRound, ParentGoto
<1>7. CASE CheckEnd
  BY <1>7 DEF CheckEnd, ParentGoto
<1>8. ASSUME NEW c \in Children, ChildExit(c) PROVE Typed'
  <2>1. offset' \in 0 .. Size  BY <1>8 DEF ChildExit
  <2> QED  BY <1>8, <2>1 DEF ChildExit
<1>9. ASSUME NEW c \in Children, ChildCrash(c) PROVE Typed'
  BY <1>9 DEF ChildCrash
<1>10. CASE UNCHANGED vars
  BY <1>10 DEF vars
<1> QED
  BY <1>1, <1>2, <1>3, <1>4, <1>5, <1>6, <1>7, <1>8, <1>9, <1>10
  DEF Next, ParentStep

(* The types of StreamDispatch hold in every reachable state, the counters *)
(* of the parent never pass the number of its children, and fgets never    *)
(* has more of a line than fits.                                           *)
THEOREM TypeCorrect == Spec => [](TypeOK /\ CountersInv)
<1>1. Init => Typed  BY InitTyped
<1>2. Typed /\ [Next]_vars => Typed'  BY NextTyped
<1> QED  BY <1>1, <1>2, PTL DEF Spec, Typed

-----------------------------------------------------------------------------
(* No byte of the file behind the offset gets lost: it is in the buffer,   *)
(* in what fgets has, or in an address that was tried. A child that moves  *)
(* the offset back makes the claim weaker, never false.                    *)
Kept(n) == \/ \E i \in 1 .. Len(buffer) : buffer[i] = n
           \/ \E i \in 1 .. Len(url) : url[i] = n
           \/ \E text \in Tried : n \in BytesOf(text)

NoByteLost == \A n \in 1 .. Size : n <= offset \/ eof => Kept(n)

(* What is given stays given, and the address at hand is tried, whether    *)
(* the fork fails or not.                                                  *)
LEMMA TriedGrows ==
  ASSUME Typed, [Next]_vars
  PROVE  /\ Tried \subseteq Tried'
         /\ \/ UNCHANGED <<job, skipped, index>>
            \/ /\ rpc = "fork" /\ rpc' = "read" /\ url' = <<>>
               /\ url \in Tried' /\ Tried' \subseteq Tried \cup {url}
               /\ UNCHANGED <<offset, buffer, eof, rewound>>
               /\ \/ \E c \in Children : /\ c = index + 1 /\ index' = index + 1
                                         /\ job' = [job EXCEPT ![c] = url]
                  \/ UNCHANGED <<job, index>>
<1>j. job \in [Children -> Seq(1 .. Size)]  BY DEF Typed, TypeOK
<1>1. ASSUME NEW c \in Children, Fork(c)
      PROVE  /\ Tried \subseteq Tried' /\ url \in Tried'
             /\ Tried' \subseteq Tried \cup {url}
             /\ rpc = "fork" /\ rpc' = "read" /\ url' = <<>>
             /\ UNCHANGED <<offset, buffer, eof, rewound>>
             /\ c = index + 1 /\ index' = index + 1
             /\ job' = [job EXCEPT ![c] = url]
  <2>1. /\ c = index + 1 /\ index' = index + 1 /\ skipped' = skipped
        /\ job' = [job EXCEPT ![c] = url]
        /\ rpc = "fork" /\ rpc' = "read" /\ url' = <<>>
        /\ UNCHANGED <<offset, buffer, eof, rewound>>
    BY <1>1 DEF Fork, ParentGoto
  <2>2. index \in Nat /\ 1 .. index' = (1 .. index) \cup {c} /\ c \notin 1 .. index
    BY <2>1 DEF Typed, TypeOK
  <2>3. job'[c] = url /\ \A d \in 1 .. index : job'[d] = job[d]
    <3>1. 1 .. index \subseteq Children
      BY BoundsAssumption DEF Typed, TypeOK, Children
    <3> QED  BY <1>j, <2>1, <2>2, <3>1
  <2>4. Given' = Given \cup {url}
    <3>1. Given' = {job'[d] : d \in (1 .. index) \cup {c}}  BY <2>2 DEF Given
    <3> QED  BY <2>3, <3>1 DEF Given
  <2> QED  BY <2>1, <2>4 DEF Tried
<1>2. CASE ForkFails
  BY <1>2 DEF ForkFails, ParentGoto, Tried, Given
<1>3. CASE UNCHANGED <<job, skipped, index>>
  BY <1>3 DEF Tried, Given
<1>4. CASE CopyByte \/ FillBuffer \/ ReadEnd \/ CheckRound \/ CheckEnd \/ UNCHANGED vars
  <2>1. UNCHANGED <<job, skipped, index>>
    BY <1>4 DEF CopyByte, FillBuffer, ReadEnd, CheckRound, CheckEnd, vars
  <2> QED  BY <1>3, <2>1
<1>5. ASSUME NEW c \in Children, ChildExit(c) \/ ChildCrash(c)
      PROVE  UNCHANGED <<job, skipped, index>>
  BY <1>5 DEF ChildExit, ChildCrash
<1> QED  BY <1>1, <1>2, <1>3, <1>4, <1>5 DEF Next, ParentStep

(* Every step but those keeps the buffer, what fgets has, and the flag.    *)
LEMMA OtherSteps ==
  ASSUME Typed,
         \/ CheckRound \/ CheckEnd \/ UNCHANGED vars
         \/ \E c \in Children : ChildExit(c) \/ ChildCrash(c)
  PROVE  /\ UNCHANGED <<buffer, url, eof, job, skipped, index>>
         /\ offset' \in Int /\ offset' <= offset
         /\ rewound' \/ eof \/ offset' = offset
         /\ rewound => rewound'
         /\ rpc' = rpc \/ (rpc = "test" /\ rpc' = "done")
<1>t. offset \in Nat /\ rewound \in BOOLEAN  BY FileAssumption DEF Typed, TypeOK
<1>1. CASE CheckRound \/ CheckEnd \/ UNCHANGED vars
  BY <1>1, <1>t DEF CheckRound, CheckEnd, vars, fileVars, ParentGoto
<1>2. ASSUME NEW c \in Children, ChildExit(c) \/ ChildCrash(c)
      PROVE  /\ UNCHANGED <<buffer, url, eof, job, skipped, index, rpc>>
             /\ offset' \in Int /\ offset' <= offset
             /\ rewound' \/ eof \/ offset' = offset
             /\ rewound => rewound'
  <2>1. unread[c] \in Nat  BY <1>2 DEF Typed, TypeOK
  <2>2. offset' = offset \/ offset' = offset - unread[c]
    BY <1>2 DEF ChildExit, ChildCrash, fileVars
  <2>3. offset' \in Int /\ offset' <= offset  BY <1>t, <2>1, <2>2
  <2>4. /\ UNCHANGED <<buffer, url, eof, job, skipped, index, rpc>>
    BY <1>2 DEF ChildExit, ChildCrash, fileVars
  <2>5. /\ rewound' \/ eof \/ offset' = offset
        /\ rewound => rewound'
    <3>1. CASE ChildExit(c)
      <4>1. rewound' = (rewound \/ (~eof /\ offset' # offset))
        BY <3>1 DEF ChildExit
      <4> QED  BY <4>1, Zenon
    <3>2. CASE ChildCrash(c)
      <4>1. UNCHANGED <<rewound, offset>>  BY <3>2 DEF ChildCrash, fileVars
      <4> QED  BY <4>1
    <3> QED  BY <1>2, <3>1, <3>2
  <2> QED  BY <2>3, <2>4, <2>5
<1> QED  BY <1>1, <1>2

LEMMA NextNoByteLost == Typed /\ NoByteLost /\ [Next]_vars => NoByteLost'
<1> SUFFICES ASSUME Typed, NoByteLost, [Next]_vars PROVE NoByteLost'
  OBVIOUS
<1>t. /\ offset \in 0 .. Size /\ Size \in Nat /\ eof \in BOOLEAN
      /\ Len(buffer) \in Nat /\ Len(url) \in Nat /\ DOMAIN url = 1 .. Len(url)
  BY FileAssumption DEF Typed, TypeOK
<1>g. Tried \subseteq Tried'  BY TriedGrows
<1>1. CASE CopyByte
  <2>1. /\ Len(buffer') = Len(buffer) - 1 /\ Len(url') = Len(url) + 1
        /\ \A i \in 1 .. Len(buffer') : buffer'[i] = buffer[i + 1]
        /\ \A i \in 1 .. Len(url) : url'[i] = url[i]
        /\ url'[Len(url) + 1] = buffer[1]
    BY <1>1, Copied DEF Typed
  <2>2. UNCHANGED <<offset, eof>>  BY <1>1 DEF CopyByte
  <2>3. ASSUME NEW n \in 1 .. Size, Kept(n) PROVE Kept(n)'
    <3>1. ASSUME NEW i \in 1 .. Len(buffer), buffer[i] = n PROVE Kept(n)'
      <4>1. CASE i = 1
        <5>1. Len(url) + 1 \in 1 .. Len(url')  BY <1>t, <2>1
        <5> QED  BY <2>1, <3>1, <4>1, <5>1 DEF Kept
      <4>2. CASE i # 1
        <5>1. i - 1 \in 1 .. Len(buffer') /\ (i - 1) + 1 = i  BY <1>t, <2>1, <4>2
        <5>2. buffer'[i - 1] = n  BY <2>1, <3>1, <5>1
        <5> QED  BY <5>1, <5>2 DEF Kept
      <4> QED  BY <4>1, <4>2
    <3>2. ASSUME NEW i \in 1 .. Len(url), url[i] = n PROVE Kept(n)'
      <4>1. i \in 1 .. Len(url') /\ url'[i] = n  BY <1>t, <2>1, <3>2
      <4> QED  BY <4>1 DEF Kept
    <3>3. ASSUME NEW text \in Tried, n \in BytesOf(text) PROVE Kept(n)'
      BY <1>g, <3>3 DEF Kept
    <3> QED  BY <2>3, <3>1, <3>2, <3>3 DEF Kept
  <2> QED  BY <2>2, <2>3 DEF NoByteLost
<1>2. CASE FillBuffer
  <2>1. /\ offset' \in 0 .. Size /\ offset' > offset /\ Len(buffer') = offset' - offset
        /\ \A i \in 1 .. Len(buffer') : buffer'[i] = offset + i
    BY <1>2, Filled DEF Typed
  <2>2. buffer = <<>> /\ ~eof /\ UNCHANGED <<url, eof>>  BY <1>2 DEF FillBuffer
  <2>3. ASSUME NEW n \in 1 .. Size, n <= offset' PROVE Kept(n)'
    <3>1. CASE n <= offset
      <4>1. Kept(n) /\ Len(buffer) = 0  BY <2>2, <3>1 DEF NoByteLost
      <4> QED  BY <1>g, <2>2, <4>1 DEF Kept
    <3>2. CASE ~(n <= offset)
      <4>1. n - offset \in 1 .. Len(buffer') /\ offset + (n - offset) = n
        <5>1. n \in Nat /\ offset \in Nat /\ offset' \in Nat  BY <1>t, <2>1
        <5>2. n > offset  BY <3>2, <5>1
        <5> DEFINE o1 == offset'
        <5>3. o1 \in Nat /\ n <= o1  BY <2>3, <5>1
        <5> HIDE DEF o1
        <5>4. n - offset \in 1 .. o1 - offset /\ offset + (n - offset) = n
          BY <5>1, <5>2, <5>3
        <5>5. Len(buffer') = o1 - offset  BY <2>1 DEF o1
        <5> QED  BY <5>4, <5>5
      <4>2. buffer'[n - offset] = n  BY <2>1, <4>1
      <4> QED  BY <4>1, <4>2 DEF Kept
    <3> QED  BY <3>1, <3>2
  <2> QED  BY <2>2, <2>3 DEF NoByteLost
<1>3. CASE ReadEnd
  <2>1. (eof \/ offset = Size) /\ UNCHANGED <<buffer, url>>
    BY <1>3 DEF ReadEnd
  <2>2. \A n \in 1 .. Size : Kept(n)  BY <1>t, <2>1 DEF NoByteLost
  <2> QED  BY <1>g, <2>1, <2>2 DEF NoByteLost, Kept
<1>4. CASE ForkFails \/ \E c \in Children : Fork(c)
  <2>1. UNCHANGED <<offset, buffer, eof>> /\ url \in Tried'
    <3>1. CASE ForkFails
      BY <3>1 DEF ForkFails, Tried
    <3>2. ASSUME NEW c \in Children, Fork(c)
          PROVE  UNCHANGED <<offset, buffer, eof>> /\ url \in Tried'
      <4>1. index' = index + 1 /\ index \in Nat /\ UNCHANGED <<offset, buffer, eof>>
        BY <3>2 DEF Fork, Typed, TypeOK
      <4>2. ~UNCHANGED <<job, skipped, index>>  BY <4>1
      <4> QED  BY <4>1, <4>2, TriedGrows
    <3> QED  BY <1>4, <3>1, <3>2
  <2>2. ASSUME NEW n \in 1 .. Size, Kept(n) PROVE Kept(n)'
    <3>1. ASSUME NEW i \in 1 .. Len(url), url[i] = n PROVE Kept(n)'
      <4>1. n \in BytesOf(url)  BY <1>t, <3>1 DEF BytesOf
      <4> QED  BY <2>1, <4>1 DEF Kept
    <3> QED  BY <1>g, <2>1, <2>2, <3>1 DEF Kept
  <2> QED  BY <2>1, <2>2 DEF NoByteLost
<1>5. CASE \/ CheckRound \/ CheckEnd \/ UNCHANGED vars
           \/ \E c \in Children : ChildExit(c) \/ ChildCrash(c)
  <2>1. UNCHANGED <<buffer, url, eof>> /\ offset' \in Int /\ offset' <= offset
    BY <1>5, OtherSteps
  <2> QED  BY <1>g, <1>t, <2>1 DEF NoByteLost, Kept
<1> QED  BY <1>1, <1>2, <1>3, <1>4, <1>5 DEF Next, ParentStep

-----------------------------------------------------------------------------
(* As long as no child moves the offset while the parent reads, fgets goes *)
(* through the file byte by byte: Used bytes are out of the buffer, Done   *)
(* of them in addresses that it has returned.                              *)
Used == IF eof THEN Size ELSE offset - Len(buffer)

Done == Used - Len(url)

(* Where an address may begin: at the start of a line, or behind a piece   *)
(* of one that filled url.                                                 *)
CutAt(n) == \/ n = 0
            \/ n \in Ends
            \/ n >= UrlBytes /\ \A m \in n - UrlBytes + 1 .. n : m \notin Ends

InOrder == ~rewound =>
    /\ ~eof => /\ Len(buffer) <= offset
               /\ \A i \in 1 .. Len(buffer) : buffer[i] = offset - Len(buffer) + i
    /\ Len(url) <= Used
    /\ \A i \in 1 .. Len(url) : url[i] = Done + i
    /\ \A i \in 1 .. Len(url) : i < Len(url) \/ rpc = "read" => url[i] \notin Ends
    /\ CutAt(Done) \/ (url = <<>> /\ eof)
    /\ rpc = "fork" /\ ~eof => Len(url) = UrlBytes \/ url[Len(url)] \in Ends

LEMMA UsedTypes ==
  ASSUME Typed
  PROVE  /\ Len(buffer) \in Nat /\ Len(url) \in Nat /\ offset \in Nat /\ Size \in Nat
         /\ UrlBytes \in Nat \ {0} /\ index \in Nat
         /\ Used \in Int /\ Done \in Int /\ offset <= Size
         /\ eof \in BOOLEAN /\ rewound \in BOOLEAN
         /\ Used = Done + Len(url)
<1>1. /\ Len(buffer) \in Nat /\ Len(url) \in Nat /\ offset \in Nat /\ Size \in Nat
      /\ offset <= Size
  BY FileAssumption DEF Typed, TypeOK
<1>2. UrlBytes \in Nat \ {0} /\ index \in Nat /\ eof \in BOOLEAN /\ rewound \in BOOLEAN
  BY BoundsAssumption DEF Typed, TypeOK
<1>3. Used \in Int  BY <1>1 DEF Used
<1>4. Done \in Int /\ Used = Done + Len(url)  BY <1>1, <1>3 DEF Done
<1> QED  BY <1>1, <1>2, <1>3, <1>4

LEMMA InitInOrder == Init => InOrder
<1> SUFFICES ASSUME Init PROVE InOrder
  OBVIOUS
<1>1. /\ offset = 0 /\ buffer = <<>> /\ url = <<>> /\ ~eof /\ rpc = "read"
      /\ Len(buffer) = 0 /\ Len(url) = 0
  BY DEF Init
<1>2. Used = offset - Len(buffer) /\ Done = Used - Len(url)
  BY <1>1 DEF Used, Done
<1> HIDE DEF Init
<1>3. 0 - 0 = 0  OBVIOUS
<1>4. Used = 0 - 0  BY <1>1, <1>2, Zenon
<1>5. Done = 0 - 0  BY <1>1, <1>2, <1>3, <1>4, Zenon
<1> QED  BY <1>1, <1>3, <1>4, <1>5 DEF InOrder, CutAt

LEMMA NextInOrder == Typed /\ InOrder /\ [Next]_vars => InOrder'
<1> SUFFICES ASSUME Typed, InOrder, [Next]_vars PROVE InOrder'
  OBVIOUS
<1>t. /\ Len(buffer) \in Nat /\ Len(url) \in Nat /\ offset \in Nat /\ Size \in Nat
      /\ UrlBytes \in Nat \ {0}
      /\ Used \in Int /\ Done \in Int /\ Used = Done + Len(url)
  BY UsedTypes
<1>1. CASE CopyByte
  <2> SUFFICES ASSUME ~rewound' PROVE InOrder'
    BY DEF InOrder
  <2>1. /\ rpc = "read" /\ buffer # <<>>
        /\ UNCHANGED <<offset, eof, rewound>>
        /\ rpc' = IF Head(buffer) \in Ends \/ Len(url') = UrlBytes
                  THEN "fork" ELSE "read"
    BY <1>1 DEF CopyByte
  <2>2. ~eof /\ ~rewound  BY <2>1 DEF Typed, CountersInv
  <2>3. /\ Len(buffer) \in Nat \ {0}
        /\ Len(buffer') = Len(buffer) - 1 /\ Len(url') = Len(url) + 1
        /\ \A i \in 1 .. Len(buffer') : buffer'[i] = buffer[i + 1]
        /\ \A i \in 1 .. Len(url) : url'[i] = url[i]
        /\ url'[Len(url) + 1] = buffer[1] /\ Head(buffer) = buffer[1]
    BY <1>1, Copied DEF Typed
  <2>4. /\ Len(buffer) <= offset
        /\ \A i \in 1 .. Len(buffer) : buffer[i] = offset - Len(buffer) + i
        /\ Len(url) <= Used /\ Used = offset - Len(buffer)
        /\ \A i \in 1 .. Len(url) : url[i] = Done + i /\ url[i] \notin Ends
        /\ CutAt(Done)
    BY <2>1, <2>2, <1>t DEF InOrder, Used
  <2>5. Used' = Used + 1 /\ Done' = Done
    <3>1. Used' = offset - Len(buffer')  BY <2>1, <2>2 DEF Used
    <3>2. Used' = Used + 1
      <4> DEFINE n == Len(buffer)
      <4>1. n \in Nat /\ Used = offset - n /\ Used' = offset - (n - 1)
        BY <2>3, <2>4, <3>1
      <4> HIDE DEF n
      <4> QED  BY <1>t, <4>1
    <3> QED  BY <1>t, <2>3, <3>2 DEF Done
  <2>6. buffer[1] = Done + Len(url) + 1
    <3>1. 1 \in 1 .. Len(buffer)  BY <2>3
    <3>2. buffer[1] = offset - Len(buffer) + 1  BY <2>4, <3>1
    <3> QED  BY <1>t, <2>4, <3>2
  <2>7. \A i \in 1 .. Len(buffer') : buffer'[i] = offset - Len(buffer') + i
    <3> TAKE i \in 1 .. Len(buffer')
    <3>1. i + 1 \in 1 .. Len(buffer)  BY <1>t, <2>3
    <3>2. buffer'[i] = offset - Len(buffer) + (i + 1)  BY <2>3, <2>4, <3>1
    <3> QED  BY <1>t, <2>3, <3>2
  <2>8. \A i \in 1 .. Len(url') : i \in 1 .. Len(url) \/ i = Len(url) + 1
    BY <1>t, <2>3
  <2>9. \A i \in 1 .. Len(url') : url'[i] = Done' + i
    <3> TAKE i \in 1 .. Len(url')
    <3>1. CASE i \in 1 .. Len(url)
      <4>1. url'[i] = Done + i  BY <2>3, <2>4, <3>1
      <4> QED  BY <2>5, <4>1
    <3>2. CASE i = Len(url) + 1
      <4>1. url'[i] = Done + Len(url) + 1  BY <2>3, <2>6, <3>2
      <4> QED  BY <1>t, <2>5, <3>2, <4>1
    <3> QED  BY <2>8, <3>1, <3>2
  <2>10. \A i \in 1 .. Len(url') :
            i < Len(url') \/ rpc' = "read" => url'[i] \notin Ends
    <3> TAKE i \in 1 .. Len(url')
    <3>1. CASE i \in 1 .. Len(url)
      BY <2>3, <2>4, <3>1
    <3>2. CASE i = Len(url) + 1
      <4>1. url'[i] = Head(buffer) /\ ~(i < Len(url'))  BY <1>t, <2>3, <3>2
      <4> QED  BY <2>1, <4>1
    <3> QED  BY <2>8, <3>1, <3>2
  <2>11. CutAt(Done)'  BY <2>4, <2>5 DEF CutAt
  <2>12. rpc' = "fork" => Len(url') = UrlBytes \/ url'[Len(url')] \in Ends
    BY <2>1, <2>3
  <2>13. Len(buffer') <= offset' /\ Len(url') <= Used'
    BY <1>t, <2>1, <2>3, <2>4, <2>5
  <2> QED  BY <2>1, <2>7, <2>9, <2>10, <2>11, <2>12, <2>13 DEF InOrder
<1>2. CASE FillBuffer
  <2> SUFFICES ASSUME ~rewound' PROVE InOrder'
    BY DEF InOrder
  <2>1. /\ rpc = "read" /\ rpc' = "read" /\ buffer = <<>> /\ ~eof
        /\ UNCHANGED <<url, eof, rewound>> /\ Len(buffer) = 0
    BY <1>2 DEF FillBuffer, ParentGoto
  <2>2. /\ offset' \in 0 .. Size /\ offset' > offset /\ Len(buffer') = offset' - offset
        /\ \A i \in 1 .. Len(buffer') : buffer'[i] = offset + i
    BY <1>2, Filled DEF Typed
  <2>3. Used' = Used /\ Done' = Done /\ offset' - Len(buffer') = offset
        /\ Len(buffer') <= offset'
    <3> DEFINE o1 == offset'  n1 == Len(buffer')
    <3>1. o1 \in Nat /\ n1 = o1 - offset /\ Used = offset - 0
      BY <2>1, <2>2 DEF Used
    <3>2. Used' = o1 - n1  BY <2>1 DEF Used
    <3> HIDE DEF o1, n1
    <3>3. Used' = Used /\ o1 - n1 = offset /\ n1 <= o1  BY <1>t, <3>1, <3>2
    <3>4. Done' = Done  BY <2>1, <3>3 DEF Done
    <3> QED  BY <3>3, <3>4 DEF o1, n1
  <2>4. \A i \in 1 .. Len(buffer') : buffer'[i] = offset' - Len(buffer') + i
    BY <2>2, <2>3
  <2>5. CutAt(Done)'
    BY <2>1, <2>3 DEF InOrder, CutAt
  <2> QED  BY <2>1, <2>3, <2>4, <2>5 DEF InOrder
<1>3. CASE ReadEnd
  <2> SUFFICES ASSUME ~rewound' PROVE InOrder'
    BY DEF InOrder
  <2>1. /\ rpc = "read" /\ buffer = <<>> /\ (eof \/ offset = Size) /\ eof'
        /\ UNCHANGED <<offset, buffer, url, rewound>> /\ Len(buffer) = 0
        /\ rpc' # "read"
    BY <1>3 DEF ReadEnd
  <2>2. Used' = Used /\ Done' = Done
    <3>1. Used = Size /\ Used' = Size  BY <1>t, <2>1 DEF Used
    <3> QED  BY <2>1, <3>1 DEF Done
  <2>3. CutAt(Done)' \/ (url' = <<>> /\ eof')
    BY <2>1, <2>2 DEF InOrder, CutAt
  <2>4. /\ Len(url) <= Used
        /\ \A i \in 1 .. Len(url) : url[i] = Done + i
        /\ \A i \in 1 .. Len(url) : url[i] \notin Ends
    BY <2>1 DEF InOrder
  <2> QED  BY <2>1, <2>2, <2>3, <2>4 DEF InOrder
<1>4. CASE ForkFails \/ \E c \in Children : Fork(c)
  <2> SUFFICES ASSUME ~rewound' PROVE InOrder'
    BY DEF InOrder
  <2>1. /\ rpc = "fork" /\ rpc' = "read" /\ url' = <<>>
        /\ UNCHANGED <<offset, buffer, eof, rewound>> /\ Len(url') = 0
    BY <1>4 DEF ForkFails, Fork, ParentGoto
  <2>2. Used' = Used /\ Done' = Used
    <3>1. Used' = Used  BY <2>1 DEF Used
    <3> QED  BY <1>t, <2>1, <3>1 DEF Done
  <2>i. /\ ~eof => /\ Len(buffer) <= offset
                   /\ \A i \in 1 .. Len(buffer) : buffer[i] = offset - Len(buffer) + i
        /\ Len(url) <= Used
        /\ \A i \in 1 .. Len(url) : url[i] = Done + i
        /\ \A i \in 1 .. Len(url) : i < Len(url) => url[i] \notin Ends
        /\ ~eof => Len(url) = UrlBytes \/ url[Len(url)] \in Ends
    BY <2>1 DEF InOrder
  <2>3. ASSUME ~eof PROVE CutAt(Used)
    <3>1. Len(url) >= 1
      <4>1. url # <<>> /\ url \in Seq(1 .. Size)  BY <2>1 DEF Typed, TypeOK, CountersInv
      <4> QED  BY <4>1
    <3>2. Len(url) \in 1 .. Len(url)  BY <1>t, <3>1
    <3>3. url[Len(url)] = Used  BY <1>t, <2>i, <3>2
    <3>4. CASE Used \in Ends
      BY <3>4 DEF CutAt
    <3>5. CASE Used \notin Ends
      <4>1. Len(url) = UrlBytes  BY <2>3, <2>i, <3>3, <3>5
      <4>2. ASSUME NEW m \in Used - UrlBytes + 1 .. Used PROVE m \notin Ends
        <5>1. m - Done \in 1 .. Len(url) /\ Done + (m - Done) = m
          BY <1>t, <4>1
        <5>2. url[m - Done] = m  BY <2>i, <5>1
        <5>3. CASE m - Done < Len(url)
          BY <2>i, <5>1, <5>2, <5>3
        <5>4. CASE m - Done = Len(url)
          BY <3>3, <3>5, <5>2, <5>4
        <5> QED  BY <1>t, <5>1, <5>3, <5>4
      <4> QED  BY <1>t, <2>i, <4>1, <4>2 DEF CutAt
    <3> QED  BY <3>4, <3>5
  <2>4. CutAt(Done)' \/ eof'
    BY <2>1, <2>2, <2>3 DEF CutAt
  <2>5. 0 <= Used'  BY <1>t, <2>2, <2>i
  <2> QED  BY <2>1, <2>2, <2>4, <2>5, <2>i DEF InOrder
<1>5. CASE \/ CheckRound \/ CheckEnd \/ UNCHANGED vars
           \/ \E c \in Children : ChildExit(c) \/ ChildCrash(c)
  <2> SUFFICES ASSUME ~rewound' PROVE InOrder'
    BY DEF InOrder
  <2>1. /\ UNCHANGED <<buffer, url, eof>> /\ (eof \/ offset' = offset) /\ ~rewound
        /\ rpc' = rpc \/ (rpc = "test" /\ rpc' = "done")
    BY <1>5, OtherSteps
  <2>2. Used' = Used /\ Done' = Done  BY <2>1 DEF Used, Done
  <2>3. CutAt(Done)' <=> CutAt(Done)  BY <2>2 DEF CutAt
  <2> QED  BY <2>1, <2>2, <2>3 DEF InOrder
<1> QED  BY <1>1, <1>2, <1>3, <1>4, <1>5 DEF Next, ParentStep

(* Only a fork, or one that fails, is past an address.                     *)
LEMMA DoneStays ==
  ASSUME Typed, InOrder, ~rewound',
         \/ CopyByte \/ FillBuffer \/ ReadEnd \/ CheckRound \/ CheckEnd
         \/ UNCHANGED vars \/ \E c \in Children : ChildExit(c) \/ ChildCrash(c)
  PROVE  ~rewound /\ Done' = Done /\ UNCHANGED <<job, skipped, index>>
<1>t. /\ Len(buffer) \in Nat /\ Len(url) \in Nat /\ offset \in Nat /\ Used \in Int
  BY UsedTypes
<1>1. CASE CopyByte
  <2>1. UNCHANGED <<offset, eof, rewound, job, skipped, index>> /\ ~eof
    BY <1>1 DEF CopyByte, Typed, CountersInv
  <2>2. Len(buffer') = Len(buffer) - 1 /\ Len(url') = Len(url) + 1
    BY <1>1, Copied DEF Typed
  <2> DEFINE n == Len(buffer)  k == Len(url)
  <2>3. Done = (offset - n) - k /\ Done' = (offset - (n - 1)) - (k + 1)
    BY <2>1, <2>2 DEF Used, Done
  <2>4. n \in Nat /\ k \in Nat  BY <1>t
  <2> HIDE DEF n, k
  <2>5. Done' = Done  BY <1>t, <2>3, <2>4
  <2> QED  BY <2>1, <2>5
<1>2. CASE FillBuffer
  <2>1. /\ UNCHANGED <<url, eof, rewound, job, skipped, index>> /\ ~eof
        /\ Len(buffer) = 0
    BY <1>2 DEF FillBuffer
  <2>2. offset' \in 0 .. Size /\ Len(buffer') = offset' - offset
    BY <1>2, Filled DEF Typed
  <2> DEFINE o == offset'  k == Len(url)
  <2>3. Done = (offset - 0) - k /\ Done' = (o - (o - offset)) - k
    BY <2>1, <2>2 DEF Used, Done
  <2>4. o \in Int /\ k \in Nat  BY <1>t, <2>2, FileAssumption
  <2> HIDE DEF o, k
  <2>5. Done' = Done  BY <1>t, <2>3, <2>4
  <2> QED  BY <2>1, <2>5
<1>3. CASE ReadEnd
  <2>1. /\ UNCHANGED <<offset, buffer, url, rewound, job, skipped, index>>
        /\ (eof \/ offset = Size) /\ eof' /\ Len(buffer) = 0
    BY <1>3 DEF ReadEnd
  <2>2. Used = Size /\ Used' = Size  BY <1>t, <2>1 DEF Used
  <2> QED  BY <2>1, <2>2 DEF Done
<1>4. CASE \/ CheckRound \/ CheckEnd \/ UNCHANGED vars
           \/ \E c \in Children : ChildExit(c) \/ ChildCrash(c)
  <2>1. /\ UNCHANGED <<buffer, url, eof, job, skipped, index>> /\ ~rewound
        /\ eof \/ offset' = offset
    BY <1>4, OtherSteps
  <2>2. Used' = Used  BY <2>1 DEF Used
  <2> QED  BY <2>1, <2>2 DEF Done
<1> QED  BY <1>1, <1>2, <1>3, <1>4

(* A line that ends in the address at hand is that address.                *)
LEMMA LineAtHand ==
  ASSUME Typed, InOrder, ~rewound, rpc = "fork",
         NEW first \in 1 .. Size, NEW end \in 1 .. Size,
         IsLine(first, end), end > Done, end <= Used
  PROVE  url = Between(first, end)
<1>t. /\ Len(url) \in Nat /\ offset \in Nat /\ Size \in Nat /\ Len(buffer) \in Nat
      /\ UrlBytes \in Nat \ {0} /\ Used \in Int /\ Done \in Int /\ offset <= Size
      /\ Used = Done + Len(url) /\ first \in Nat /\ end \in Nat
      /\ first >= 1 /\ end <= Size
  BY UsedTypes
<1>i. /\ Len(url) <= Used
      /\ \A i \in 1 .. Len(url) : url[i] = Done + i
      /\ \A i \in 1 .. Len(url) : i < Len(url) => url[i] \notin Ends
      /\ CutAt(Done) /\ 0 <= Done
  <2>1. url # <<>>  BY DEF Typed, CountersInv
  <2> QED  BY <1>t, <2>1 DEF InOrder
<1>n. \A n \in Nat : Done < n /\ n < Used => n \notin Ends
  <2> TAKE n \in Nat
  <2> HAVE Done < n /\ n < Used
  <2>1. n - Done \in 1 .. Len(url) /\ n - Done < Len(url) /\ Done + (n - Done) = n
    BY <1>t
  <2> QED  BY <1>i, <2>1
<1>l. /\ first <= end /\ end - first < UrlBytes
      /\ first = 1 \/ first - 1 \in Ends
      /\ end = Size \/ end \in Ends
      /\ \A n \in first .. end - 1 : n \notin Ends
  BY DEF IsLine
<1>1. end = Used
  <2>1. Used <= Size  BY <1>t DEF Used
  <2> QED  BY <1>t, <1>n, <1>l, <2>1
<1>2. first <= Done + 1
  <2> SUFFICES ASSUME first > Done + 1 PROVE FALSE
    BY <1>t
  <2>1. first - 1 \in Nat /\ Done < first - 1 /\ first - 1 < Used /\ first # 1
    BY <1>t, <1>i, <1>l, <1>1
  <2> QED  BY <1>n, <1>l, <2>1
<1>3. first > Done
  <2> SUFFICES ASSUME first <= Done PROVE FALSE
    BY <1>t
  <2>1. Done \in first .. end - 1 /\ Done # 0  BY <1>t
  <2>2. /\ Done >= UrlBytes
        /\ \A m \in Done - UrlBytes + 1 .. Done : m \notin Ends
    BY <1>i, <1>l, <2>1 DEF CutAt
  <2>3. first - 1 \in Done - UrlBytes + 1 .. Done /\ first # 1
    BY <1>t, <1>l, <2>2
  <2> QED  BY <1>l, <2>2, <2>3
<1>4. first = Done + 1 /\ end = Done + Len(url)  BY <1>t, <1>1, <1>2, <1>3
<1>5. end - first + 1 = Len(url)  BY <1>t, <1>4
<1>6. \A i \in 1 .. Len(url) : first + i - 1 = url[i]
  <2> TAKE i \in 1 .. Len(url)
  <2>1. first + i - 1 = Done + i  BY <1>t, <1>4
  <2> QED  BY <1>i, <2>1
<1>7. Between(first, end) = [i \in 1 .. Len(url) |-> url[i]]
  BY <1>5, <1>6 DEF Between
<1>8. url = [i \in 1 .. Len(url) |-> url[i]]
  BY DEF Typed, TypeOK
<1> QED  BY <1>7, <1>8

(* The addresses that are given away cover the file up to Done, its lines  *)
(* whole.                                                                  *)
LinesInv == ~rewound =>
    /\ \A c \in Children : \A n \in BytesOf(job[c]) : n <= Done
    /\ \A first, end \in 1 .. Size :
          IsLine(first, end) /\ end <= Done => Between(first, end) \in Tried

LEMMA NextLines ==
  Typed /\ InOrder /\ LinesInv /\ OnceUnlessRewound /\ [Next]_vars
     => (LinesInv /\ OnceUnlessRewound)'
<1> SUFFICES ASSUME Typed, InOrder, LinesInv, OnceUnlessRewound, [Next]_vars, ~rewound'
             PROVE  (LinesInv /\ OnceUnlessRewound)'
  BY DEF LinesInv, OnceUnlessRewound
<1>t. /\ Len(url) \in Nat /\ Used \in Int /\ Done \in Int /\ Used = Done + Len(url)
      /\ index \in Nat
  BY UsedTypes
<1>j. /\ job \in [Children -> Seq(1 .. Size)] /\ url \in Seq(1 .. Size)
      /\ \A c \in Children : c > index => job[c] = <<>>
  BY DEF Typed, TypeOK, CountersInv
<1>g. Tried \subseteq Tried'  BY TriedGrows
<1>1. CASE \/ CopyByte \/ FillBuffer \/ ReadEnd \/ CheckRound \/ CheckEnd
           \/ UNCHANGED vars \/ \E c \in Children : ChildExit(c) \/ ChildCrash(c)
  <2>1. ~rewound /\ Done' = Done /\ UNCHANGED <<job, skipped, index>>
    BY <1>1, DoneStays
  <2> QED  BY <1>g, <2>1 DEF LinesInv, OnceUnlessRewound
<1>2. CASE ForkFails \/ \E c \in Children : Fork(c)
  <2>1. /\ rpc = "fork" /\ url' = <<>> /\ ~rewound
        /\ UNCHANGED <<offset, buffer, eof>> /\ Len(url') = 0
    BY <1>2 DEF ForkFails, Fork, ParentGoto
  <2>2. Done' = Used
    <3>1. Used' = Used  BY <2>1 DEF Used
    <3> QED  BY <1>t, <2>1, <3>1 DEF Done
  <2>3. url \in Tried'
    <3>1. CASE ForkFails
      BY <3>1 DEF ForkFails, Tried
    <3>2. CASE \E c \in Children : Fork(c)
      <4>1. index' = index + 1  BY <3>2 DEF Fork
      <4> QED  BY <1>t, <4>1, TriedGrows
    <3> QED  BY <1>2, <3>1, <3>2
  <2>4. ASSUME NEW first \in 1 .. Size, NEW end \in 1 .. Size,
               IsLine(first, end), end <= Done'
        PROVE  Between(first, end) \in Tried'
    <3>1. CASE end <= Done
      BY <1>g, <2>1, <2>4, <3>1 DEF LinesInv
    <3>2. CASE end > Done
      <4>1. url = Between(first, end)
        BY <2>1, <2>2, <2>4, <3>2, LineAtHand
      <4> QED  BY <2>3, <4>1
    <3> QED  BY <1>t, <3>1, <3>2
  <2>5. \A n \in BytesOf(url) : n \in Int /\ n > Done /\ n <= Used
    <3>1. \A i \in 1 .. Len(url) : url[i] = Done + i  BY <2>1 DEF InOrder
    <3>2. DOMAIN url = 1 .. Len(url)  BY <1>j
    <3> QED  BY <1>t, <3>1, <3>2 DEF BytesOf
  <2>6. \A c \in Children : \A n \in BytesOf(job[c]) : n \in Int /\ n <= Done /\ n <= Used
    <3> TAKE c \in Children
    <3> TAKE n \in BytesOf(job[c])
    <3>1. job[c] \in Seq(1 .. Size)  BY <1>j
    <3>2. n \in 1 .. Size
      <4>1. PICK i \in DOMAIN job[c] : n = job[c][i]  BY DEF BytesOf
      <4>2. i \in 1 .. Len(job[c])  BY <3>1, <4>1
      <4> QED  BY <3>1, <4>1, <4>2, ElementOfSeq
    <3>3. n <= Done  BY <2>1 DEF LinesInv
    <3> QED  BY <1>t, <3>2, <3>3
  <2>7. CASE ForkFails
    <3>1. UNCHANGED <<job, index, rewound>>  BY <2>7 DEF ForkFails
    <3> QED  BY <2>1, <2>2, <2>4, <2>6, <3>1 DEF LinesInv, OnceUnlessRewound, BytesOf
  <2>8. ASSUME NEW c \in Children, Fork(c) PROVE (LinesInv /\ OnceUnlessRewound)'
    <3>1. c = index + 1 /\ job' = [job EXCEPT ![c] = url]  BY <2>8 DEF Fork
    <3>2. job'[c] = url /\ \A d \in Children : d # c => job'[d] = job[d]
      BY <1>j, <3>1
    <3>3. \A d \in Children : \A n \in BytesOf(job'[d]) : n <= Done'
      BY <2>2, <2>5, <2>6, <3>2
    <3>4. ASSUME NEW d \in Children, NEW e \in Children, d < e,
                 NEW m \in BytesOf(job'[d]), NEW n \in BytesOf(job'[e])
          PROVE  m < n
      <4>1. CASE e = c
        <5>1. d # c  BY <3>4, <4>1 DEF Children
        <5>2. m \in BytesOf(job[d]) /\ n \in BytesOf(url)  BY <3>2, <4>1, <5>1
        <5>3. m \in Int /\ n \in Int /\ m <= Done /\ n > Done  BY <2>5, <2>6, <5>2
        <5> QED  BY <1>t, <5>3
      <4>2. CASE e # c /\ d = c
        <5>1. e > index  BY <1>t, <3>1, <3>4, <4>2 DEF Children
        <5>2. job'[e] = <<>>  BY <1>j, <3>2, <4>2, <5>1
        <5> QED  BY <5>2 DEF BytesOf
      <4>3. CASE e # c /\ d # c
        BY <2>1, <3>2, <3>4, <4>3 DEF OnceUnlessRewound
      <4> QED  BY <4>1, <4>2, <4>3
    <3> QED  BY <2>4, <3>3, <3>4 DEF LinesInv, OnceUnlessRewound
  <2> QED  BY <1>2, <2>7, <2>8
<1> QED  BY <1>1, <1>2 DEF Next, ParentStep

(* What was proved of the parent's reading, as one invariant. *)
ReadInv == /\ Typed /\ NoByteLost
           /\ InOrder /\ LinesInv /\ OnceUnlessRewound

LEMMA ReadInvHolds == Spec => []ReadInv
<1>1. Init => ReadInv
  <2> SUFFICES ASSUME Init PROVE ReadInv
    OBVIOUS
  <2>1. NoByteLost
    BY FileAssumption DEF Init, NoByteLost
  <2>2. Done = 0
    <3>1. /\ offset = 0 /\ buffer = <<>> /\ url = <<>> /\ ~eof
          /\ Len(buffer) = 0 /\ Len(url) = 0
      BY DEF Init
    <3>2. Used = offset - Len(buffer) /\ Done = Used - Len(url)
      BY <3>1 DEF Used, Done
    <3>3. Used = 0 - 0 /\ 0 - 0 = 0  BY <3>1, <3>2
    <3>4. Done = 0 - 0  BY <3>1, <3>2, <3>3, Zenon
    <3> QED  BY <3>3, <3>4
  <2>3. \A c \in Children : BytesOf(job[c]) = {}
    BY DEF Init, BytesOf
  <2>4. \A first, end \in 1 .. Size : ~(end <= Done)
    BY <2>2, FileAssumption
  <2>5. LinesInv /\ OnceUnlessRewound
    BY <2>3, <2>4 DEF LinesInv, OnceUnlessRewound
  <2> QED  BY <2>1, <2>5, InitTyped, InitInOrder DEF ReadInv
<1>2. ReadInv /\ [Next]_vars => ReadInv'
  BY NextTyped, NextNoByteLost, NextInOrder, NextLines DEF ReadInv
<1> QED  BY <1>1, <1>2, PTL DEF Spec

(* When the parent stops reading, every byte of the file was in an address *)
(* that was tried, however often children moved the shared offset back     *)
(* while it read; and if none did, so was every line, whole and alone,     *)
(* wherever the stdio buffer cut it.                                       *)
THEOREM NoAddressPassedOver == Spec => []EveryLineTried
<1>1. ReadInv => EveryLineTried
  <2> SUFFICES ASSUME ReadInv, rpc \in {"test", "done"}
               PROVE  /\ \A n \in 1 .. Size : \E text \in Tried : n \in BytesOf(text)
                      /\ rewound \/ \A first, end \in 1 .. Size :
                                       IsLine(first, end) => Between(first, end) \in Tried
    BY DEF EveryLineTried
  <2>1. buffer = <<>> /\ url = <<>> /\ eof /\ Len(buffer) = 0 /\ Len(url) = 0
    BY DEF ReadInv, Typed, CountersInv
  <2>2. \A n \in 1 .. Size : \E text \in Tried : n \in BytesOf(text)
    BY <2>1 DEF ReadInv, NoByteLost, Kept
  <2>3. Size \in Nat  BY FileAssumption
  <2>4. Done = Size - 0  BY <2>1 DEF Used, Done
  <2>5. \A first, end \in 1 .. Size : end <= Done  BY <2>3, <2>4
  <2>6. ~rewound => \A first, end \in 1 .. Size :
                       IsLine(first, end) => Between(first, end) \in Tried
    BY <2>5 DEF ReadInv, LinesInv
  <2> QED  BY <2>2, <2>6
<1> QED  BY <1>1, ReadInvHolds, PTL

(* No part of the file is given away twice, and the children get it in its *)
(* order, as long as none of them moves the offset while the parent reads. *)
THEOREM GivenOnce == Spec => []OnceUnlessRewound
<1>1. ReadInv => OnceUnlessRewound  BY DEF ReadInv
<1> QED  BY <1>1, ReadInvHolds, PTL

-----------------------------------------------------------------------------
(* active counts the children not yet reaped, children are forked in       *)
(* order, and the parent is done only when active is zero.                 *)
ActiveInv == /\ active = Cardinality(Unreaped)
             /\ \A c \in Children : c > index => child[c] = "unborn"
             /\ rpc = "done" => active = 0

(* There are finitely many children, reaped or not. *)
LEMMA UnreapedFinite == IsFiniteSet(Unreaped)
<1>1. IsFiniteSet(Children)
  BY BoundsAssumption, FS_Interval DEF Children
<1>2. Unreaped \subseteq Children  BY DEF Unreaped, Alive, Zombies
<1> QED  BY <1>1, <1>2, FS_Subset

(* Every step keeps the count exact: a fork adds a child that was not      *)
(* there, a round of waitpid takes a zombie away.                          *)
LEMMA NextActive == Typed /\ ActiveInv /\ [Next]_vars => ActiveInv'
<1> SUFFICES ASSUME Typed, ActiveInv, [Next]_vars PROVE ActiveInv'
  OBVIOUS
<1>t. /\ child \in [Children -> {"unborn", "decode", "zombie", "reaped"}]
      /\ active \in Nat /\ index \in Nat
      /\ IsFiniteSet(Unreaped)
  BY UnreapedFinite, BoundsAssumption DEF Typed, TypeOK
<1>1. CASE CopyByte \/ FillBuffer \/ ReadEnd \/ ForkFails
  BY <1>1 DEF CopyByte, FillBuffer, ReadEnd, ForkFails, ParentGoto,
              ActiveInv, Unreaped, Alive, Zombies
<1>2. ASSUME NEW c \in Children, Fork(c) PROVE ActiveInv'
  <2>1. /\ c = index + 1 /\ index' = index + 1 /\ active' = active + 1
        /\ child' = [child EXCEPT ![c] = "decode"] /\ rpc' = "read"
    BY <1>2 DEF Fork, ParentGoto
  <2>2. c \notin Unreaped
    BY <1>t, <2>1 DEF ActiveInv, Unreaped, Alive, Zombies
  <2>3. Unreaped' = Unreaped \cup {c}
    BY <1>t, <2>1 DEF Unreaped, Alive, Zombies
  <2>4. Cardinality(Unreaped') = Cardinality(Unreaped) + 1
    BY <1>t, <2>2, <2>3, FS_AddElement
  <2>5. ASSUME NEW d \in Children, d > index' PROVE child'[d] = "unborn"
    <3>1. d > index /\ d # c  BY <1>t, <2>1, <2>5 DEF Children
    <3> QED  BY <1>t, <2>1, <3>1 DEF ActiveInv
  <2> QED  BY <2>1, <2>4, <2>5 DEF ActiveInv
<1>3. CASE CheckRound
  <2>1. active > 0 /\ active' = active - 1 /\ index' = index /\ rpc' = "test"
    BY <1>3 DEF CheckRound, ParentGoto
  <2>2. Unreaped # {}
    BY <2>1, FS_EmptySet DEF ActiveInv
  <2>3. PICK c \in Zombies : child' = [child EXCEPT ![c] = "reaped"]
    BY <1>3, <2>2 DEF CheckRound
  <2>4. c \in Unreaped /\ c \in Children /\ child[c] = "zombie"
    BY <2>3 DEF Zombies, Unreaped
  <2>5. Unreaped' = Unreaped \ {c}
    BY <1>t, <2>3, <2>4 DEF Unreaped, Alive, Zombies
  <2>6. Cardinality(Unreaped') = Cardinality(Unreaped) - 1
    BY <1>t, <2>4, <2>5, FS_RemoveElement
  <2>7. \A d \in Children : d > index' => child'[d] = "unborn"
    BY <1>t, <2>1, <2>3, <2>4 DEF ActiveInv
  <2> QED  BY <2>1, <2>6, <2>7 DEF ActiveInv
<1>4. CASE CheckEnd
  BY <1>4 DEF CheckEnd, ParentGoto, ActiveInv, Unreaped, Alive, Zombies
<1>5. ASSUME NEW c \in Children, ChildExit(c) \/ ChildCrash(c)
      PROVE  ActiveInv'
  <2>1. /\ child[c] = "decode" /\ child' = [child EXCEPT ![c] = "zombie"]
        /\ UNCHANGED <<rpc, active, index>>
    BY <1>5 DEF ChildExit, ChildCrash
  <2>2. Unreaped' = Unreaped
    BY <1>t, <2>1 DEF Unreaped, Alive, Zombies
  <2>3. \A d \in Children : d > index' => child'[d] = "unborn"
    BY <1>t, <2>1 DEF ActiveInv
  <2> QED  BY <2>1, <2>2, <2>3 DEF ActiveInv
<1>6. CASE UNCHANGED vars
  BY <1>6 DEF vars, ActiveInv, Unreaped, Alive, Zombies
<1> QED
  BY <1>1, <1>2, <1>3, <1>4, <1>5, <1>6 DEF Next, ParentStep

LEMMA ActiveHolds == Spec => [](Typed /\ ActiveInv)
<1>1. Init => Typed /\ ActiveInv
  <2> SUFFICES ASSUME Init PROVE ActiveInv
    BY InitTyped
  <2>1. Unreaped = {}  BY DEF Init, Unreaped, Alive, Zombies
  <2> QED  BY <2>1, FS_EmptySet DEF Init, ActiveInv
<1>2. Typed /\ ActiveInv /\ [Next]_vars => (Typed /\ ActiveInv)'
  BY NextTyped, NextActive
<1> QED  BY <1>1, <1>2, PTL DEF Spec

(* The parent's plain counter is exact, and the parent ends after its last *)
(* child, whatever the children do while it reads.                         *)
THEOREM NoChildLeftBehind == Spec => []WaitsForAll
<1>1. ActiveInv => WaitsForAll
  BY UnreapedFinite, FS_EmptySet DEF ActiveInv, WaitsForAll
<1> QED  BY <1>1, ActiveHolds, PTL

-----------------------------------------------------------------------------
(* The children that decode. *)
LEMMA AliveFinite == IsFiniteSet(Alive) /\ Cardinality(Alive) \in Nat
<1>1. Alive \subseteq Unreaped  BY DEF Unreaped
<1> QED  BY <1>1, UnreapedFinite, FS_Subset, FS_CardinalityType

LEMMA TypesOfToGo ==
  ASSUME Typed
  PROVE  /\ Len(buffer) \in Nat /\ Cardinality(Alive) \in Nat /\ active \in Nat
         /\ offset \in 0 .. Size /\ Size \in Nat /\ Size - offset \in Nat
         /\ eof \in BOOLEAN
         /\ rpc \in {"read", "fork", "test", "done"}
         /\ child \in [Children -> {"unborn", "decode", "zombie", "reaped"}]
BY FileAssumption, BoundsAssumption, AliveFinite DEF Typed, TypeOK

ToGoInv == ToGo \in Nat

LEMMA ToGoNat == Typed => ToGoInv
<1> SUFFICES ASSUME Typed PROVE ToGo \in Nat
  BY DEF ToGoInv
<1> DEFINE n == Len(buffer)  k == Cardinality(Alive)
           x == IF eof THEN 0 ELSE 5 * (Size - offset) + 1
           y == IF url # <<>> THEN 3 ELSE 0
           z == IF rpc \in {"read", "fork"} THEN 1 ELSE 0
           w == IF rpc = "done" THEN 0 ELSE 1
<1>1. n \in Nat /\ k \in Nat /\ active \in Nat /\ Size - offset \in Nat
  BY TypesOfToGo
<1>2. x \in Nat /\ y \in Nat /\ z \in Nat /\ w \in Nat
  <2> DEFINE d == Size - offset
  <2>1. d \in Nat  BY <1>1
  <2> HIDE DEF d
  <2>2. 5 * d + 1 \in Nat  BY <2>1
  <2>3. x \in Nat  BY <2>2 DEF d
  <2> QED  BY <2>3
<1>3. ToGo = x + 4 * n + y + z + k + active + w
  BY DEF ToGo
<1> HIDE DEF n, k, x, y, z, w
<1> QED  BY <1>1, <1>2, <1>3

(* A child that ends is no longer alive. *)
LEMMA OneLess ==
  ASSUME Typed, NEW c \in Children, child[c] = "decode",
         child' = [child EXCEPT ![c] = "zombie"]
  PROVE  Cardinality(Alive') = Cardinality(Alive) - 1
<1>1. Alive' = Alive \ {c}  BY TypesOfToGo DEF Alive
<1>2. c \in Alive  BY DEF Alive
<1> QED  BY <1>1, <1>2, AliveFinite, FS_RemoveElement

LEMMA NextNearer ==
  ASSUME Typed, Typed', ActiveInv, Next
  PROVE  ToGo' < ToGo \/ (~eof /\ offset' < offset)
<1> DEFINE n == Len(buffer)  n1 == Len(buffer')
           k == Cardinality(Alive)  k1 == Cardinality(Alive')
           x == IF eof THEN 0 ELSE 5 * (Size - offset) + 1
           x1 == IF eof' THEN 0 ELSE 5 * (Size - offset') + 1
           y == IF url # <<>> THEN 3 ELSE 0
           y1 == IF url' # <<>> THEN 3 ELSE 0
           z == IF rpc \in {"read", "fork"} THEN 1 ELSE 0
           z1 == IF rpc' \in {"read", "fork"} THEN 1 ELSE 0
           w == IF rpc = "done" THEN 0 ELSE 1
           w1 == IF rpc' = "done" THEN 0 ELSE 1
<1>t. /\ offset \in 0 .. Size /\ n \in Nat /\ active \in Nat /\ k \in Nat
      /\ Size \in Nat
      /\ child \in [Children -> {"unborn", "decode", "zombie", "reaped"}]
  BY TypesOfToGo
<1>p. offset' \in 0 .. Size /\ active' \in Nat /\ n1 \in Nat /\ k1 \in Nat
  <2>1. n1 \in Nat  BY DEF Typed, TypeOK
  <2>2. k1 \in Nat
    <3>1. (Cardinality(Alive) \in Nat)'  BY AliveFinite, PTL
    <3> QED  BY <3>1
  <2>3. offset' \in 0 .. Size /\ active' \in Nat
    BY BoundsAssumption DEF Typed, TypeOK
  <2> QED  BY <2>1, <2>2, <2>3
<1>y. y \in {0, 3} /\ z \in {0, 1} /\ w \in {0, 1}
      /\ y1 \in {0, 3} /\ z1 \in {0, 1} /\ w1 \in {0, 1}
  OBVIOUS
<1>x. x \in Nat /\ x1 \in Nat
  <2> DEFINE d == Size - offset  d1 == Size - offset'
  <2>1. d \in Nat /\ d1 \in Nat
    <3> DEFINE o1 == offset'
    <3>1. o1 \in 0 .. Size  BY <1>p
    <3> HIDE DEF o1
    <3>2. Size - o1 \in Nat  BY <1>t, <3>1
    <3> QED  BY <1>t, <3>2 DEF o1
  <2> HIDE DEF d, d1
  <2>2. 5 * d + 1 \in Nat /\ 5 * d1 + 1 \in Nat  BY <2>1
  <2> QED  BY <2>2 DEF d, d1
<1>s. /\ ToGo = x + 4 * n + y + z + k + active + w
      /\ ToGo' = x1 + 4 * n1 + y1 + z1 + k1 + active' + w1
  BY DEF ToGo
(* A step that leaves the file as it is, or has met its end.               *)
<1>f. ASSUME x1 = x, n1 = n,
             y1 + z1 + k1 + active' + w1 < y + z + k + active + w
      PROVE  ToGo' < ToGo
  <2> DEFINE m == active'  a == ToGo  b == ToGo'
  <2>1. /\ a = x + 4 * n + y + z + k + active + w
        /\ b = x + 4 * n + y1 + z1 + k1 + m + w1
    BY <1>s, <1>f
  <2>2. y1 + z1 + k1 + m + w1 < y + z + k + active + w
    BY <1>f
  <2>3. /\ n \in Nat /\ k \in Nat /\ k1 \in Nat /\ x \in Nat /\ m \in Nat
        /\ active \in Nat
        /\ y \in Nat /\ z \in Nat /\ w \in Nat /\ y1 \in Nat /\ z1 \in Nat /\ w1 \in Nat
    BY <1>t, <1>p, <1>x, <1>y
  <2> HIDE DEF n, n1, k, k1, x, x1, y, y1, z, z1, w, w1, m, a, b
  <2>4. b < a  BY <2>1, <2>2, <2>3
  <2> QED  BY <2>4 DEF a, b
<1>1. CASE CopyByte
  <2>1. /\ rpc = "read" /\ rpc' \in {"read", "fork"} /\ UNCHANGED <<offset, eof, active>>
        /\ url' # <<>>
    BY <1>1, Copied DEF CopyByte, Typed
  <2>2. k1 = k  BY <1>1 DEF CopyByte, Alive
  <2>3. n1 = n - 1  BY <1>1, Copied DEF Typed
  <2>4. x1 = x /\ y1 = 3 /\ z1 = z /\ w1 = w /\ active' = active
    BY <2>1
  <2> HIDE DEF n, n1, k, k1, x, x1, y, y1, z, z1, w, w1
  <2> QED  BY <1>t, <1>x, <1>y, <1>s, <2>2, <2>3, <2>4
<1>2. CASE FillBuffer
  <2>1. /\ rpc = "read" /\ rpc' = "read" /\ ~eof /\ buffer = <<>>
        /\ UNCHANGED <<active, url, eof>>
    BY <1>2 DEF FillBuffer, ParentGoto
  <2>2. k1 = k  BY <1>2 DEF FillBuffer, Alive
  <2>3. n = 0 /\ n1 = offset' - offset /\ offset' > offset
    BY <1>2, <2>1, Filled DEF Typed
  <2> DEFINE o == offset  o1 == offset'
  <2>4. /\ x = 5 * (Size - o) + 1 /\ x1 = 5 * (Size - o1) + 1 /\ n = 0 /\ n1 = o1 - o
        /\ y1 = y /\ z1 = z /\ w1 = w /\ active' = active
    BY <2>1, <2>3
  <2>5. o \in Nat /\ o1 \in Nat /\ o1 > o  BY <1>t, <1>p, <2>3
  <2> HIDE DEF n, n1, k, k1, x, x1, y, y1, z, z1, w, w1, o, o1
  <2>6. x1 + 4 * n1 < x + 4 * n  BY <1>t, <2>4, <2>5
  <2> QED  BY <1>t, <1>p, <1>x, <1>y, <1>s, <2>2, <2>4, <2>6
<1>3. CASE ReadEnd
  <2>1. /\ rpc = "read" /\ (eof \/ offset = Size) /\ eof'
        /\ rpc' = IF url # <<>> THEN "fork" ELSE "test"
        /\ UNCHANGED <<offset, buffer, url, active>>
    BY <1>3 DEF ReadEnd
  <2>2. k1 = k  BY <1>3 DEF ReadEnd, Alive
  <2>3. eof => url = <<>>  BY <2>1 DEF Typed, CountersInv
  <2>4. n1 = n /\ y1 = y /\ w1 = w /\ w1 = 1 /\ active' = active
    BY <2>1
  <2>5. x1 = 0  BY <2>1
  <2>6. CASE eof
    <3>1. x = 0 /\ z = 1 /\ z1 = 0  BY <2>1, <2>3, <2>6
    <3> HIDE DEF n, n1, k, k1, x, x1, y, y1, z, z1, w, w1
    <3> QED  BY <1>t, <1>x, <1>y, <1>s, <2>2, <2>4, <2>5, <3>1
  <2>7. CASE ~eof
    <3>1. x = 5 * (Size - Size) + 1 /\ z = 1  BY <2>1, <2>7
    <3>2. x = 1  BY <1>t, <3>1
    <3> HIDE DEF n, n1, k, k1, x, x1, y, y1, z, z1, w, w1
    <3> QED  BY <1>t, <1>x, <1>y, <1>s, <2>2, <2>4, <2>5, <3>1, <3>2
  <2> QED  BY <2>6, <2>7
<1>4. ASSUME NEW c \in Children, Fork(c) PROVE ToGo' < ToGo
  <2>1. /\ rpc = "fork" /\ rpc' = "read" /\ active' = active + 1
        /\ c = index + 1 /\ child' = [child EXCEPT ![c] = "decode"]
        /\ UNCHANGED <<offset, buffer, eof>> /\ url' = <<>>
    BY <1>4 DEF Fork, ParentGoto
  <2>2. c \notin Alive
    <3>1. index \in Nat  BY DEF Typed, TypeOK
    <3> QED  BY <2>1, <3>1 DEF ActiveInv, Alive
  <2>3. Alive' = Alive \cup {c}  BY <1>t, <2>1 DEF Alive
  <2>4. k1 = k + 1  BY <2>2, <2>3, AliveFinite, FS_AddElement
  <2>5. url # <<>>  BY <2>1 DEF Typed, CountersInv
  <2>6. /\ x1 = x /\ n1 = n /\ y = 3 /\ y1 = 0 /\ z = 1 /\ z1 = 1 /\ w = 1 /\ w1 = 1
    BY <2>1, <2>5
  <2>7. y1 + z1 + k1 + active' + w1 < y + z + k + active + w
    <3> HIDE DEF n, n1, k, k1, x, x1, y, y1, z, z1, w, w1
    <3> QED  BY <1>t, <2>1, <2>4, <2>6
  <2> QED  BY <1>f, <2>6, <2>7
<1>5. CASE ForkFails
  <2>1. /\ rpc = "fork" /\ rpc' = "read" /\ url' = <<>>
        /\ UNCHANGED <<offset, buffer, eof, active, child>>
    BY <1>5 DEF ForkFails, ParentGoto
  <2>2. url # <<>>  BY <2>1 DEF Typed, CountersInv
  <2>3. /\ x1 = x /\ n1 = n /\ y = 3 /\ y1 = 0 /\ z = 1 /\ z1 = 1 /\ w = 1 /\ w1 = 1
    BY <2>1, <2>2
  <2>4. k1 = k  BY <2>1 DEF Alive
  <2>5. y1 + z1 + k1 + active' + w1 < y + z + k + active + w
    <3> HIDE DEF n, n1, k, k1, x, x1, y, y1, z, z1, w, w1
    <3> QED  BY <1>t, <2>1, <2>3, <2>4
  <2> QED  BY <1>f, <2>3, <2>5
<1>6. CASE CheckRound
  <2>1. /\ rpc = "test" /\ rpc' = "test" /\ active > 0 /\ active' = active - 1
        /\ UNCHANGED <<offset, buffer, url, eof>>
    BY <1>6 DEF CheckRound, ParentGoto, fileVars
  <2>2. Alive' = Alive
    <3>1. child' = child \/ \E c \in Zombies : child' = [child EXCEPT ![c] = "reaped"]
      BY <1>6 DEF CheckRound
    <3> QED  BY <1>t, <3>1 DEF Alive, Zombies
  <2>3. k1 = k /\ x1 = x /\ n1 = n /\ y1 = y /\ z1 = z /\ w1 = w  BY <2>1, <2>2
  <2>4. y1 + z1 + k1 + active' + w1 < y + z + k + active + w
    <3> HIDE DEF n, n1, k, k1, x, x1, y, y1, z, z1, w, w1
    <3> QED  BY <1>t, <1>y, <2>1, <2>3
  <2> QED  BY <1>f, <2>3, <2>4
<1>7. CASE CheckEnd
  <2>1. /\ rpc = "test" /\ rpc' = "done"
        /\ UNCHANGED <<offset, buffer, url, eof, active, child>>
    BY <1>7 DEF CheckEnd, ParentGoto, fileVars
  <2>2. k1 = k  BY <2>1 DEF Alive
  <2>3. x1 = x /\ n1 = n /\ y1 = y /\ z = 0 /\ z1 = 0 /\ w = 1 /\ w1 = 0  BY <2>1
  <2>4. y1 + z1 + k1 + active' + w1 < y + z + k + active + w
    <3> HIDE DEF n, n1, k, k1, x, x1, y, y1, z, z1, w, w1
    <3> QED  BY <1>t, <1>y, <2>1, <2>2, <2>3
  <2> QED  BY <1>f, <2>3, <2>4
<1>8. ASSUME NEW c \in Children, ChildExit(c) \/ ChildCrash(c)
      PROVE  ToGo' < ToGo \/ (~eof /\ offset' < offset)
  <2>1. /\ child[c] = "decode" /\ child' = [child EXCEPT ![c] = "zombie"]
        /\ UNCHANGED <<rpc, active, buffer, url, eof>>
    BY <1>8 DEF ChildExit, ChildCrash, fileVars
  <2>2. k1 = k - 1  BY <2>1, OneLess
  <2>3. offset' <= offset  BY OtherSteps, <1>8
  <2>4. n1 = n /\ y1 = y /\ z1 = z /\ w1 = w  BY <2>1
  <2>5. CASE eof \/ offset' = offset
    <3>1. x1 = x  BY <2>1, <2>5
    <3>2. y1 + z1 + k1 + active' + w1 < y + z + k + active + w
      <4>1. active' = active  BY <2>1
      <4> HIDE DEF n, n1, k, k1, x, x1, y, y1, z, z1, w, w1
      <4> QED  BY <1>t, <1>y, <2>2, <2>4, <4>1
    <3> QED  BY <1>f, <2>4, <3>1, <3>2
  <2>6. CASE ~eof /\ offset' # offset
    <3> DEFINE o1 == offset'
    <3>1. o1 \in Int /\ offset \in Int /\ o1 <= offset /\ o1 # offset
      BY <1>t, <1>p, <2>3, <2>6
    <3> HIDE DEF o1
    <3>2. o1 < offset  BY <3>1
    <3> QED  BY <2>6, <3>2 DEF o1
  <2> QED  BY <2>5, <2>6
<1> QED
  BY <1>1, <1>2, <1>3, <1>4, <1>5, <1>6, <1>7, <1>8 DEF Next, ParentStep

(* The parent comes to its end: ParentEnds but for fairness, for a file of *)
(* any length with its newlines anywhere and a buffer of any size. The     *)
(* only thing that can keep it going round is a child that ends while it   *)
(* reads.                                                                  *)
THEOREM ComesToEnd == Spec => NearsEnd
<1>1. Typed /\ Typed' /\ ActiveInv /\ ToGoInv /\ ToGoInv' /\ [Next]_vars
         => [/\ ToGo \in Nat /\ ToGo' \in Nat
             /\ ToGo' < ToGo \/ (~eof /\ offset' < offset)]_vars
  BY NextNearer DEF ToGoInv
<1>2. Typed => ToGoInv  BY ToGoNat
<1> QED  BY <1>1, <1>2, ActiveHolds, PTL DEF Spec, NearsEnd

=============================================================================
