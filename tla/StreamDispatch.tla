---------------------------- MODULE StreamDispatch ----------------------------
(***************************************************************************)
(* demo_stream_decoding.c as a set of processes. The parent reads stream   *)
(* addresses line by line from a file and forks one child for each; then   *)
(* it waits for all of them. It has one thread, so `active` is exact.      *)
(*                                                                         *)
(* The FILE is shared by fork: parent and children have a buffer each and  *)
(* one file offset together. exit() in a child gives the part of the file  *)
(* that its buffer has not used back to the offset, by a relative lseek    *)
(* (glibc; POSIX asks for it). The buffer holds bytes: it mostly ends in   *)
(* the middle of a line. A byte is named by its place in the file; what    *)
(* matters of it is whether it is a newline.                               *)
(***************************************************************************)
EXTENDS Naturals, Sequences, FiniteSets

CONSTANTS Size,       (* bytes in the input file                           *)
          Ends,       (* those of them that are newlines                   *)
          BufBytes,   (* size of the stdio buffer                          *)
          UrlBytes,   (* most that fgets returns, 1019 in the code         *)
          MaxForks    (* bound: processes the parent may ever fork         *)

VARIABLES rpc,      (* where the parent is                                 *)
          offset,   (* bytes before the shared file offset                 *)
          buffer,   (* bytes in the parent's buffer, not yet used          *)
          url,      (* bytes that fgets has copied, a newline included     *)
          eof,      (* the FILE has met the end of the file; it keeps that *)
          active,   (* dctx->active                                        *)
          index,    (* dctx->index                                         *)
          child,    (* what each child does                                *)
          unread,   (* bytes in each child's copy of the buffer            *)
          job,      (* the address each child was forked with              *)
          skipped,  (* history: addresses whose fork failed                *)
          rewound   (* history: a child moved the offset before the parent *)
                    (* had met the end of the file                         *)

fileVars == <<offset, buffer, url, eof>>
vars == <<rpc, fileVars, active, index, child, unread, job, skipped, rewound>>

(* Children are numbered in the order they are forked in. *)
Children == 1 .. MaxForks

ASSUME FileAssumption == Size \in Nat /\ Ends \subseteq 1 .. Size

ASSUME BoundsAssumption ==
    BufBytes \in Nat \ {0} /\ UrlBytes \in Nat \ {0} /\ MaxForks \in Nat

Init == /\ rpc = "read"
        /\ offset = 0 /\ buffer = <<>> /\ url = <<>> /\ eof = FALSE
        /\ active = 0
        /\ index = 0
        /\ child = [c \in Children |-> "unborn"]
        /\ unread = [c \in Children |-> 0]
        /\ job = [c \in Children |-> <<>>]
        /\ skipped = {}
        /\ rewound = FALSE

Alive    == {c \in Children : child[c] = "decode"}
Zombies  == {c \in Children : child[c] = "zombie"}
Unreaped == Alive \cup Zombies

ParentGoto(from, to) == rpc = from /\ rpc' = to

(* fgets takes the next byte of the buffer, and returns after a newline or *)
(* when url is full.                                                       *)
CopyByte == /\ rpc = "read"
            /\ buffer # <<>>
            /\ url' = Append(url, Head(buffer))
            /\ buffer' = Tail(buffer)
            /\ rpc' = IF Head(buffer) \in Ends \/ Len(url') = UrlBytes
                      THEN "fork" ELSE "read"
            /\ UNCHANGED <<offset, eof, active, index, child, unread, job,
                           skipped, rewound>>

(* What one read brings from where the offset is. *)
EndOfRead == IF offset + BufBytes < Size THEN offset + BufBytes ELSE Size

(* Mutant: the buffer is filled from one byte too far on. *)
FillSkipping == /\ ParentGoto("read", "read")
                /\ buffer = <<>> /\ ~eof /\ offset < Size
                /\ buffer' = [i \in 1 .. EndOfRead - offset |->
                                 IF offset + i < Size THEN offset + i + 1 ELSE Size]
                /\ offset' = EndOfRead
                /\ UNCHANGED <<url, eof, active, index, child, unread, job,
                               skipped, rewound>>

(* Mutant: read does not move the offset. *)
FillInPlace == /\ ParentGoto("read", "read")
               /\ buffer = <<>> /\ ~eof /\ offset < Size
               /\ buffer' = [i \in 1 .. EndOfRead - offset |-> offset + i]
               /\ UNCHANGED <<offset, url, eof, active, index, child, unread, job,
                              skipped, rewound>>

(* fgets on an empty buffer, perhaps in the middle of a line: read from    *)
(* the shared offset on.                                                   *)
FillBuffer == /\ ParentGoto("read", "read")
              /\ buffer = <<>> /\ ~eof /\ offset < Size
              /\ buffer' = [i \in 1 .. EndOfRead - offset |-> offset + i]
              /\ offset' = EndOfRead
              /\ UNCHANGED <<url, eof, active, index, child, unread, job,
                             skipped, rewound>>

(* read brings nothing: fgets returns what it has, if anything; the next   *)
(* time it returns NULL without a read.                                    *)
ReadEnd == /\ rpc = "read"
           /\ buffer = <<>> /\ (eof \/ offset = Size)
           /\ eof' = TRUE
           /\ rpc' = IF url # <<>> THEN "fork" ELSE "test"
           /\ UNCHANGED <<offset, buffer, url, active, index, child, unread, job,
                          skipped, rewound>>

(* Mutant: the child is counted where it cannot be: in its own memory. *)
ForkUncounted(c) == /\ ParentGoto("fork", "read")
                    /\ c = index + 1
                    /\ child' = [child EXCEPT ![c] = "decode"]
                    /\ unread' = [unread EXCEPT ![c] = Len(buffer)]
                    /\ job' = [job EXCEPT ![c] = url]
                    /\ url' = <<>>
                    /\ index' = index + 1
                    /\ UNCHANGED <<offset, buffer, eof, active, skipped, rewound>>

Fork(c) == /\ ParentGoto("fork", "read")
           /\ c = index + 1
           /\ child' = [child EXCEPT ![c] = "decode"]
           /\ unread' = [unread EXCEPT ![c] = Len(buffer)]
           /\ job' = [job EXCEPT ![c] = url]
           /\ url' = <<>>
           /\ active' = active + 1
           /\ index' = index + 1
           /\ UNCHANGED <<offset, buffer, eof, skipped, rewound>>

(* "Failed to fork.": the address is passed over. *)
ForkFails == /\ ParentGoto("fork", "read")
             /\ skipped' = skipped \cup {url}
             /\ url' = <<>>
             /\ UNCHANGED <<offset, buffer, eof, active, index, child, unread, job,
                            rewound>>

(* Mutant: a dead child is still counted. *)
RoundUncounted == /\ ParentGoto("test", "test")
                  /\ active > 0
                  /\ \E c \in Zombies : child' = [child EXCEPT ![c] = "reaped"]
                  /\ UNCHANGED <<fileVars, active, index, unread, job, skipped,
                                 rewound>>

(* check_thread, called by main: rounds of waitpid(-1, WNOHANG) until no   *)
(* child is active. It returns a dead child, 0 (nothing changes), or -1    *)
(* without children: active goes down then, too.                           *)
CheckRound == /\ ParentGoto("test", "test")
              /\ active > 0
              /\ child' \in IF Unreaped = {} THEN {child}
                            ELSE {[child EXCEPT ![c] = "reaped"] : c \in Zombies}
              /\ active' = active - 1
              /\ UNCHANGED <<fileVars, index, unread, job, skipped, rewound>>

(* check_thread breaks; main has nothing left to wait for. *)
CheckEnd == /\ ParentGoto("test", "done")
            /\ active = 0
            /\ UNCHANGED <<fileVars, active, index, child, unread, job, skipped,
                           rewound>>

ParentStep == \/ CopyByte \/ FillBuffer \/ ReadEnd
              \/ \E c \in Children : Fork(c)
              \/ CheckRound \/ CheckEnd

(* The decode is over: exit(EXIT_SUCCESS), with its relative lseek.        *)
ChildExit(c) == /\ child[c] = "decode"
                /\ child' = [child EXCEPT ![c] = "zombie"]
                /\ offset' = IF unread[c] <= offset THEN offset - unread[c]
                             ELSE offset
                /\ rewound' = (rewound \/ (~eof /\ offset' # offset))
                /\ UNCHANGED <<rpc, buffer, url, eof, active, index, unread, job,
                               skipped>>

ChildCrash(c) == /\ child[c] = "decode"
                 /\ child' = [child EXCEPT ![c] = "zombie"]
                 /\ UNCHANGED <<rpc, fileVars, active, index, unread, job, skipped,
                                rewound>>

Next == \/ ParentStep \/ ForkFails
        \/ \E c \in Children : ChildExit(c) \/ ChildCrash(c)

Spec == Init /\ [][Next]_vars

(* The parent runs; every child's decode ends (see DecodeSession).         *)
FairSpec == /\ Spec
            /\ WF_vars(ParentStep)
            /\ \A c \in Children : WF_vars(ChildExit(c))

-----------------------------------------------------------------------------
(* Type invariant. *)
TypeOK == /\ rpc \in {"read", "fork", "test", "done"}
          /\ offset \in 0 .. Size
          /\ buffer \in Seq(1 .. Size)
          /\ url \in Seq(1 .. Size) /\ Len(url) <= UrlBytes
          /\ eof \in BOOLEAN
          /\ active \in 0 .. MaxForks
          /\ index \in 0 .. MaxForks
          /\ child \in [Children -> {"unborn", "decode", "zombie", "reaped"}]
          /\ unread \in [Children -> Nat]
          /\ job \in [Children -> Seq(1 .. Size)]
          /\ skipped \subseteq Seq(1 .. Size)
          /\ rewound \in BOOLEAN

(* What the parent tried to have decoded. *)
Given == {job[c] : c \in 1 .. index}
Tried == Given \cup skipped

BytesOf(text) == {text[i] : i \in DOMAIN text}

(* An address: a line of the file that fgets can return at once.           *)
Between(first, end) == [i \in 1 .. end - first + 1 |-> first + i - 1]

IsLine(first, end) ==
    /\ first <= end /\ end - first < UrlBytes
    /\ first = 1 \/ first - 1 \in Ends
    /\ end = Size \/ end \in Ends
    /\ \A n \in first .. end - 1 : n \notin Ends

(* When the parent stops reading, every byte of the file was in an address *)
(* given to a child, or one whose fork failed; and every line of the file  *)
(* was such an address, whole and alone, however it lies in the buffer,    *)
(* unless a child moved the offset back.                                   *)
EveryLineTried ==
    rpc \in {"test", "done"} =>
       /\ \A n \in 1 .. Size : \E text \in Tried : n \in BytesOf(text)
       /\ rewound \/ \A first, end \in 1 .. Size :
                        IsLine(first, end) => Between(first, end) \in Tried

(* Addresses are given to children in the order of the file, and no part   *)
(* of one to two of them, unless a child ended before the parent had read  *)
(* the file.                                                               *)
OnceUnlessRewound ==
    rewound \/ \A c, d \in Children : c < d =>
                  \A m \in BytesOf(job[c]), n \in BytesOf(job[d]) : m < n

(* The parent ends after its last child. *)
WaitsForAll == /\ active = Cardinality(Unreaped)
               /\ rpc = "done" => Unreaped = {}

(* The parent ends once its children have, if none ended while it read.    *)
ParentEnds == <>(rpc = "done" \/ rewound)

(* How many steps the processes have before them at most: five for every   *)
(* byte still in the file (to be read, copied, given to a child, decoded   *)
(* and waited for), fewer for those that are further on.                   *)
ToGo == (IF eof THEN 0 ELSE 5 * (Size - offset) + 1)
        + 4 * Len(buffer)
        + (IF url # <<>> THEN 3 ELSE 0)
        + (IF rpc \in {"read", "fork"} THEN 1 ELSE 0)
        + Cardinality(Alive) + active
        + (IF rpc = "done" THEN 0 ELSE 1)

(* Every step is one of them, but for the exit of a child that moves the   *)
(* offset back while the parent reads: nothing else keeps the parent from  *)
(* its end, and without such an exit there are 5 * Size + 3 steps or less. *)
NearsEnd == [][/\ ToGo \in Nat /\ ToGo' \in Nat
               /\ ToGo' < ToGo \/ (~eof /\ offset' < offset)]_vars

(* usage: "-i input        input file include stream address.": one child  *)
(* for each address in it. False: the exit() of a child has lines read a   *)
(* second time, and in the middle of a line, where fgets has the first     *)
(* part of it, joins this part to the line, which no child gets then.      *)
EachLineOnce ==
    rpc \in {"test", "done"} =>
       \A first, end \in 1 .. Size :
          IsLine(first, end) =>
             \/ Between(first, end) \in skipped
             \/ \E c \in 1 .. index : \A d \in 1 .. index :
                   job[d] = Between(first, end) <=> d = c

=============================================================================
