----------------------------- MODULE CListProofs -----------------------------
(***************************************************************************)
(* TLAPS proofs about CList, for any sets of lists, nodes and values: the  *)
(* rings are whole after every step of every call, the loops stay inside   *)
(* them, and count is the number of nodes one comes to. Rings are described*)
(* without sequences: every allocated cell has an owner, a list, and a set *)
(* closed under next that contains a list contains all that it owns.       *)
(* In the second part they are sequences: what is read from a ring is the  *)
(* same, whichever fields are read, and every call does to the sequence of *)
(* items what Deque says. Inductions there are over sets of numbers        *)
(* (LeastNat).                                                             *)
(***************************************************************************)
EXTENDS CList, FiniteSetTheorems, SequenceTheorems, WellFoundedInduction, TLAPS

Fields == [next : [Cells -> Cells \cup {Null}], prev : [Cells -> Cells \cup {Null}]]

Owned(A, own, l) == {node \in Nodes \cap A : own[node] = l}

Paired(k, A) == \A c \in A : /\ k.next[c] \in A
                              /\ k.prev[c] \in A
                              /\ k.prev[k.next[c]] = c
                              /\ k.next[k.prev[c]] = c

Owners(k, A, own) == /\ own \in [Cells -> Lists \cup {Null}]
                     /\ \A c \in A : own[c] \in Lists \cap A /\ own[k.next[c]] = own[c]
                     /\ \A l \in Lists \cap A : own[l] = l

Closed(k, S) == \A c \in S : k.next[c] \in S

Connected(k, A, own) == \A S \in SUBSET A : Closed(k, S) =>
                           \A c \in A : own[c] \in S => c \in S

(* The cells of A are in rings, each with the list that owns it in it.     *)
Rings(k, A, own) == /\ A \subseteq Cells
                    /\ Paired(k, A)
                    /\ Owners(k, A, own)
                    /\ Connected(k, A, own)

USE CellsAssumption DEF Cells

-----------------------------------------------------------------------------
(* The node operations. *)

(* Only the fields of the cells in the rings matter. *)
LEMMA SameFields ==
  ASSUME NEW k, NEW m, NEW A, NEW own, Rings(k, A, own),
         \A c \in A : m.next[c] = k.next[c] /\ m.prev[c] = k.prev[c]
  PROVE  Rings(m, A, own)
<1>1. Paired(m, A) /\ Owners(m, A, own)
  BY DEF Rings, Paired, Owners
<1>2. \A S \in SUBSET A : Closed(m, S) => Closed(k, S)
  BY DEF Closed
<1>3. Connected(m, A, own)
  BY <1>2 DEF Rings, Connected
<1> QED  BY <1>1, <1>3 DEF Rings

LEMMA FieldsStay ==
  ASSUME NEW k \in Fields, NEW head \in Cells, NEW node \in Cells
  PROVE  /\ k.next[head] \in Cells => Inserted(k, head, node) \in Fields
         /\ k.next[node] \in Cells /\ k.prev[node] \in Cells => Erased(k, node) \in Fields
         /\ Forgotten(k, node) \in Fields
<1>1. k.next \in [Cells -> Cells \cup {Null}] /\ k.prev \in [Cells -> Cells \cup {Null}]
  BY DEF Fields
<1>2. ASSUME k.next[head] \in Cells PROVE Inserted(k, head, node) \in Fields
  BY <1>1, <1>2 DEF Inserted, Fields
<1>3. ASSUME k.next[node] \in Cells, k.prev[node] \in Cells
      PROVE  Erased(k, node) \in Fields
  BY <1>1, <1>3 DEF Erased, Fields
<1>4. Forgotten(k, node) \in Fields
  BY <1>1 DEF Forgotten, Fields
<1> QED  BY <1>2, <1>3, <1>4

(* A node taken out leaves rings behind. *)
LEMMA EraseKeeps ==
  ASSUME NEW k \in Fields, NEW A, NEW own, Rings(k, A, own), NEW node \in Nodes \cap A
  PROVE  Rings(Erased(k, node), A \ {node}, own)
<1> DEFINE e == Erased(k, node)
           B == A \ {node}
           behind == k.prev[node]
           after == k.next[node]
<1>t. /\ k.next \in [Cells -> Cells \cup {Null}] /\ k.prev \in [Cells -> Cells \cup {Null}]
      /\ A \subseteq Cells /\ node \in Cells /\ behind \in A /\ after \in A
      /\ own \in [Cells -> Lists \cup {Null}]
  BY DEF Fields, Rings, Paired, Owners
<1>1. /\ \A c \in Cells : e.next[c] = IF c = behind THEN after ELSE k.next[c]
      /\ \A c \in Cells : e.prev[c] = IF c = after THEN behind ELSE k.prev[c]
  BY <1>t DEF Erased
<1>i. \A c \in A : /\ k.next[c] \in A /\ k.prev[c] \in A
                   /\ k.prev[k.next[c]] = c /\ k.next[k.prev[c]] = c
  BY DEF Rings, Paired
<1>o. /\ \A c \in A : own[c] \in Lists \cap A /\ own[k.next[c]] = own[c]
      /\ \A l \in Lists \cap A : own[l] = l
  BY DEF Rings, Owners
<1> HIDE DEF e
<1>2. Paired(e, B)
  <2> SUFFICES ASSUME NEW c \in B
               PROVE  /\ e.next[c] \in B /\ e.prev[c] \in B
                      /\ e.prev[e.next[c]] = c /\ e.next[e.prev[c]] = c
    BY DEF Paired
  <2>1. e.next[c] \in B /\ e.prev[e.next[c]] = c
    <3>1. CASE c = behind  BY <3>1, <1>t, <1>1, <1>i
    <3>2. CASE c # behind  BY <3>2, <1>t, <1>1, <1>i
    <3> QED  BY <3>1, <3>2
  <2>2. e.prev[c] \in B /\ e.next[e.prev[c]] = c
    <3>1. CASE c = after  BY <3>1, <1>t, <1>1, <1>i
    <3>2. CASE c # after  BY <3>2, <1>t, <1>1, <1>i
    <3> QED  BY <3>1, <3>2
  <2> QED  BY <2>1, <2>2
<1>3. Owners(e, B, own)
  <2>1. \A c \in B : own[c] \in Lists \cap B
    BY <1>t, <1>o
  <2>2. own[after] = own[node] /\ own[node] = own[behind]
    BY <1>t, <1>i, <1>o
  <2>3. \A c \in B : own[e.next[c]] = own[c]
    BY <1>t, <1>1, <1>o, <2>2
  <2> QED  BY <1>t, <1>o, <2>1, <2>3 DEF Owners
<1>4. Connected(e, B, own)
  <2> SUFFICES ASSUME NEW S \in SUBSET B, Closed(e, S), NEW c \in B, own[c] \in S
               PROVE  c \in S
    BY DEF Connected
  <2>1. CASE behind \in S
    <3>1. Closed(k, S \cup {node})
      <4>1. after \in S
        BY <2>1, <1>t, <1>1 DEF Closed
      <4>2. \A d \in S : d # behind => k.next[d] \in S
        BY <1>t, <1>1 DEF Closed
      <4> QED  BY <4>1, <4>2, <1>t, <1>i DEF Closed
    <3>2. S \cup {node} \in SUBSET A  OBVIOUS
    <3> QED  BY <3>1, <3>2 DEF Rings, Connected
  <2>2. CASE behind \notin S
    <3>1. Closed(k, S)
      BY <2>2, <1>t, <1>1 DEF Closed
    <3> QED  BY <3>1 DEF Rings, Connected
  <2> QED  BY <2>1, <2>2
<1> QED  BY <1>t, <1>2, <1>3, <1>4 DEF Rings, e

(* A node put in behind head joins its ring. *)
LEMMA InsertKeeps ==
  ASSUME NEW k \in Fields, NEW A, NEW own, Rings(k, A, own), NEW head \in A,
         NEW node \in Nodes \ A
  PROVE  Rings(Inserted(k, head, node), A \cup {node}, [own EXCEPT ![node] = own[head]])
<1> DEFINE e == Inserted(k, head, node)
           B == A \cup {node}
           after == k.next[head]
           new == [own EXCEPT ![node] = own[head]]
<1>t. /\ k.next \in [Cells -> Cells \cup {Null}] /\ k.prev \in [Cells -> Cells \cup {Null}]
      /\ A \subseteq Cells /\ node \in Cells /\ after \in A
      /\ own \in [Cells -> Lists \cup {Null}] /\ node \notin Lists
  BY DEF Fields, Rings, Paired, Owners
<1>i. \A c \in A : /\ k.next[c] \in A /\ k.prev[c] \in A
                   /\ k.prev[k.next[c]] = c /\ k.next[k.prev[c]] = c
  BY DEF Rings, Paired
<1>o. /\ \A c \in A : own[c] \in Lists \cap A /\ own[k.next[c]] = own[c]
      /\ \A l \in Lists \cap A : own[l] = l
  BY DEF Rings, Owners
<1>n. /\ new \in [Cells -> Lists \cup {Null}] /\ new[node] = own[head]
      /\ \A c \in A : new[c] = own[c]
  BY <1>t
<1>1. /\ \A c \in A : e.next[c] = IF c = head THEN node ELSE k.next[c]
      /\ \A c \in A : e.prev[c] = IF c = after THEN node ELSE k.prev[c]
      /\ e.next[node] = after /\ e.prev[node] = head
  <2>1. e.next = [k.next EXCEPT ![head] = node, ![node] = after]
        /\ e.prev = [k.prev EXCEPT ![after] = node, ![node] = head]
    BY DEF Inserted
  <2> HIDE DEF e, after
  <2> QED  BY <1>t, <2>1
<1> HIDE DEF e, new
<1>2. Paired(e, B)
  <2> SUFFICES ASSUME NEW c \in B
               PROVE  /\ e.next[c] \in B /\ e.prev[c] \in B
                      /\ e.prev[e.next[c]] = c /\ e.next[e.prev[c]] = c
    BY DEF Paired
  <2>1. CASE c = node  BY <2>1, <1>t, <1>1, <1>i
  <2>2. CASE c # node
    <3>1. c \in A  BY <2>2
    <3>2. e.next[c] \in B /\ e.prev[e.next[c]] = c
      <4>1. CASE c = head  BY <4>1, <3>1, <1>t, <1>1
      <4>2. CASE c # head  BY <4>2, <3>1, <1>t, <1>1, <1>i
      <4> QED  BY <4>1, <4>2
    <3>3. e.prev[c] \in B /\ e.next[e.prev[c]] = c
      <4>1. CASE c = after  BY <4>1, <3>1, <1>t, <1>1
      <4>2. CASE c # after  BY <4>2, <3>1, <1>t, <1>1, <1>i
      <4> QED  BY <4>1, <4>2
    <3> QED  BY <3>2, <3>3
  <2> QED  BY <2>1, <2>2
<1>3. Owners(e, B, new)
  <2>1. \A c \in B : new[c] \in Lists \cap B
    BY <1>t, <1>o, <1>n
  <2>2. new[e.next[node]] = new[node]
    BY <1>t, <1>1, <1>o, <1>n
  <2>3. \A c \in A : new[e.next[c]] = new[c]
    BY <1>t, <1>1, <1>o, <1>n, <1>i
  <2>4. \A l \in Lists \cap B : new[l] = l
    BY <1>t, <1>o, <1>n
  <2> QED  BY <2>1, <2>2, <2>3, <2>4, <1>n DEF Owners
<1>4. Connected(e, B, new)
  <2> SUFFICES ASSUME NEW S \in SUBSET B, Closed(e, S), NEW c \in B, new[c] \in S
               PROVE  c \in S
    BY DEF Connected
  <2> DEFINE T == S \cap A
  <2>1. Closed(k, T)
    <3> SUFFICES ASSUME NEW d \in T PROVE k.next[d] \in T
      BY DEF Closed
    <3>1. CASE d = head
      <4>1. node \in S  BY <3>1, <1>1 DEF Closed
      <4>2. after \in S  BY <4>1, <1>1 DEF Closed
      <4> QED  BY <3>1, <4>2, <1>t
    <3>2. CASE d # head
      BY <3>2, <1>1, <1>i DEF Closed
    <3> QED  BY <3>1, <3>2
  <2>2. \A d \in A : own[d] \in S => d \in S
    <3>1. \A d \in A : own[d] \in T => d \in T
      BY <2>1 DEF Rings, Connected
    <3> QED  BY <3>1, <1>o
  <2>3. CASE c = node
    <3>1. head \in S  BY <2>2, <2>3, <1>n
    <3> QED  BY <3>1, <2>3, <1>1 DEF Closed
  <2>4. CASE c # node  BY <2>2, <2>4, <1>n
  <2> QED  BY <2>3, <2>4
<1> QED  BY <1>t, <1>2, <1>3, <1>4 DEF Rings, e, new

(* A list whose first cell is itself owns nothing, and the other way       *)
(* around; what is next to it is one of its nodes otherwise.               *)
LEMMA EmptyRing ==
  ASSUME NEW k, NEW A, NEW own, Rings(k, A, own), NEW l \in Lists \cap A
  PROVE  /\ k.next[l] = l <=> Owned(A, own, l) = {}
         /\ k.prev[l] = l <=> Owned(A, own, l) = {}
         /\ k.next[l] # l => k.next[l] \in Owned(A, own, l)
         /\ k.prev[l] # l => k.prev[l] \in Owned(A, own, l)
<1>1. own[l] = l /\ k.next[l] \in A /\ own[k.next[l]] = l
      /\ k.prev[l] \in A /\ own[k.prev[l]] = l
      /\ k.next[k.prev[l]] = l /\ k.prev[k.next[l]] = l
  BY DEF Rings, Paired, Owners
<1>2. \A c \in A : own[c] = l /\ c # l => c \in Owned(A, own, l)
  BY DEF Rings, Owners, Owned
<1>3. ASSUME k.next[l] = l, NEW c \in Owned(A, own, l) PROVE FALSE
  <2>1. Closed(k, {l})  BY <1>3 DEF Closed
  <2>2. c \in {l}  BY <2>1 DEF Rings, Connected, Owned
  <2> QED  BY <2>2 DEF Owned
<1> QED  BY <1>1, <1>2, <1>3


-----------------------------------------------------------------------------
(* The invariant. *)

(* What the arguments are, and which call is in which loop. *)
CallInv ==
    /\ loop.pc = "start" => loop = NotLooping
    /\ loop.pc # "start" => request # Null
    /\ request # Null =>
          /\ request.on \in Lists
          /\ request.op = "alloc" <=> request.on \notin live
          /\ request.op = "alloc" => request.arg \in Sizes
          /\ request.op \in {"push_back", "push_front"} => request.arg \in Vals
          /\ request.op = "assign" => /\ request.arg.array \in Seq(Vals)
                                      /\ request.arg.last \in 1 .. Len(request.arg.array) + 1
          /\ request.op = "copy" => request.arg \in (Lists \cap live) \ {request.on}
    /\ loop.pc = "clear" => request.op \in {"clear", "free", "assign", "copy"}
    /\ loop.pc = "cleared" => request.op \in {"free", "assign", "copy"}
    /\ loop.pc = "remove" => request.op = "remove"
    /\ loop.pc = "reverse" => request.op = "reverse"
    /\ loop.pc \in {"clear", "cleared"} /\ request.op = "assign" =>
          loop.pos <= request.arg.last

(* In the middle of clear the count of its target is what it was. *)
CountInv(own) ==
    \A l \in Lists \cap live :
       \/ loop.pc = "clear" /\ l = Target
       \/ /\ IsFiniteSet(Owned(live, own, l))
          /\ count[l] = Cardinality(Owned(live, own, l))

(* The loops stay in the ring of their list; clear frees its first node.   *)
LoopInv(own) ==
    /\ loop.pc = "clear" => loop.scan = links.next[Target]
    /\ loop.pc = "cleared" /\ request.op = "free" => count[request.on] = 0
    /\ \/ loop.pc \in {"remove", "reverse"}
       \/ loop.pc \in {"clear", "cleared"} /\ request.op = "copy"
       => loop.node \in live /\ own[loop.node] = request.on

Shape(own) == Rings(links, live, own) /\ CountInv(own) /\ LoopInv(own)

IInv == TypeOK /\ CallInv /\ \E own : Shape(own)

LEMMA TypeFacts ==
  ASSUME TypeOK
  PROVE  /\ live \subseteq Cells /\ links \in Fields
         /\ links.next \in [Cells -> Cells \cup {Null}]
         /\ links.prev \in [Cells -> Cells \cup {Null}]
BY DEF TypeOK, Fields

(* clist_node_free of a node in a ring. *)
LEMMA FreeNode ==
  ASSUME TypeOK, NEW own, Rings(links, live, own), NEW node \in Nodes \cap live,
         NodeFree(node)
  PROVE  /\ Rings(links', live', own)
         /\ live' = live \ {node} /\ live' \subseteq Cells
         /\ links' \in Fields /\ data' \in [Nodes -> Vals \cup {Null}]
         /\ \A l : Owned(live', own, l) = Owned(live, own, l) \ {node}
<1> DEFINE e == Erased(links, node)
<1>t. links \in Fields /\ node \in Cells /\ live' = live \ {node} /\ live \subseteq Cells
  BY TypeFacts DEF NodeFree
<1>1. links.next[node] \in Cells /\ links.prev[node] \in Cells
  BY <1>t DEF Rings, Paired
<1>2. e \in Fields  BY <1>t, <1>1, FieldsStay
<1>3. links' = Forgotten(e, node)  BY DEF NodeFree
<1>4. Rings(e, live \ {node}, own)  BY <1>t, EraseKeeps
<1> HIDE DEF e
<1>5. links' \in Fields  BY <1>t, <1>2, <1>3, FieldsStay
<1>6. \A c \in live \ {node} : links'.next[c] = e.next[c] /\ links'.prev[c] = e.prev[c]
  <2>1. e.next \in [Cells -> Cells \cup {Null}] /\ e.prev \in [Cells -> Cells \cup {Null}]
    BY <1>2 DEF Fields
  <2> QED  BY <1>t, <1>3, <2>1 DEF Forgotten
<1>7. Rings(links', live \ {node}, own)  BY <1>4, <1>6, SameFields
<1>8. data' \in [Nodes -> Vals \cup {Null}]  BY DEF NodeFree, TypeOK
<1> QED  BY <1>t, <1>5, <1>7, <1>8 DEF Owned

(* clist_node_alloc and clist_node_insert behind a cell in a ring. *)
LEMMA AddNode ==
  ASSUME TypeOK, NEW own, Rings(links, live, own), NEW head \in live,
         NEW v \in Vals \cup {Null}, NodeAdd(head, v)
  PROVE  \E new :
         /\ Rings(links', live', new)
         /\ live \subseteq live' /\ live' \subseteq Cells
         /\ \A l \in Lists : l \in live' => l \in live
         /\ links' \in Fields /\ data' \in [Nodes -> Vals \cup {Null}]
         /\ \A c \in live : new[c] = own[c]
         /\ \A l : l # own[head] => Owned(live', new, l) = Owned(live, own, l)
         /\ \E node : /\ node \notin Owned(live, own, own[head])
                      /\ Owned(live', new, own[head]) = Owned(live, own, own[head]) \cup {node}
<1>1. PICK node \in Nodes \ live : /\ links' = Inserted(links, head, node)
                                   /\ data' = [data EXCEPT ![node] = v]
                                   /\ live' = live \cup {node}
  BY DEF NodeAdd
<1> DEFINE new == [own EXCEPT ![node] = own[head]]
<1>t. links \in Fields /\ live \subseteq Cells /\ own \in [Cells -> Lists \cup {Null}]
  BY TypeFacts DEF Rings, Owners
<1>2. Rings(links', live', new)  BY <1>1, <1>t, InsertKeeps
<1>3. links.next[head] \in Cells  BY <1>t DEF Rings, Paired
<1>4. links' \in Fields  BY <1>1, <1>t, <1>3, FieldsStay
<1>5. new[node] = own[head] /\ \A c \in live : new[c] = own[c]
  BY <1>1, <1>t
<1>6. data' \in [Nodes -> Vals \cup {Null}]  BY <1>1 DEF TypeOK
<1> HIDE DEF new
<1>7. \A l : l # own[head] => Owned(live', new, l) = Owned(live, own, l)
  BY <1>1, <1>5 DEF Owned
<1>8. /\ node \notin Owned(live, own, own[head])
      /\ Owned(live', new, own[head]) = Owned(live, own, own[head]) \cup {node}
  BY <1>1, <1>5 DEF Owned
<1>9. live \subseteq live' /\ live' \subseteq Cells /\ \A l \in Lists : l \in live' => l \in live
  BY <1>1, <1>t
<1> QED  BY <1>2, <1>4, <1>5, <1>6, <1>7, <1>8, <1>9

(* What count says of a list that is not being cleared. *)
LEMMA CountOfList ==
  ASSUME NEW own, Shape(own), NEW l \in Lists \cap live, loop.pc # "clear" \/ l # Target
  PROVE  /\ IsFiniteSet(Owned(live, own, l))
         /\ count[l] = Cardinality(Owned(live, own, l))
         /\ count[l] \in Nat
         /\ count[l] = 0 <=> Owned(live, own, l) = {}
         /\ count[l] > 0 => /\ links.next[l] \in Owned(live, own, l)
                            /\ links.prev[l] \in Owned(live, own, l)
<1>1. IsFiniteSet(Owned(live, own, l)) /\ count[l] = Cardinality(Owned(live, own, l))
  BY DEF Shape, CountInv
<1>2. Cardinality(Owned(live, own, l)) \in Nat
      /\ (Cardinality(Owned(live, own, l)) = 0 <=> Owned(live, own, l) = {})
  BY <1>1, FS_CardinalityType, FS_EmptySet
<1>3. Rings(links, live, own)  BY DEF Shape
<1> QED  BY <1>1, <1>2, <1>3, EmptyRing


-----------------------------------------------------------------------------
(* Each step keeps the invariant. *)

LEMMA InitIInv == Init => IInv
<1> SUFFICES ASSUME Init PROVE IInv
  OBVIOUS
<1>1. TypeOK  BY DEF Init, TypeOK, NotLooping
<1>2. CallInv  BY DEF Init, CallInv, NotLooping
<1>3. Shape([c \in Cells |-> Null])
  BY DEF Init, NotLooping, Shape, Rings, Paired, Owners, Connected, CountInv, LoopInv
<1> QED  BY <1>1, <1>2, <1>3 DEF IInv

(* Steps that only move the pointers of the call. *)
LEMMA Onlooking ==
  ASSUME TypeOK, CallInv, NEW own, Shape(own), UNCHANGED heap,
         \/ Caller
         \/ request # Null /\ \/ AllocFails \/ ReturnAtOnce
                              \/ RemoveStart \/ RemovePasses \/ RemoveEnd
                              \/ ClearStart \/ ClearNothing \/ AssignEnd \/ CopyEnd
                              \/ ReverseStart \/ ReverseEnd
  PROVE  IInv'
<1>h. UNCHANGED <<live, links, data, count>>  BY DEF heap
<1>r. Rings(links, live, own)'  BY <1>h DEF Shape
<1>n. \A c \in live : links.next[c] \in live /\ own[links.next[c]] = own[c]
  BY DEF Shape, Rings, Paired, Owners
<1>o. \A l \in Lists \cap live : own[l] = l
  BY DEF Shape, Rings, Owners
<1>c. ASSUME NEW l \in Lists \cap live, loop.pc # "clear" \/ l # Target
      PROVE  /\ IsFiniteSet(Owned(live', own, l)) /\ count'[l] = Cardinality(Owned(live', own, l))
  BY <1>c, <1>h, CountOfList
<1>t. TypeOK /\ links.next \in [Cells -> Cells \cup {Null}] /\ live \subseteq Cells
      /\ own \in [Cells -> Lists \cup {Null}]
  BY TypeFacts DEF Shape, Rings, Owners
<1>1. CASE Caller
  <2>1. ASSUME NEW l \in Lists, NEW op, NEW arg, Invoke(op, l, arg),
               op = "alloc" => arg \in Sizes,
               op \in {"push_back", "push_front"} => arg \in Vals,
               op = "assign" => /\ arg.array \in Seq(Vals)
                                /\ arg.last \in 1 .. Len(arg.array) + 1,
               op = "copy" => arg \in (Lists \cap live) \ {l}
        PROVE  IInv'
    <3>1. /\ request = Null /\ request' = [op |-> op, on |-> l, arg |-> arg]
          /\ op = "alloc" <=> l \notin live
          /\ UNCHANGED <<loop, typesize>>
      BY <2>1 DEF Invoke
    <3>2. loop.pc = "start" /\ loop = NotLooping  BY <3>1 DEF CallInv
    <3>3. TypeOK'  BY <3>1, <1>h, <1>t DEF TypeOK
    <3>4. CallInv'  BY <2>1, <3>1, <3>2, <1>h DEF CallInv
    <3>5. CountInv(own)' /\ LoopInv(own)'
      BY <3>1, <3>2, <1>h, <1>c DEF CountInv, LoopInv
    <3> QED  BY <3>3, <3>4, <3>5, <1>r DEF IInv, Shape
  <2>2. PICK l \in Lists :
           \/ \E size \in Sizes : Invoke("alloc", l, size)
           \/ \E op \in {"free", "clear", "pop_back", "pop_front", "reverse"} :
                 Invoke(op, l, Null)
           \/ \E op \in {"push_back", "push_front", "remove"}, v \in Vals :
                 Invoke(op, l, v)
           \/ \E arg \in AssignArgs : Invoke("assign", l, arg)
           \/ \E t \in (Lists \cap live) \ {l} : Invoke("copy", l, t)
    BY <1>1 DEF Caller
  <2>3. \A arg \in AssignArgs : /\ arg.array \in Seq(Vals)
                                /\ arg.last \in 1 .. Len(arg.array) + 1
    BY DEF AssignArgs
  <2>4. ASSUME NEW size \in Sizes, Invoke("alloc", l, size) PROVE IInv'
    BY <2>1, <2>4
  <2>5. ASSUME NEW op \in {"free", "clear", "pop_back", "pop_front", "reverse"},
               Invoke(op, l, Null)
        PROVE  IInv'
    BY <2>1, <2>5
  <2>6. ASSUME NEW op \in {"push_back", "push_front", "remove"}, NEW v \in Vals,
               Invoke(op, l, v)
        PROVE  IInv'
    BY <2>1, <2>6
  <2>7. ASSUME NEW arg \in AssignArgs, Invoke("assign", l, arg) PROVE IInv'
    BY <2>1, <2>3, <2>7
  <2>8. ASSUME NEW t \in (Lists \cap live) \ {l}, Invoke("copy", l, t) PROVE IInv'
    BY <2>1, <2>8
  <2> QED  BY <2>2, <2>4, <2>5, <2>6, <2>7, <2>8
<1>2. CASE Return /\ UNCHANGED typesize /\ loop.pc # "clear"
  <2>1. TypeOK'  BY <1>2, <1>h, <1>t DEF TypeOK, Return, NotLooping
  <2>2. CallInv'  BY <1>2 DEF CallInv, Return, NotLooping
  <2>3. CountInv(own)' /\ LoopInv(own)'
    BY <1>2, <1>h, <1>c DEF CountInv, LoopInv, Return, NotLooping
  <2> QED  BY <2>1, <2>2, <2>3, <1>r DEF IInv, Shape
<1>3. CASE RemoveStart \/ ReverseStart
  <2>1. /\ request # Null => request.on \in Lists \cap live
        /\ request' = request /\ loop.pc = "start"
        /\ loop' = [loop EXCEPT !.pc = request.op, !.node = links.next[request.on]]
        /\ request # Null /\ request.op \in {"remove", "reverse"}
        /\ UNCHANGED typesize
    BY <1>3 DEF RemoveStart, ReverseStart, Busy, CallInv
  <2>2. loop = NotLooping  BY <2>1 DEF CallInv
  <2>3. /\ loop' = [pc |-> request.op, node |-> links.next[request.on],
                    scan |-> Null, pos |-> 1]
        /\ links.next[request.on] \in live
        /\ own[links.next[request.on]] = request.on
    BY <2>1, <2>2, <1>n, <1>o DEF NotLooping
  <2>4. TypeOK'  BY <2>1, <2>3, <1>h, <1>t DEF TypeOK
  <2>5. CallInv'  BY <2>1, <2>3, <1>h DEF CallInv
  <2>6. CountInv(own)' /\ LoopInv(own)'
    BY <2>1, <2>3, <1>h, <1>c DEF CountInv, LoopInv
  <2> QED  BY <2>4, <2>5, <2>6, <1>r DEF IInv, Shape
<1>4. CASE RemovePasses
  <2>1. /\ request' = request /\ loop.pc = "remove" /\ request.op = "remove"
        /\ loop' = [loop EXCEPT !.node = links.next[loop.node]]
        /\ UNCHANGED typesize
    BY <1>4 DEF RemovePasses, CallInv
  <2>2. loop.node \in live /\ own[loop.node] = request.on
    BY <2>1 DEF Shape, LoopInv
  <2>3. /\ links.next[loop.node] \in live /\ own[links.next[loop.node]] = request.on
    BY <2>2, <1>n
  <2>4. TypeOK'  BY <2>1, <2>3, <1>h, <1>t DEF TypeOK
  <2>l. loop'.pc = "remove" /\ loop'.node = links.next[loop.node]
    <3>1. loop.pc = "remove" /\ loop' = [loop EXCEPT !.node = links.next[loop.node]]
      BY <2>1
    <3> QED  BY <1>4 DEF RemovePasses
  <2>5. CallInv'  BY <2>1, <2>l, <1>h DEF CallInv
  <2>6. CountInv(own)' /\ LoopInv(own)'
    BY <2>1, <2>3, <2>l, <1>h, <1>c DEF CountInv, LoopInv
  <2> QED  BY <2>4, <2>5, <2>6, <1>r DEF IInv, Shape
<1>5. CASE ClearStart
  <2>1. /\ request' = request /\ loop.pc = "start" /\ request # Null
        /\ request.op \in {"clear", "free", "assign", "copy"}
        /\ loop' = [loop EXCEPT !.pc = "clear", !.node = links.next[request.on],
                                !.scan = links.next[Target]]
        /\ UNCHANGED typesize
    BY <1>5 DEF ClearStart, Busy
  <2>2. loop = NotLooping  BY <2>1 DEF CallInv
  <2>3. request.on \in Lists \cap live /\ Target \in Lists \cap live
    BY <2>1 DEF CallInv, Target
  <2>4. loop' = [pc |-> "clear", node |-> links.next[request.on],
                 scan |-> links.next[Target], pos |-> 1]
    BY <2>1, <2>2 DEF NotLooping
  <2>5. TypeOK'  BY <2>1, <2>3, <2>4, <1>h, <1>t DEF TypeOK
  <2>a. request.op = "assign" => 1 <= request.arg.last
    BY <2>1 DEF CallInv
  <2>6. CallInv'
    <3>1. /\ request' = request /\ request # Null /\ live' = live
          /\ request.op \in {"clear", "free", "assign", "copy"}
      BY <2>1, <1>h
    <3>2. loop'.pc = "clear" /\ loop'.pos = 1
      BY <2>4
    <3> QED  BY <3>1, <3>2, <2>a DEF CallInv
  <2>7. LoopInv(own)'  BY <2>1, <2>3, <2>4, <1>h, <1>n, <1>o DEF LoopInv, Target
  <2>8. CountInv(own)'  BY <2>1, <1>h, <1>c DEF CountInv
  <2> QED  BY <2>5, <2>6, <2>7, <2>8, <1>r DEF IInv, Shape
<1>6. CASE ClearNothing
  <2>1. /\ request' = request /\ loop.pc = "start" /\ request # Null
        /\ request.op \in {"free", "assign", "copy"} /\ count[Target] = 0
        /\ loop' = [loop EXCEPT !.pc = "cleared", !.node = links.next[request.on]]
        /\ Cleared
    BY <1>6 DEF ClearNothing, Busy
  <2>2. loop = NotLooping  BY <2>1 DEF CallInv
  <2>3. request.on \in Lists \cap live /\ Target \in Lists \cap live
    BY <2>1 DEF CallInv, Target
  <2>4. loop' = [pc |-> "cleared", node |-> links.next[request.on],
                 scan |-> Null, pos |-> 1]
    BY <2>1, <2>2 DEF NotLooping
  <2>5. typesize' \in [Lists -> Sizes \cup {Null}]
    BY <2>1, <2>3 DEF Cleared, TypeOK
  <2>6. TypeOK'  BY <2>3, <2>4, <2>5, <1>h, <1>t DEF TypeOK
  <2>a. request.op = "assign" => 1 <= request.arg.last
    BY <2>1 DEF CallInv
  <2>7. CallInv'
    <3>1. /\ request' = request /\ request # Null /\ live' = live
          /\ request.op \in {"free", "assign", "copy"}
      BY <2>1, <1>h
    <3>2. loop'.pc = "cleared" /\ loop'.pos = 1
      BY <2>4
    <3> QED  BY <3>1, <3>2, <2>a DEF CallInv
  <2>8. LoopInv(own)'  BY <2>1, <2>3, <2>4, <1>h, <1>n, <1>o DEF LoopInv, Target
  <2>9. CountInv(own)'  BY <2>1, <1>h, <1>c DEF CountInv
  <2> QED  BY <2>6, <2>7, <2>8, <2>9, <1>r DEF IInv, Shape
<1> QED
  BY <1>1, <1>2, <1>3, <1>4, <1>5, <1>6
  DEF AllocFails, ReturnAtOnce, RemoveEnd, AssignEnd, CopyEnd, ReverseEnd, Busy


(* A call has returned: nothing is left of its loop. *)
LEMMA AfterReturn ==
  ASSUME TypeOK', NEW own, Rings(links', live', own), Return,
         \A l \in Lists \cap live' : /\ IsFiniteSet(Owned(live', own, l))
                                     /\ count'[l] = Cardinality(Owned(live', own, l))
  PROVE  IInv'
<1>1. loop' = NotLooping /\ request' = Null  BY DEF Return
<1>2. loop'.pc = "start"  BY <1>1 DEF NotLooping
<1>3. CallInv'  BY <1>1, <1>2 DEF CallInv
<1>4. CountInv(own)' /\ LoopInv(own)'
  BY <1>2 DEF CountInv, LoopInv
<1> QED  BY <1>3, <1>4 DEF IInv, Shape

LEMMA ReturnTypes ==
  ASSUME TypeOK, Return, live' \subseteq Cells, links' \in Fields,
         data' \in [Nodes -> Vals \cup {Null}], count' \in [Lists -> Nat],
         typesize' \in [Lists -> Sizes \cup {Null}]
  PROVE  TypeOK'
<1>1. loop' = NotLooping  BY DEF Return
<1>2. /\ loop'.pc = "start" /\ loop'.node = Null /\ loop'.scan = Null /\ loop'.pos = 1
  BY <1>1 DEF NotLooping
<1> QED  BY <1>2 DEF TypeOK, Fields

(* pop_back, pop_front and remove: a node of the list goes. *)
LEMMA TakesNode ==
  ASSUME TypeOK, NEW own, Shape(own), NEW l \in Lists \cap live, loop.pc # "clear",
         NEW node \in Owned(live, own, l), NodeFree(node),
         Counted(l, count[l] - 1), Return, UNCHANGED typesize
  PROVE  IInv'
<1>1. Rings(links, live, own) /\ node \in Nodes \cap live
  BY DEF Shape, Owned
<1>2. /\ Rings(links', live', own)
      /\ live' = live \ {node} /\ live' \subseteq Cells
      /\ links' \in Fields /\ data' \in [Nodes -> Vals \cup {Null}]
      /\ \A t : Owned(live', own, t) = Owned(live, own, t) \ {node}
  BY <1>1, FreeNode
<1>c. count \in [Lists -> Nat] /\ count' = [count EXCEPT ![l] = count[l] - 1]
  BY DEF TypeOK, Counted
<1>3. \A t \in Lists \cap live' : /\ IsFiniteSet(Owned(live', own, t))
                                  /\ count'[t] = Cardinality(Owned(live', own, t))
  <2> SUFFICES ASSUME NEW t \in Lists \cap live'
               PROVE  /\ IsFiniteSet(Owned(live', own, t))
                      /\ count'[t] = Cardinality(Owned(live', own, t))
    OBVIOUS
  <2>1. t \in live /\ IsFiniteSet(Owned(live, own, t))
        /\ count[t] = Cardinality(Owned(live, own, t))
    BY <1>2, CountOfList
  <2>2. CASE t = l
    <3>1. /\ IsFiniteSet(Owned(live, own, l) \ {node})
          /\ Cardinality(Owned(live, own, l) \ {node})
             = Cardinality(Owned(live, own, l)) - 1
      BY <2>1, <2>2, FS_RemoveElement
    <3>2. count'[l] = count[l] - 1  BY <1>c
    <3> QED  BY <2>1, <2>2, <3>1, <3>2, <1>2
  <2>3. CASE t # l
    <3>1. Owned(live, own, t) \ {node} = Owned(live, own, t)
      BY <2>3 DEF Owned
    <3> QED  BY <2>1, <2>3, <3>1, <1>2, <1>c
  <2> QED  BY <2>2, <2>3
<1>4. count' \in [Lists -> Nat]
  <2>1. count[l] > 0
    BY CountOfList
  <2> QED  BY <2>1, <1>c
<1>5. typesize' \in [Lists -> Sizes \cup {Null}]  BY DEF TypeOK
<1>6. TypeOK'  BY <1>2, <1>4, <1>5, ReturnTypes
<1> QED  BY <1>2, <1>3, <1>6, AfterReturn

(* push_back, also in assign and copy, and push_front: a node joins. *)
LEMMA GainsNode ==
  ASSUME TypeOK, NEW own, Shape(own), NEW l \in Lists \cap live, loop.pc # "clear",
         NEW head \in live, own[head] = l, NEW v \in Vals \cup {Null},
         NodeAdd(head, v), Counted(l, count[l] + 1)
  PROVE  \E new :
         /\ Rings(links', live', new)
         /\ live \subseteq live' /\ live' \subseteq Cells
         /\ \A t \in Lists : t \in live' => t \in live
         /\ links' \in Fields /\ data' \in [Nodes -> Vals \cup {Null}]
         /\ \A c \in live : new[c] = own[c]
         /\ count' \in [Lists -> Nat]
         /\ \A t \in Lists \cap live' :
               /\ IsFiniteSet(Owned(live', new, t))
               /\ count'[t] = Cardinality(Owned(live', new, t))
<1>1. Rings(links, live, own)  BY DEF Shape
<1>2. PICK new :
         /\ Rings(links', live', new)
         /\ live \subseteq live' /\ live' \subseteq Cells
         /\ \A t \in Lists : t \in live' => t \in live
         /\ links' \in Fields /\ data' \in [Nodes -> Vals \cup {Null}]
         /\ \A c \in live : new[c] = own[c]
         /\ \A t : t # l => Owned(live', new, t) = Owned(live, own, t)
         /\ \E node : /\ node \notin Owned(live, own, l)
                      /\ Owned(live', new, l) = Owned(live, own, l) \cup {node}
  BY <1>1, AddNode
<1>3. PICK node : /\ node \notin Owned(live, own, l)
                  /\ Owned(live', new, l) = Owned(live, own, l) \cup {node}
  BY <1>2
<1>c. count \in [Lists -> Nat] /\ count' = [count EXCEPT ![l] = count[l] + 1]
  BY DEF TypeOK, Counted
<1>4. \A t \in Lists \cap live' : /\ IsFiniteSet(Owned(live', new, t))
                                  /\ count'[t] = Cardinality(Owned(live', new, t))
  <2> SUFFICES ASSUME NEW t \in Lists \cap live'
               PROVE  /\ IsFiniteSet(Owned(live', new, t))
                      /\ count'[t] = Cardinality(Owned(live', new, t))
    OBVIOUS
  <2>1. t \in live /\ IsFiniteSet(Owned(live, own, t))
        /\ count[t] = Cardinality(Owned(live, own, t))
    BY <1>2, CountOfList
  <2>2. CASE t = l
    BY <2>1, <2>2, <1>3, <1>c, FS_AddElement
  <2>3. CASE t # l
    BY <2>1, <2>3, <1>2, <1>c
  <2> QED  BY <2>2, <2>3
<1> QED  BY <1>2, <1>4, <1>c

LEMMA Simple ==
  ASSUME TypeOK, CallInv, NEW own, Shape(own), request # Null,
         PushBack \/ PushFront \/ PopBack \/ PopFront \/ Remove \/ Alloc
  PROVE  IInv'
<1>r. Rings(links, live, own)  BY DEF Shape
<1>l. request.op # "alloc" => request.on \in Lists \cap live
  BY DEF CallInv
<1>n. \A l \in Lists \cap live : /\ own[l] = l /\ links.prev[l] \in live
                                 /\ own[links.prev[l]] = l
  BY <1>r DEF Rings, Paired, Owners
<1>s. typesize' = typesize => typesize' \in [Lists -> Sizes \cup {Null}]
  BY DEF TypeOK
<1>1. ASSUME NEW head \in live, own[head] = request.on, request.op # "alloc",
             NodeAdd(head, request.arg), request.arg \in Vals, loop.pc # "clear",
             Counted(request.on, count[request.on] + 1), Return, UNCHANGED typesize
      PROVE  IInv'
  <2>1. PICK new :
         /\ Rings(links', live', new)
         /\ live \subseteq live' /\ live' \subseteq Cells
         /\ links' \in Fields /\ data' \in [Nodes -> Vals \cup {Null}]
         /\ count' \in [Lists -> Nat]
         /\ \A t \in Lists \cap live' :
               /\ IsFiniteSet(Owned(live', new, t))
               /\ count'[t] = Cardinality(Owned(live', new, t))
    BY <1>1, <1>l, GainsNode
  <2>2. TypeOK'  BY <1>1, <2>1, <1>s, ReturnTypes
  <2> QED  BY <1>1, <2>1, <2>2, AfterReturn
<1>2. CASE PushBack
  <2>1. /\ request.op = "push_back" /\ loop.pc = "start" /\ request.arg \in Vals
        /\ NodeAdd(links.prev[request.on], request.arg) /\ Return
        /\ Counted(request.on, count[request.on] + 1) /\ UNCHANGED typesize
    BY <1>2 DEF PushBack, Busy, CallInv
  <2> QED  BY <2>1, <1>1, <1>l, <1>n
<1>3. CASE PushFront
  <2>1. /\ request.op = "push_front" /\ loop.pc = "start" /\ request.arg \in Vals
        /\ NodeAdd(request.on, request.arg) /\ Return
        /\ Counted(request.on, count[request.on] + 1) /\ UNCHANGED typesize
    BY <1>3 DEF PushFront, Busy, CallInv
  <2> QED  BY <2>1, <1>1, <1>l, <1>n
<1>4. CASE PopBack
  <2>1. /\ request.op = "pop_back" /\ loop.pc = "start" /\ count[request.on] > 0
        /\ NodeFree(links.prev[request.on]) /\ Return
        /\ Counted(request.on, count[request.on] - 1) /\ UNCHANGED typesize
    BY <1>4 DEF PopBack, Busy
  <2>2. links.prev[request.on] \in Owned(live, own, request.on)
    BY <2>1, <1>l, CountOfList
  <2> QED  BY <2>1, <2>2, <1>l, TakesNode
<1>5. CASE PopFront
  <2>1. /\ request.op = "pop_front" /\ loop.pc = "start" /\ count[request.on] > 0
        /\ NodeFree(links.next[request.on]) /\ Return
        /\ Counted(request.on, count[request.on] - 1) /\ UNCHANGED typesize
    BY <1>5 DEF PopFront, Busy
  <2>2. links.next[request.on] \in Owned(live, own, request.on)
    BY <2>1, <1>l, CountOfList
  <2> QED  BY <2>1, <2>2, <1>l, TakesNode
<1>6. CASE Remove
  <2>1. /\ request.op = "remove" /\ loop.pc = "remove" /\ loop.node # request.on
        /\ NodeFree(loop.node) /\ Return
        /\ Counted(request.on, count[request.on] - 1) /\ UNCHANGED typesize
    BY <1>6 DEF Remove, CallInv
  <2>2. loop.node \in live /\ own[loop.node] = request.on
    BY <2>1 DEF Shape, LoopInv
  <2>3. loop.node \in Owned(live, own, request.on)
    BY <2>1, <2>2, <1>n, TypeFacts DEF Owned
  <2> QED  BY <2>1, <2>3, <1>l, TakesNode
<1>7. CASE Alloc
  <2> DEFINE l == request.on
             new == [own EXCEPT ![l] = l]
  <2>1. /\ l \in Lists /\ l \notin live /\ request.arg \in Sizes /\ loop.pc = "start"
        /\ live' = live \cup {l}
        /\ links' = [next |-> [links.next EXCEPT ![l] = l],
                     prev |-> [links.prev EXCEPT ![l] = l]]
        /\ count' = [count EXCEPT ![l] = 0]
        /\ typesize' = [typesize EXCEPT ![l] = request.arg]
        /\ Return /\ UNCHANGED data
    BY <1>7 DEF Alloc, Busy, CallInv
  <2> HIDE DEF l
  <2>t. /\ own \in [Cells -> Lists \cup {Null}] /\ live \subseteq Cells
        /\ links.next \in [Cells -> Cells \cup {Null}]
        /\ links.prev \in [Cells -> Cells \cup {Null}]
    BY <1>r, TypeFacts DEF Rings, Owners
  <2>2. /\ new \in [Cells -> Lists \cup {Null}] /\ new[l] = l
        /\ \A c \in live : new[c] = own[c]
    BY <2>1, <2>t
  <2>3. /\ links'.next[l] = l /\ links'.prev[l] = l
        /\ \A c \in live : links'.next[c] = links.next[c] /\ links'.prev[c] = links.prev[c]
    BY <2>1, <2>t
  <2>4. links' \in Fields  BY <2>1, <2>t DEF Fields
  <2> HIDE DEF new
  <2>5. Rings(links', live, own)  BY <2>3, <1>r, SameFields
  <2>6. Paired(links', live')
    BY <2>1, <2>3, <2>5 DEF Rings, Paired
  <2>7. Owners(links', live', new)
    <3>1. \A c \in live : links'.next[c] \in live  BY <2>5 DEF Rings, Paired
    <3> QED  BY <2>1, <2>2, <2>3, <2>5, <3>1 DEF Rings, Owners
  <2>8. Connected(links', live', new)
    <3> SUFFICES ASSUME NEW S \in SUBSET live', Closed(links', S), NEW c \in live',
                        new[c] \in S
                 PROVE  c \in S
      BY DEF Connected
    <3>1. \A d \in live : links'.next[d] \in live /\ own[d] \in live
      BY <2>5 DEF Rings, Paired, Owners
    <3>2. Closed(links', S \cap live)  BY <3>1 DEF Closed
    <3>3. CASE c = l  BY <3>3, <2>2
    <3>4. CASE c # l
      <4>1. c \in live /\ own[c] \in S \cap live  BY <3>4, <3>1, <2>1, <2>2
      <4> QED  BY <4>1, <3>2, <2>5 DEF Rings, Connected
    <3> QED  BY <3>3, <3>4
  <2>9. Rings(links', live', new)
    BY <2>1, <2>t, <2>6, <2>7, <2>8 DEF Rings
  <2>10. TypeOK'
    <3>1. count' \in [Lists -> Nat] /\ typesize' \in [Lists -> Sizes \cup {Null}]
          /\ data' \in [Nodes -> Vals \cup {Null}]
      BY <2>1 DEF TypeOK
    <3> QED  BY <2>1, <2>4, <2>t, <3>1, ReturnTypes
  <2>11. \A t \in Lists \cap live' : /\ IsFiniteSet(Owned(live', new, t))
                                     /\ count'[t] = Cardinality(Owned(live', new, t))
    <3> SUFFICES ASSUME NEW t \in Lists \cap live'
                 PROVE  /\ IsFiniteSet(Owned(live', new, t))
                        /\ count'[t] = Cardinality(Owned(live', new, t))
      OBVIOUS
    <3>c. count \in [Lists -> Nat]  BY DEF TypeOK
    <3>o. \A d \in live : own[d] \in live  BY <1>r DEF Rings, Owners
    <3>1. CASE t = l
      <4>1. Owned(live', new, l) = {}  BY <2>1, <2>2, <3>o DEF Owned
      <4> QED  BY <3>1, <4>1, <3>c, <2>1, FS_EmptySet
    <3>2. CASE t # l
      <4>1. Owned(live', new, t) = Owned(live, own, t) /\ t \in live
        BY <3>2, <2>1, <2>2 DEF Owned
      <4> QED  BY <3>2, <4>1, <3>c, <2>1, CountOfList
    <3> QED  BY <3>1, <3>2
  <2> QED  BY <2>1, <2>9, <2>10, <2>11, AfterReturn
<1> QED  BY <1>2, <1>3, <1>4, <1>5, <1>6, <1>7


LEMMA LoopTypes ==
  ASSUME TypeOK, live' \subseteq Cells, links' \in Fields,
         data' \in [Nodes -> Vals \cup {Null}], count' \in [Lists -> Nat],
         typesize' \in [Lists -> Sizes \cup {Null}],
         loop'.pc \in {"start", "clear", "cleared", "remove", "reverse"},
         loop'.node \in Cells \cup {Null}, loop'.scan \in Cells \cup {Null},
         loop'.pos \in Nat \ {0}
  PROVE  TypeOK'
BY DEF TypeOK, Fields

(* The loops that change the ring, and what follows a clear. *)
LEMMA Loops ==
  ASSUME TypeOK, CallInv, NEW own, Shape(own), request # Null,
         ClearStep \/ ClearEnd \/ FreeEnd \/ AssignStep \/ CopyStep \/ ReverseStep
  PROVE  IInv'
<1>r. Rings(links, live, own)  BY DEF Shape
<1>i. /\ Paired(links, live) /\ Owners(links, live, own)
      /\ own \in [Cells -> Lists \cup {Null}] /\ live \subseteq Cells
  BY <1>r DEF Rings, Owners
<1>o. /\ \A c \in live : own[c] \in Lists \cap live /\ own[links.next[c]] = own[c]
                         /\ links.next[c] \in live /\ links.prev[c] \in live
      /\ \A l \in Lists \cap live : own[l] = l /\ own[links.prev[l]] = l
  BY <1>i DEF Paired, Owners
<1>l. request.op # "alloc" => request.on \in Lists \cap live /\ Target \in Lists \cap live
  BY DEF CallInv, Target
<1>t. /\ count \in [Lists -> Nat] /\ typesize \in [Lists -> Sizes \cup {Null}]
      /\ data \in [Nodes -> Vals \cup {Null}] /\ links \in Fields
      /\ loop.node \in Cells \cup {Null} /\ loop.pos \in Nat \ {0}
      /\ loop.scan \in Cells \cup {Null}
  BY TypeFacts DEF TypeOK
<1>1. CASE ClearStep
  <2>1. /\ loop.pc = "clear" /\ loop.scan # Target /\ NodeFree(loop.scan)
        /\ UNCHANGED <<count, typesize, request, before>>
        /\ request.op \in {"clear", "free", "assign", "copy"}
    BY <1>1 DEF ClearStep, CallInv
  <2>f. /\ loop'.pc = "clear" /\ loop'.scan = links.next[loop.scan]
        /\ loop'.node = loop.node /\ loop'.pos = loop.pos
    BY <1>1, <1>t DEF ClearStep, TypeOK
  <2>2. loop.scan = links.next[Target]  BY <2>1 DEF Shape, LoopInv
  <2>3. loop.scan \in Owned(live, own, Target)
    BY <2>1, <2>2, <1>l, <1>r, EmptyRing
  <2>4. /\ Rings(links', live', own)
        /\ live' = live \ {loop.scan} /\ live' \subseteq Cells
        /\ links' \in Fields /\ data' \in [Nodes -> Vals \cup {Null}]
        /\ \A t : Owned(live', own, t) = Owned(live, own, t) \ {loop.scan}
    BY <2>1, <2>3, <1>r, FreeNode DEF Owned
  <2>5. Target' = Target /\ Target \in live' /\ Target \in Cells /\ loop.scan \in Nodes
    BY <2>1, <2>3, <2>4, <1>l DEF Target, Owned
  <2>6. links'.next[Target] = links.next[loop.scan]
    <3>1. links' = Forgotten(Erased(links, loop.scan), loop.scan)  BY <2>1 DEF NodeFree
    <3>2. links.prev[loop.scan] = Target  BY <2>2, <1>l, <2>1, <1>i DEF Paired
    <3>3. Target # loop.scan  BY <2>1
    <3>4. links.next \in [Cells -> Cells \cup {Null}]  BY <1>t DEF Fields
    <3> QED  BY <3>1, <3>2, <3>3, <3>4, <2>5 DEF Erased, Forgotten
  <2>7. links.next[loop.scan] \in Cells  BY <2>3, <1>o, <1>i DEF Owned
  <2>8. TypeOK'  BY <2>1, <2>f, <2>4, <2>7, <1>t, LoopTypes
  <2>9. CallInv'
    <3>1. \A t \in Lists : t \in live' <=> t \in live  BY <2>4, <2>5
    <3> QED  BY <2>1, <2>f, <3>1 DEF CallInv
  <2>10. CountInv(own)'
    <3> SUFFICES ASSUME NEW t \in Lists \cap live', t # Target
                 PROVE  /\ IsFiniteSet(Owned(live', own, t))
                        /\ count'[t] = Cardinality(Owned(live', own, t))
      BY <2>f, <2>5 DEF CountInv
    <3>1. Owned(live', own, t) = Owned(live, own, t)
      BY <2>3, <2>4 DEF Owned
    <3> QED  BY <3>1, <2>1, <2>4, CountOfList
  <2>11. LoopInv(own)'
    <3>1. request.op = "copy" => loop.node \in live /\ own[loop.node] = request.on
      BY <2>1 DEF Shape, LoopInv
    <3>2. request.op = "copy" => own[loop.scan] # request.on
      BY <2>1, <2>3 DEF CallInv, Target, Owned
    <3> QED  BY <2>1, <2>f, <2>4, <2>5, <2>6, <3>1, <3>2 DEF LoopInv
  <2> QED  BY <2>4, <2>8, <2>9, <2>10, <2>11 DEF IInv, Shape
<1>2. CASE ClearEnd
  <2>1. /\ loop.pc = "clear" /\ loop.scan = Target
        /\ links' = [next |-> [links.next EXCEPT ![Target] = Target],
                     prev |-> [links.prev EXCEPT ![Target] = Target]]
        /\ count' = [count EXCEPT ![Target] = 0]
        /\ Cleared /\ UNCHANGED <<live, data>>
        /\ request.op \in {"clear", "free", "assign", "copy"}
    BY <1>2 DEF ClearEnd, CallInv, Counted
  <2>2. /\ links.next[Target] = Target /\ links.prev[Target] = Target
        /\ Owned(live, own, Target) = {}
    BY <2>1, <1>l, <1>r, EmptyRing DEF Shape, LoopInv
  <2>3. /\ links' \in Fields /\ Target \in Cells
        /\ \A c \in live : links'.next[c] = links.next[c] /\ links'.prev[c] = links.prev[c]
    BY <2>1, <2>2, <1>l, <1>t, <1>i DEF Fields
  <2>4. Rings(links', live', own)
    <3>1. Rings(links', live, own)  BY <2>3, <1>r, SameFields
    <3> QED  BY <3>1, <2>1
  <2>5. count' \in [Lists -> Nat] /\ typesize' \in [Lists -> Sizes \cup {Null}]
    BY <2>1, <1>l, <1>t DEF Cleared
  <2>6. \A t \in Lists \cap live : /\ IsFiniteSet(Owned(live, own, t))
                                   /\ count'[t] = Cardinality(Owned(live, own, t))
    <3> SUFFICES ASSUME NEW t \in Lists \cap live
                 PROVE  /\ IsFiniteSet(Owned(live, own, t))
                        /\ count'[t] = Cardinality(Owned(live, own, t))
      OBVIOUS
    <3>1. CASE t = Target  BY <3>1, <2>1, <2>2, <1>t, FS_EmptySet
    <3>2. CASE t # Target  BY <3>2, <2>1, <1>t, CountOfList
    <3> QED  BY <3>1, <3>2
  <2>7. CASE request.op = "clear"
    <3>1. Return  BY <2>7, <1>2 DEF ClearEnd
    <3>2. TypeOK'  BY <3>1, <2>1, <2>3, <2>5, <1>t, <1>i, ReturnTypes
    <3> QED  BY <3>1, <3>2, <2>1, <2>4, <2>6, AfterReturn
  <2>8. CASE request.op # "clear"
    <3>1. /\ loop' = [loop EXCEPT !.pc = "cleared", !.scan = Null]
          /\ UNCHANGED <<request, before>>
      BY <2>8, <1>2 DEF ClearEnd
    <3>2. /\ loop'.pc = "cleared" /\ loop'.scan = Null /\ loop'.node = loop.node
          /\ loop'.pos = loop.pos
      BY <3>1, <1>t DEF TypeOK
    <3>3. TypeOK'  BY <3>2, <2>1, <2>3, <2>5, <1>t, <1>i, LoopTypes
    <3>4. CallInv'  BY <3>1, <3>2, <2>1, <2>8 DEF CallInv
    <3>5. CountInv(own)'  BY <2>1, <2>6, <3>2 DEF CountInv
    <3>6. LoopInv(own)'
      <4>1. request.op = "copy" => loop.node \in live /\ own[loop.node] = request.on
        BY <2>1 DEF Shape, LoopInv
      <4>2. request.op = "free" => count'[request.on] = 0
        BY <2>1, <1>l, <1>t DEF Target
      <4> QED  BY <3>1, <3>2, <4>1, <4>2, <2>1 DEF LoopInv
    <3> QED  BY <3>3, <3>4, <3>5, <3>6, <2>4 DEF IInv, Shape
  <2> QED  BY <2>7, <2>8
<1>3. CASE FreeEnd
  <2> DEFINE l == request.on
  <2>1. /\ loop.pc = "cleared" /\ request.op = "free" /\ live' = live \ {l}
        /\ links' = Forgotten(links, l)
        /\ typesize' = [typesize EXCEPT ![l] = Null]
        /\ Return /\ UNCHANGED <<data, count>> /\ l \in Lists \cap live
    BY <1>3, <1>l DEF FreeEnd
  <2>2. count[l] = 0  BY <2>1 DEF Shape, LoopInv
  <2> HIDE DEF l
  <2>3. Owned(live, own, l) = {}  BY <2>1, <2>2, CountOfList
  <2>4. \A c \in live : own[c] = l => c = l
    <3> SUFFICES ASSUME NEW c \in live, own[c] = l, c # l PROVE FALSE
      OBVIOUS
    <3>1. c \in Nodes  BY <1>o, <1>i
    <3> QED  BY <3>1, <2>3 DEF Owned
  <2>5. links' \in Fields  BY <2>1, <1>t, FieldsStay
  <2>6. \A c \in live' : links'.next[c] = links.next[c] /\ links'.prev[c] = links.prev[c]
    BY <2>1, <1>t, <1>i DEF Forgotten, Fields
  <2>7. Rings(links, live', own)
    <3>1. \A c \in live : own[links.prev[c]] = own[c]
      <4> SUFFICES ASSUME NEW c \in live PROVE own[links.prev[c]] = own[c]
        OBVIOUS
      <4>1. links.prev[c] \in live /\ links.next[links.prev[c]] = c
        BY <1>i DEF Paired
      <4> QED  BY <4>1, <1>o
    <3>2. \A c \in live' : links.next[c] \in live' /\ links.prev[c] \in live'
      <4> SUFFICES ASSUME NEW c \in live'
                   PROVE  links.next[c] \in live' /\ links.prev[c] \in live'
        OBVIOUS
      <4>1. c \in live /\ c # l  BY <2>1
      <4>2. own[c] # l  BY <4>1, <2>4
      <4>3. own[l] = l  BY <2>1, <1>o
      <4> QED  BY <4>1, <4>2, <4>3, <3>1, <1>o, <2>1
    <3>3. Paired(links, live')  BY <3>2, <2>1, <1>i DEF Paired
    <3>4. Owners(links, live', own)  BY <2>1, <2>4, <1>i, <1>o DEF Owners
    <3>5. Connected(links, live', own)  BY <2>1, <1>r DEF Rings, Connected
    <3> QED  BY <3>3, <3>4, <3>5, <2>1, <1>i DEF Rings
  <2>8. Rings(links', live', own)  BY <2>6, <2>7, SameFields
  <2>9. typesize' \in [Lists -> Sizes \cup {Null}]  BY <2>1, <1>t
  <2>10. TypeOK'  BY <2>1, <2>5, <2>9, <1>t, <1>i, ReturnTypes
  <2>11. \A t \in Lists \cap live' : Owned(live', own, t) = Owned(live, own, t)
    BY <2>1 DEF Owned
  <2>12. \A t \in Lists \cap live' : /\ IsFiniteSet(Owned(live', own, t))
                                     /\ count'[t] = Cardinality(Owned(live', own, t))
    <3>1. \A t \in Lists \cap live' : t \in live /\ count'[t] = count[t]  BY <2>1
    <3>2. \A t \in Lists \cap live : /\ IsFiniteSet(Owned(live, own, t))
                                     /\ count[t] = Cardinality(Owned(live, own, t))
      BY <2>1, CountOfList
    <3> QED  BY <2>11, <3>1, <3>2
  <2> QED  BY <2>1, <2>8, <2>10, <2>12, AfterReturn
<1>4. CASE AssignStep
  <2>1. /\ loop.pc = "cleared" /\ request.op = "assign" /\ loop.pos # request.arg.last
        /\ NodeAdd(links.prev[request.on], request.arg.array[loop.pos])
        /\ Counted(request.on, count[request.on] + 1)
        /\ UNCHANGED <<typesize, request, before>>
    BY <1>4 DEF AssignStep
  <2>f. /\ loop'.pc = "cleared" /\ loop'.node = loop.node /\ loop'.scan = loop.scan
        /\ loop'.pos = loop.pos + 1
    BY <1>4, <1>t DEF AssignStep, TypeOK
  <2>2. /\ request.arg.array \in Seq(Vals) /\ loop.pos <= request.arg.last
        /\ request.arg.last \in 1 .. Len(request.arg.array) + 1
    BY <2>1 DEF CallInv
  <2>3. /\ request.arg.array[loop.pos] \in Vals
        /\ loop.pos + 1 <= request.arg.last /\ loop.pos + 1 \in Nat \ {0}
    <3>1. Len(request.arg.array) \in Nat /\ loop.pos \in 1 .. Len(request.arg.array)
      BY <2>1, <2>2, <1>t
    <3> QED  BY <2>1, <2>2, <3>1, <1>t
  <2>4. PICK new :
         /\ Rings(links', live', new)
         /\ live \subseteq live' /\ live' \subseteq Cells
         /\ \A t \in Lists : t \in live' => t \in live
         /\ links' \in Fields /\ data' \in [Nodes -> Vals \cup {Null}]
         /\ count' \in [Lists -> Nat]
         /\ \A t \in Lists \cap live' :
               /\ IsFiniteSet(Owned(live', new, t))
               /\ count'[t] = Cardinality(Owned(live', new, t))
    <3>1. /\ request.on \in Lists \cap live /\ links.prev[request.on] \in live
          /\ own[links.prev[request.on]] = request.on
      BY <2>1, <1>l, <1>o
    <3>2. request.arg.array[loop.pos] \in Vals \cup {Null} /\ loop.pc # "clear"
      BY <2>1, <2>3
    <3> QED  BY <2>1, <3>1, <3>2, GainsNode
  <2>5. TypeOK'  BY <2>1, <2>f, <2>3, <2>4, <1>t, LoopTypes
  <2>6. CallInv'  BY <2>1, <2>f, <2>3, <2>4 DEF CallInv
  <2>7. CountInv(new)' /\ LoopInv(new)'
    BY <2>1, <2>f, <2>4 DEF CountInv, LoopInv
  <2> QED  BY <2>4, <2>5, <2>6, <2>7 DEF IInv, Shape
<1>5. CASE CopyStep
  <2>1. /\ loop.pc = "cleared" /\ request.op = "copy" /\ loop.node \notin {request.on, Null}
        /\ NodeAdd(links.prev[Target], data[loop.node])
        /\ Counted(Target, count[Target] + 1)
        /\ UNCHANGED <<typesize, request, before>>
    BY <1>5 DEF CopyStep
  <2>f. /\ loop'.pc = "cleared" /\ loop'.node = links'.next[loop.node]
        /\ loop'.scan = loop.scan /\ loop'.pos = loop.pos
    BY <1>5, <1>t DEF CopyStep, TypeOK
  <2>2. loop.node \in live /\ own[loop.node] = request.on
    BY <2>1 DEF Shape, LoopInv
  <2>3. data[loop.node] \in Vals \cup {Null}
    BY <2>1, <2>2, <1>o, <1>i, <1>t
  <2>4. PICK new :
         /\ Rings(links', live', new)
         /\ live \subseteq live' /\ live' \subseteq Cells
         /\ \A t \in Lists : t \in live' => t \in live
         /\ links' \in Fields /\ data' \in [Nodes -> Vals \cup {Null}]
         /\ \A c \in live : new[c] = own[c]
         /\ count' \in [Lists -> Nat]
         /\ \A t \in Lists \cap live' :
               /\ IsFiniteSet(Owned(live', new, t))
               /\ count'[t] = Cardinality(Owned(live', new, t))
    <3>1. /\ Target \in Lists \cap live /\ links.prev[Target] \in live
          /\ own[links.prev[Target]] = Target
      BY <2>1, <1>l, <1>o
    <3> QED  BY <2>1, <2>3, <3>1, GainsNode
  <2>5. loop'.node \in live' /\ new[loop'.node] = request.on
    BY <2>2, <2>f, <2>4 DEF Rings, Paired, Owners
  <2>6. TypeOK'  BY <2>1, <2>f, <2>4, <2>5, <1>t, LoopTypes
  <2>7. CallInv'  BY <2>1, <2>f, <2>4 DEF CallInv
  <2>8. CountInv(new)' /\ LoopInv(new)'
    BY <2>1, <2>f, <2>4, <2>5 DEF CountInv, LoopInv
  <2> QED  BY <2>4, <2>6, <2>7, <2>8 DEF IInv, Shape
<1>6. CASE ReverseStep
  <2> DEFINE e == Erased(links, loop.node)
             l == request.on
  <2>1. /\ loop.pc = "reverse" /\ loop.node # l /\ request.op = "reverse"
        /\ links' = Inserted(e, l, loop.node)
        /\ UNCHANGED <<live, data, count, typesize, request, before>>
    BY <1>6 DEF ReverseStep, CallInv
  <2>f. /\ loop'.pc = "reverse" /\ loop'.node = links.next[loop.node]
        /\ loop'.scan = loop.scan /\ loop'.pos = loop.pos
    BY <1>6, <1>t DEF ReverseStep, TypeOK
  <2>2. loop.node \in live /\ own[loop.node] = l /\ l \in Lists \cap live /\ own[l] = l
    BY <2>1, <1>l, <1>o DEF Shape, LoopInv
  <2>3. loop.node \in Nodes \cap live /\ loop.node \notin Lists
    BY <2>1, <2>2, <1>i, <1>o
  <2>4. Rings(e, live \ {loop.node}, own)  BY <2>3, <1>r, <1>t, EraseKeeps
  <2>5. e \in Fields  BY <2>2, <1>t, <1>o, <1>i, FieldsStay
  <2>6. l \in live \ {loop.node} /\ loop.node \in Nodes \ (live \ {loop.node})
    BY <2>1, <2>2, <2>3
  <2> HIDE DEF e
  <2>7. Rings(links', (live \ {loop.node}) \cup {loop.node},
              [own EXCEPT ![loop.node] = own[l]])
    BY <2>1, <2>4, <2>5, <2>6, InsertKeeps
  <2>8. (live \ {loop.node}) \cup {loop.node} = live'
        /\ [own EXCEPT ![loop.node] = own[l]] = own
    BY <2>1, <2>2, <1>i
  <2>9. Rings(links', live', own)  BY <2>7, <2>8
  <2>10. links' \in Fields
    <3>1. e.next[l] \in Cells  BY <2>4, <2>6, <1>i DEF Rings, Paired
    <3> QED  BY <2>1, <2>2, <2>5, <3>1, <1>i, FieldsStay
  <2>11. links.next[loop.node] \in live /\ own[links.next[loop.node]] = l
    BY <2>2, <1>o
  <2>12. TypeOK'  BY <2>1, <2>f, <2>10, <2>11, <1>t, <1>i, LoopTypes
  <2>13. CallInv'  BY <2>1, <2>f DEF CallInv
  <2>14. CountInv(own)'  BY <2>1, <2>f, CountOfList DEF CountInv
  <2>15. LoopInv(own)'  BY <2>1, <2>f, <2>11 DEF LoopInv
  <2> QED  BY <2>9, <2>12, <2>13, <2>14, <2>15 DEF IInv, Shape
<1> QED  BY <1>1, <1>2, <1>3, <1>4, <1>5, <1>6

LEMMA NextIInv == IInv /\ [Next]_vars => IInv'
<1> SUFFICES ASSUME IInv, [Next]_vars PROVE IInv'
  OBVIOUS
<1>1. PICK own : Shape(own)  BY DEF IInv
<1>2. TypeOK /\ CallInv  BY DEF IInv
<1>3. CASE Caller
  <2>1. UNCHANGED heap  BY <1>3 DEF Caller, Invoke
  <2> QED  BY <1>1, <1>2, <1>3, <2>1, Onlooking
<1>4. CASE /\ request # Null
           /\ \/ AllocFails \/ ReturnAtOnce \/ RemoveStart \/ RemovePasses \/ RemoveEnd
              \/ ClearStart \/ ClearNothing \/ AssignEnd \/ CopyEnd
              \/ ReverseStart \/ ReverseEnd
  <2>1. UNCHANGED heap
    BY <1>4 DEF AllocFails, ReturnAtOnce, RemoveStart, RemovePasses, RemoveEnd, ClearStart,
       ClearNothing, AssignEnd, CopyEnd, ReverseStart, ReverseEnd
  <2> QED  BY <1>1, <1>2, <1>4, <2>1, Onlooking
<1>5. CASE /\ request # Null
           /\ PushBack \/ PushFront \/ PopBack \/ PopFront \/ Remove \/ Alloc
  BY <1>1, <1>2, <1>5, Simple
<1>6. CASE /\ request # Null
           /\ ClearStep \/ ClearEnd \/ FreeEnd \/ AssignStep \/ CopyStep \/ ReverseStep
  BY <1>1, <1>2, <1>6, Loops
<1>7. CASE UNCHANGED vars
  BY <1>7, <1>1, <1>2
  DEF vars, IInv, TypeOK, CallInv, Shape, CountInv, LoopInv, Target
<1> QED  BY <1>3, <1>4, <1>5, <1>6, <1>7 DEF Next, Callee

-----------------------------------------------------------------------------
(* The theorems. *)

LEMMA Invariance == Spec => []IInv
<1> QED  BY InitIInv, NextIInv, PTL DEF Spec

(* The fields of every cell, the counts and the item sizes have their      *)
(* types, in whatever order the functions of clist.c are called.           *)
THEOREM TypeCorrect == Spec => []TypeOK
<1>1. IInv => TypeOK  BY DEF IInv
<1> QED  BY <1>1, Invariance, PTL

(* next and prev are inverse on the allocated cells after every step of    *)
(* every call, in the middle of clear and reverse too: no pointer dangles. *)
THEOREM RingsWhole == Spec => []LinksInverse
<1>1. IInv => LinksInverse
  BY DEF IInv, Shape, Rings, Paired, LinksInverse
<1> QED  BY <1>1, Invariance, PTL

(* The loops of clear, copy, remove and reverse go on with allocated cells.*)
THEOREM LoopsStayInside == Spec => []LoopPointersLive
<1>1. IInv => LoopPointersLive
  <2> SUFFICES ASSUME IInv PROVE LoopPointersLive
    OBVIOUS
  <2>1. PICK own : Shape(own)  BY DEF IInv
  <2>2. CASE loop.pc = "clear"
    <3>1. Target \in live
      BY <2>2 DEF IInv, CallInv, Target
    <3>2. loop.scan \in live
      BY <2>1, <2>2, <3>1 DEF Shape, Rings, Paired, LoopInv
    <3> QED  BY <2>1, <2>2, <3>2 DEF LoopPointersLive, Shape, LoopInv
  <2>3. CASE loop.pc # "clear"
    BY <2>1, <2>3 DEF LoopPointersLive, Shape, LoopInv
  <2> QED  BY <2>2, <2>3
<1> QED  BY <1>1, Invariance, PTL

(* What one comes to from a list is what it owns. *)
LEMMA ReachedIsOwned ==
  ASSUME NEW own, Rings(links, live, own), NEW l \in Lists \cap live
  PROVE  Reached(l) = Owned(live, own, l)
<1>r. /\ \A c \in live : links.next[c] \in live /\ own[links.next[c]] = own[c]
      /\ own[l] = l
  BY DEF Rings, Paired, Owners
<1>1. ASSUME NEW node \in Owned(live, own, l) PROVE node \in Reached(l)
  <2> SUFFICES ASSUME NEW S \in SUBSET live, l \in S, \A c \in S : links.next[c] \in S
               PROVE  node \in S
    BY DEF Reached, Owned
  <2>1. Closed(links, S)  BY DEF Closed
  <2> QED  BY <2>1 DEF Rings, Connected, Owned
<1>2. ASSUME NEW node \in Reached(l) PROVE node \in Owned(live, own, l)
  <2> DEFINE S == {c \in live : own[c] = l}
  <2>1. S \in SUBSET live /\ l \in S /\ \A c \in S : links.next[c] \in S
    BY <1>r
  <2>2. node \in S  BY <2>1 DEF Reached
  <2> QED  BY <2>2 DEF Reached, Owned
<1> QED  BY <1>1, <1>2

(* Between calls count is the number of nodes in the ring, and every node  *)
(* that was not freed is in the ring of one list: no sequence of calls     *)
(* leaks a node or shares it.                                              *)
THEOREM CountsRight == Spec => []CountsAccurate
<1>1. IInv => CountsAccurate
  <2> SUFFICES ASSUME IInv, loop.pc = "start" PROVE CountsAccurate
    BY DEF CountsAccurate
  <2>1. PICK own : Shape(own)  BY DEF IInv
  <2>2. \A l \in Lists \cap live : Reached(l) = Owned(live, own, l)
    BY <2>1, ReachedIsOwned DEF Shape
  <2>3. \A l \in Lists \cap live : count[l] = Cardinality(Reached(l))
    BY <2>1, <2>2, CountOfList
  <2>4. \A node \in Nodes \cap live :
           /\ own[node] \in Lists \cap live
           /\ \A l \in Lists \cap live : node \in Reached(l) <=> own[node] = l
    BY <2>1, <2>2 DEF Shape, Rings, Owners, Owned
  <2> QED  BY <2>3, <2>4 DEF CountsAccurate
<1> QED  BY <1>1, Invariance, PTL

HIDE CellsAssumption DEF Cells

-----------------------------------------------------------------------------
(* Numbers, sequences, and the functions that follow pointers. *)

LEMMA LeastNat ==
  ASSUME NEW T, T \subseteq Nat, T # {}
  PROVE  \E m \in T : \A n \in T : m <= n
<1> DEFINE Below == {1 .. n : n \in T}
<1>1. \A n \in Nat : IsFiniteSet(1 .. n)
  BY FS_Interval
<1>2. Below \subseteq FiniteSubsetsOf(Nat)
  BY <1>1 DEF FiniteSubsetsOf
<1>3. Below # {}
  OBVIOUS
<1>4. \E b \in Below : \A c \in Below : <<c, b>> \notin StrictSubsetOrdering(Nat)
  <2> HIDE DEF Below
  <2> QED  BY <1>2, <1>3, FS_StrictSubsetOrderingWellFounded, WFMin
<1>5. PICK m \in T : \A n \in T : <<1 .. n, 1 .. m>> \notin StrictSubsetOrdering(Nat)
  BY <1>4
<1>6. ASSUME NEW n \in T, n < m PROVE FALSE
  <2>1. m \in Nat /\ n \in Nat  OBVIOUS
  <2>2. 1 .. n \subseteq 1 .. m /\ m \in 1 .. m /\ m \notin 1 .. n
    BY <1>6, <2>1
  <2>3. 1 .. n \in SUBSET Nat /\ 1 .. m \in SUBSET Nat
    BY <2>1
  <2>4. <<1 .. n, 1 .. m>> \in StrictSubsetOrdering(Nat)
    BY <2>2, <2>3 DEF StrictSubsetOrdering
  <2> QED  BY <1>5, <2>4
<1> QED  BY <1>6

LEMMA CountTo ==
  ASSUME NEW n \in Nat
  PROVE  IsFiniteSet(1 .. n) /\ Cardinality(1 .. n) = n
<1>1. 1 \in Int /\ n \in Int  OBVIOUS
<1>2. IsFiniteSet(1 .. n) /\ Cardinality(1 .. n) = IF 1 > n THEN 0 ELSE n - 1 + 1
  BY <1>1, FS_Interval
<1> QED  BY <1>2

LEMMA MakeSeq ==
  ASSUME NEW S, NEW n \in Nat, NEW f \in [1 .. n -> S]
  PROVE  f \in Seq(S) /\ Len(f) = n
OBVIOUS

(* Two functions on an interval that start alike, and go on alike from     *)
(* where they agree, are equal.                                            *)
Alike(a, n, f, g) ==
    /\ a <= n => f[a] = g[a]
    /\ \A i \in a .. n : i > a /\ f[i - 1] = g[i - 1] => f[i] = g[i]

LEMMA SameWalk ==
  ASSUME NEW a \in Nat, NEW n \in Nat, NEW f, NEW g, Alike(a, n, f, g)
  PROVE  \A i \in a .. n : f[i] = g[i]
<1> DEFINE T == {i \in a .. n : f[i] # g[i]}
<1>1. ASSUME T # {} PROVE FALSE
  <2>1. T \subseteq Nat  OBVIOUS
  <2>2. PICK m \in T : \A i \in T : m <= i
    <3> HIDE DEF T
    <3> QED  BY <1>1, <2>1, LeastNat
  <2>3. m \in a .. n /\ f[m] # g[m] /\ m # a  BY <2>2 DEF Alike
  <2>4. m - 1 \in a .. n /\ m > a  BY <2>3
  <2>5. m - 1 \notin T  BY <2>2, <2>3
  <2>6. f[m - 1] = g[m - 1]  BY <2>4, <2>5
  <2> QED  BY <2>3, <2>4, <2>6 DEF Alike
<1> QED  BY <1>1

LEMMA AheadIs ==
  ASSUME NEW next, NEW c, NEW n \in Nat, NEW g,
         g = [i \in 0 .. n |-> IF i = 0 THEN c ELSE next[g[i - 1]]]
  PROVE  Ahead(next, c, n) = g
<1> DEFINE Step(f) == [i \in 0 .. n |-> IF i = 0 THEN c ELSE next[f[i - 1]]]
           at == CHOOSE f : f = Step(f)
<1>1. Ahead(next, c, n) = at
  BY DEF Ahead
<1>2. at = Step(at)
  <2>1. g = Step(g)  OBVIOUS
  <2> QED  BY <2>1
<1> HIDE DEF at
<1>3. at = g
  <2>1. at = [i \in 0 .. n |-> at[i]] /\ g = [i \in 0 .. n |-> g[i]]
    BY <1>2
  <2>2. 0 \in Nat /\ (0 <= n => at[0] = g[0])  BY <1>2
  <2>3. \A i \in 0 .. n : i > 0 /\ at[i - 1] = g[i - 1] => at[i] = g[i]
    BY <1>2
  <2>4. Alike(0, n, at, g)  BY <2>2, <2>3 DEF Alike
  <2>5. \A i \in 0 .. n : at[i] = g[i]  BY <2>2, <2>4, SameWalk
  <2> QED  BY <2>1, <2>5
<1> QED  BY <1>1, <1>3

LEMMA WalkIs ==
  ASSUME NEW next, NEW l, NEW g, Cardinality(Nodes) \in Nat,
         g = [i \in 1 .. Cardinality(Nodes) |->
                 IF i = 1 THEN next[l]
                 ELSE IF g[i - 1] \in {l, Null} THEN l ELSE next[g[i - 1]]]
  PROVE  Walk(next, l) = g
<1> DEFINE N == Cardinality(Nodes)
           Step(f) == [i \in 1 .. Cardinality(Nodes) |->
                          IF i = 1 THEN next[l]
                          ELSE IF f[i - 1] \in {l, Null} THEN l ELSE next[f[i - 1]]]
           at == CHOOSE f : f = Step(f)
<1>1. Walk(next, l) = at
  BY DEF Walk
<1>2. at = Step(at)
  <2>1. g = Step(g)  OBVIOUS
  <2> QED  BY <2>1
<1> HIDE DEF at
<1>3. at = g
  <2>1. at = [i \in 1 .. N |-> at[i]] /\ g = [i \in 1 .. N |-> g[i]]
    BY <1>2
  <2>2. 1 \in Nat /\ N \in Nat /\ (1 <= N => at[1] = g[1])  BY <1>2
  <2>3. \A i \in 1 .. N : i > 1 /\ at[i - 1] = g[i - 1] => at[i] = g[i]
    BY <1>2
  <2> HIDE DEF N
  <2>4. Alike(1, N, at, g)  BY <2>2, <2>3 DEF Alike
  <2>5. \A i \in 1 .. N : at[i] = g[i]  BY <2>2, <2>4, SameWalk
  <2> QED  BY <2>1, <2>5
<1> QED  BY <1>1, <1>3

-----------------------------------------------------------------------------
(* Circles: the ring of list l holds the nodes of s, in this order. *)

Spot(l, s, i) == IF i \in 1 .. Len(s) THEN s[i] ELSE l

Circle(next, l, s) ==
    /\ s \in Seq(Nodes)
    /\ \A i, j \in 1 .. Len(s) : s[i] = s[j] => i = j
    /\ \A i \in 0 .. Len(s) : next[Spot(l, s, i)] = Spot(l, s, i + 1)

(* A walk from the sentinel finds what is in the circle, and stops. *)
LEMMA ChainIs ==
  ASSUME NEW next, NEW l \in Lists, NEW s, Circle(next, l, s)
  PROVE  Chain(next, l) = s
<1> DEFINE N == Cardinality(Nodes)
           g == [i \in 1 .. N |-> Spot(l, s, i)]
<1>t. /\ Len(s) \in Nat /\ s \in [1 .. Len(s) -> Nodes] /\ l \notin Nodes
      /\ Null \notin Nodes /\ N \in Nat
  <2>1. s \in Seq(Nodes)  BY DEF Circle
  <2>2. N \in Nat  BY NodesAssumption, FS_CardinalityType
  <2> QED  BY <2>1, <2>2, LenProperties, CellsAssumption DEF Cells
<1>1. Len(s) <= N
  <2>1. s \in Injection(1 .. Len(s), Nodes)
    BY <1>t DEF Circle, Injection, IsInjective
  <2>2. Cardinality(1 .. Len(s)) <= N
    BY <2>1, NodesAssumption, FS_Injection
  <2>3. Cardinality(1 .. Len(s)) = Len(s)
    BY <1>t, CountTo
  <2> QED  BY <2>2, <2>3
<1>2. g = [i \in 1 .. Cardinality(Nodes) |->
              IF i = 1 THEN next[l]
              ELSE IF g[i - 1] \in {l, Null} THEN l ELSE next[g[i - 1]]]
  <2> SUFFICES ASSUME NEW i \in 1 .. N
               PROVE  Spot(l, s, i) = IF i = 1 THEN next[l]
                                      ELSE IF g[i - 1] \in {l, Null} THEN l
                                      ELSE next[g[i - 1]]
    BY <1>t
  <2>1. CASE i = 1
    <3>1. next[Spot(l, s, 0)] = Spot(l, s, 0 + 1) /\ Spot(l, s, 0) = l
      BY <1>t DEF Circle, Spot
    <3> QED  BY <2>1, <3>1
  <2>2. CASE i # 1
    <3>1. i - 1 \in 1 .. N /\ (i - 1) + 1 = i  BY <2>2, <1>t
    <3>2. g[i - 1] = Spot(l, s, i - 1)  BY <3>1
    <3>3. CASE i - 1 <= Len(s)
      <4>1. next[Spot(l, s, i - 1)] = Spot(l, s, (i - 1) + 1)
        BY <3>1, <3>3, <1>t DEF Circle
      <4>2. Spot(l, s, i - 1) \in Nodes
        BY <3>1, <3>3, <1>t DEF Spot
      <4> QED  BY <2>2, <3>1, <3>2, <4>1, <4>2, <1>t
    <3>4. CASE i - 1 > Len(s)
      <4>1. Spot(l, s, i - 1) = l /\ Spot(l, s, i) = l
        BY <3>1, <3>4, <1>t DEF Spot
      <4> QED  BY <2>2, <3>2, <4>1
    <3> QED  BY <3>1, <3>3, <3>4, <1>t
  <2> QED  BY <2>1, <2>2
<1>3. Walk(next, l) = g
  <2> HIDE DEF g
  <2> QED  BY <1>t, <1>2, WalkIs
<1>4. {j \in DOMAIN g : g[j] \notin {l, Null}} = 1 .. Len(s)
  <2>1. \A j \in 1 .. N : g[j] \notin {l, Null} <=> j \in 1 .. Len(s)
    BY <1>t DEF Spot
  <2>2. 1 .. Len(s) \subseteq 1 .. N  BY <1>t, <1>1
  <2> QED  BY <2>1, <2>2
<1>5. Cardinality(1 .. Len(s)) = Len(s)
  BY <1>t, CountTo
<1>6. Chain(next, l) = [i \in 1 .. Len(s) |-> g[i]]
  <2> HIDE DEF g
  <2> QED  BY <1>3, <1>4, <1>5 DEF Chain
<1>7. \A i \in 1 .. Len(s) : g[i] = s[i]
  BY <1>t, <1>1 DEF Spot
<1> QED  BY <1>t, <1>6, <1>7

(* Only the fields of the list and of its nodes matter. *)
LEMMA CircleSame ==
  ASSUME NEW next, NEW m, NEW l, NEW s, Circle(next, l, s), m[l] = next[l],
         \A i \in 1 .. Len(s) : m[s[i]] = next[s[i]]
  PROVE  Circle(m, l, s)
BY DEF Circle, Spot

(* A node behind the one in place p. *)
Grown(s, p, x) == [i \in 1 .. Len(s) + 1 |->
                      IF i <= p THEN s[i] ELSE IF i = p + 1 THEN x ELSE s[i - 1]]

(* Without the one in place p. *)
Shrunk(s, p) == [i \in 1 .. Len(s) - 1 |-> IF i < p THEN s[i] ELSE s[i + 1]]

LEMMA SeqFacts ==
  ASSUME NEW S, NEW s \in Seq(S)
  PROVE  /\ Len(s) \in Nat
         /\ \A i \in 1 .. Len(s) : s[i] \in S
         /\ \A p \in 0 .. Len(s), x \in S :
               /\ Grown(s, p, x) \in Seq(S)
               /\ Len(Grown(s, p, x)) = Len(s) + 1
         /\ \A p \in 1 .. Len(s) :
               /\ Shrunk(s, p) \in Seq(S)
               /\ Len(Shrunk(s, p)) = Len(s) - 1
<1>1. Len(s) \in Nat /\ \A i \in 1 .. Len(s) : s[i] \in S
  OBVIOUS
<1>2. ASSUME NEW p \in 0 .. Len(s), NEW x \in S
      PROVE  Grown(s, p, x) \in Seq(S) /\ Len(Grown(s, p, x)) = Len(s) + 1
  <2>1. Grown(s, p, x) \in [1 .. Len(s) + 1 -> S]  BY <1>1 DEF Grown
  <2>2. Len(s) + 1 \in Nat  BY <1>1
  <2> QED  BY <2>1, <2>2, MakeSeq
<1>3. ASSUME NEW p \in 1 .. Len(s)
      PROVE  Shrunk(s, p) \in Seq(S) /\ Len(Shrunk(s, p)) = Len(s) - 1
  <2>1. Shrunk(s, p) \in [1 .. Len(s) - 1 -> S]  BY <1>1 DEF Shrunk
  <2>2. Len(s) - 1 \in Nat  BY <1>1
  <2> QED  BY <2>1, <2>2, MakeSeq
<1> QED  BY <1>1, <1>2, <1>3

LEMMA CircleGrows ==
  ASSUME NEW next, NEW m, NEW l \in Lists, NEW s, Circle(next, l, s),
         NEW p \in 0 .. Len(s), NEW node \in Nodes,
         \A i \in 1 .. Len(s) : s[i] # node,
         m[Spot(l, s, p)] = node, m[node] = Spot(l, s, p + 1),
         \A i \in 0 .. Len(s) : i # p => m[Spot(l, s, i)] = next[Spot(l, s, i)]
  PROVE  Circle(m, l, Grown(s, p, node))
<1> DEFINE g == Grown(s, p, node)
<1>t. s \in Seq(Nodes) /\ Len(s) \in Nat /\ g \in Seq(Nodes) /\ Len(g) = Len(s) + 1
      /\ l \notin Nodes /\ node # l
      /\ \A i \in 1 .. Len(s) : s[i] \in Nodes
  <2>1. s \in Seq(Nodes)  BY DEF Circle
  <2>2. l \notin Nodes /\ node # l  BY CellsAssumption
  <2> QED  BY <2>1, <2>2, SeqFacts
<1>1. \A i \in 1 .. Len(s) + 1 :
         g[i] = IF i <= p THEN s[i] ELSE IF i = p + 1 THEN node ELSE s[i - 1]
  BY DEF Grown
<1>2. \A i \in 0 .. Len(s) + 2 :
         Spot(l, g, i) = IF i <= p THEN Spot(l, s, i)
                         ELSE IF i = p + 1 THEN node ELSE Spot(l, s, i - 1)
  <2> HIDE DEF g
  <2> QED  BY <1>t, <1>1 DEF Spot
<1> HIDE DEF g
<1>3. \A i, j \in 1 .. Len(g) : g[i] = g[j] => i = j
  <2> DEFINE old(i) == IF i <= p THEN i ELSE i - 1
  <2> SUFFICES ASSUME NEW i \in 1 .. Len(g), NEW j \in 1 .. Len(g), g[i] = g[j]
               PROVE  i = j
    OBVIOUS
  <2>1. /\ i # p + 1 => old(i) \in 1 .. Len(s) /\ g[i] = s[old(i)]
        /\ j # p + 1 => old(j) \in 1 .. Len(s) /\ g[j] = s[old(j)]
        /\ i = p + 1 => g[i] = node
        /\ j = p + 1 => g[j] = node
    BY <1>t, <1>1
  <2>2. i # p + 1 /\ j # p + 1 => old(i) = old(j)
    <3> HIDE DEF old
    <3> QED  BY <2>1 DEF Circle
  <2>3. (i = p + 1) <=> (j = p + 1)
    <3> HIDE DEF old
    <3> QED  BY <2>1
  <2> QED  BY <2>2, <2>3, <1>t
<1>4. ASSUME NEW i \in 0 .. Len(g) PROVE m[Spot(l, g, i)] = Spot(l, g, i + 1)
  <2>1. CASE i < p
    <3>1. Spot(l, g, i) = Spot(l, s, i) /\ Spot(l, g, i + 1) = Spot(l, s, i + 1)
      BY <1>2, <1>t, <2>1
    <3> QED  BY <3>1, <2>1, <1>t DEF Circle
  <2>2. CASE i = p
    <3>1. Spot(l, g, i) = Spot(l, s, p) /\ Spot(l, g, i + 1) = node
      BY <1>2, <1>t, <2>2
    <3> QED  BY <3>1
  <2>3. CASE i = p + 1
    <3>1. Spot(l, g, i) = node /\ Spot(l, g, i + 1) = Spot(l, s, p + 1)
      BY <1>2, <1>t, <2>3
    <3> QED  BY <3>1
  <2>4. CASE i > p + 1
    <3>1. Spot(l, g, i) = Spot(l, s, i - 1) /\ Spot(l, g, i + 1) = Spot(l, s, i)
      BY <1>2, <1>t, <2>4
    <3>2. i - 1 \in 0 .. Len(s) /\ i - 1 # p /\ (i - 1) + 1 = i
      BY <1>t, <2>4
    <3>3. next[Spot(l, s, i - 1)] = Spot(l, s, (i - 1) + 1)
      BY <3>2 DEF Circle
    <3> QED  BY <3>1, <3>2, <3>3
  <2> QED  BY <2>1, <2>2, <2>3, <2>4, <1>t
<1> QED  BY <1>t, <1>3, <1>4 DEF Circle, g

LEMMA CircleShrinks ==
  ASSUME NEW next, NEW m, NEW l \in Lists, NEW s, Circle(next, l, s),
         NEW p \in 1 .. Len(s),
         m[Spot(l, s, p - 1)] = Spot(l, s, p + 1),
         \A i \in 0 .. Len(s) : i # p - 1 /\ i # p =>
            m[Spot(l, s, i)] = next[Spot(l, s, i)]
  PROVE  Circle(m, l, Shrunk(s, p))
<1> DEFINE g == Shrunk(s, p)
<1>t. s \in Seq(Nodes) /\ Len(s) \in Nat /\ g \in Seq(Nodes) /\ Len(g) = Len(s) - 1
      /\ l \notin Nodes
      /\ \A i \in 1 .. Len(s) : s[i] \in Nodes
  BY SeqFacts, CellsAssumption DEF Circle
<1>1. \A i \in 1 .. Len(s) - 1 : g[i] = IF i < p THEN s[i] ELSE s[i + 1]
  BY DEF Shrunk
<1>2. \A i \in 0 .. Len(s) :
         Spot(l, g, i) = IF i < p THEN Spot(l, s, i) ELSE Spot(l, s, i + 1)
  <2> HIDE DEF g
  <2> QED  BY <1>t, <1>1 DEF Spot
<1> HIDE DEF g
<1>3. \A i, j \in 1 .. Len(g) : g[i] = g[j] => i = j
  <2> DEFINE old(i) == IF i < p THEN i ELSE i + 1
  <2> SUFFICES ASSUME NEW i \in 1 .. Len(g), NEW j \in 1 .. Len(g), g[i] = g[j]
               PROVE  i = j
    OBVIOUS
  <2>1. /\ old(i) \in 1 .. Len(s) /\ g[i] = s[old(i)]
        /\ old(j) \in 1 .. Len(s) /\ g[j] = s[old(j)]
    BY <1>t, <1>1
  <2>2. old(i) = old(j)
    <3> HIDE DEF old
    <3> QED  BY <2>1 DEF Circle
  <2> QED  BY <2>2, <1>t
<1>4. ASSUME NEW i \in 0 .. Len(g) PROVE m[Spot(l, g, i)] = Spot(l, g, i + 1)
  <2>1. CASE i + 1 < p
    <3>1. Spot(l, g, i) = Spot(l, s, i) /\ Spot(l, g, i + 1) = Spot(l, s, i + 1)
      BY <1>2, <1>t, <2>1
    <3>2. i \in 0 .. Len(s) /\ i # p /\ i # p - 1  BY <1>t, <2>1
    <3>3. next[Spot(l, s, i)] = Spot(l, s, i + 1)  BY <3>2 DEF Circle
    <3> QED  BY <3>1, <3>2, <3>3
  <2>2. CASE i + 1 = p
    <3>1. Spot(l, g, i) = Spot(l, s, p - 1) /\ Spot(l, g, i + 1) = Spot(l, s, p + 1)
      BY <1>2, <1>t, <2>2
    <3> QED  BY <3>1
  <2>3. CASE i + 1 > p
    <3>1. Spot(l, g, i) = Spot(l, s, i + 1)
          /\ Spot(l, g, i + 1) = Spot(l, s, (i + 1) + 1)
      <4>1. i \in 0 .. Len(s) /\ i + 1 \in 0 .. Len(s) /\ ~(i < p) /\ ~(i + 1 < p)
        BY <1>t, <2>3
      <4> QED  BY <1>2, <4>1
    <3>2. i + 1 \in 0 .. Len(s) /\ i + 1 # p /\ i + 1 # p - 1  BY <1>t, <2>3
    <3>3. next[Spot(l, s, i + 1)] = Spot(l, s, (i + 1) + 1)  BY <3>2 DEF Circle
    <3> QED  BY <3>1, <3>2, <3>3
  <2> QED  BY <2>1, <2>2, <2>3, <1>t
<1> QED  BY <1>t, <1>3, <1>4 DEF Circle, g

-----------------------------------------------------------------------------
(* The nodes of a circle are those the list owns. *)

LEMMA SpotsDiffer ==
  ASSUME NEW next, NEW l \in Lists, NEW s, Circle(next, l, s)
  PROVE  /\ Len(s) \in Nat /\ \A i \in 1 .. Len(s) : s[i] \in Nodes /\ s[i] # l
         /\ \A i, j \in 0 .. Len(s) : Spot(l, s, i) = Spot(l, s, j) => i = j
<1>1. s \in Seq(Nodes)  BY DEF Circle
<1>2. Len(s) \in Nat /\ \A i \in 1 .. Len(s) : s[i] \in Nodes  BY <1>1, SeqFacts
<1>3. l \notin Nodes  BY CellsAssumption
<1> QED  BY <1>2, <1>3 DEF Circle, Spot

LEMMA CircleOwned ==
  ASSUME NEW k, NEW A, NEW own, Rings(k, A, own), NEW l \in Lists \cap A,
         NEW s, Circle(k.next, l, s)
  PROVE  /\ \A i \in 0 .. Len(s) + 1 : Spot(l, s, i) \in A /\ own[Spot(l, s, i)] = l
         /\ \A i \in 1 .. Len(s) : s[i] \in A /\ own[s[i]] = l
         /\ \A i \in 0 .. Len(s) : k.prev[Spot(l, s, i + 1)] = Spot(l, s, i)
         /\ \A c \in Owned(A, own, l) : \E i \in 1 .. Len(s) : c = s[i]
<1>t. Len(s) \in Nat /\ \A i \in 1 .. Len(s) : s[i] \in Nodes  BY SpotsDiffer
<1>k. /\ \A c \in A : k.next[c] \in A /\ k.prev[k.next[c]] = c
      /\ \A c \in A : own[k.next[c]] = own[c]
      /\ own[l] = l
  BY DEF Rings, Paired, Owners
<1>n. \A i \in 0 .. Len(s) : k.next[Spot(l, s, i)] = Spot(l, s, i + 1)
  BY DEF Circle
<1> DEFINE T == {i \in 0 .. Len(s) + 1 :
                    ~(Spot(l, s, i) \in A /\ own[Spot(l, s, i)] = l)}
<1>1. ASSUME T # {} PROVE FALSE
  <2>1. T \subseteq Nat  OBVIOUS
  <2>2. PICK m \in T : \A i \in T : m <= i
    <3> HIDE DEF T
    <3> QED  BY <1>1, <2>1, LeastNat
  <2>3. Spot(l, s, 0) = l  BY <1>t DEF Spot
  <2>4. m \in 1 .. Len(s) + 1  BY <2>2, <2>3, <1>k, <1>t
  <2>5. m - 1 \in 0 .. Len(s) /\ m - 1 \notin T /\ (m - 1) + 1 = m  BY <2>2, <2>4, <1>t
  <2>6. Spot(l, s, m - 1) \in A /\ own[Spot(l, s, m - 1)] = l  BY <2>5, <1>t
  <2>7. k.next[Spot(l, s, m - 1)] = Spot(l, s, m)  BY <2>5, <1>n
  <2>8. Spot(l, s, m) \in A /\ own[Spot(l, s, m)] = l  BY <2>6, <2>7, <1>k
  <2> QED  BY <2>2, <2>8
<1>2. \A i \in 0 .. Len(s) + 1 : Spot(l, s, i) \in A /\ own[Spot(l, s, i)] = l
  BY <1>1
<1>3. \A i \in 1 .. Len(s) : s[i] \in A /\ own[s[i]] = l
  BY <1>2, <1>t DEF Spot
<1>4. \A i \in 0 .. Len(s) : k.prev[Spot(l, s, i + 1)] = Spot(l, s, i)
  BY <1>2, <1>n, <1>k, <1>t
<1>5. ASSUME NEW c \in Owned(A, own, l) PROVE \E i \in 1 .. Len(s) : c = s[i]
  <2> DEFINE S == {Spot(l, s, i) : i \in 0 .. Len(s)}
  <2>1. S \in SUBSET A  BY <1>2, <1>t
  <2>2. Spot(l, s, 0) = l /\ Spot(l, s, Len(s) + 1) = l  BY <1>t DEF Spot
  <2>3. l \in S  BY <2>2, <1>t
  <2>4. Closed(k, S)
    <3> SUFFICES ASSUME NEW i \in 0 .. Len(s) PROVE k.next[Spot(l, s, i)] \in S
      BY DEF Closed
    <3>1. CASE i = Len(s)  BY <3>1, <1>n, <2>2, <2>3
    <3>2. CASE i # Len(s)
      <4>1. i + 1 \in 0 .. Len(s)  BY <3>2, <1>t
      <4> QED  BY <4>1, <1>n
    <3> QED  BY <3>1, <3>2
  <2>5. c \in S /\ c \in Nodes
    <3> HIDE DEF S
    <3> QED  BY <2>1, <2>3, <2>4 DEF Rings, Connected, Owned
  <2>6. l \notin Nodes  BY CellsAssumption
  <2> QED  BY <2>5, <2>6 DEF Spot
<1> QED  BY <1>2, <1>3, <1>4, <1>5

(* As many as there are. *)
LEMMA CircleCounts ==
  ASSUME NEW k, NEW A, NEW own, Rings(k, A, own), NEW l \in Lists \cap A,
         NEW s, Circle(k.next, l, s)
  PROVE  Cardinality(Owned(A, own, l)) = Len(s)
<1>t. Len(s) \in Nat /\ \A i \in 1 .. Len(s) : s[i] \in Nodes  BY SpotsDiffer
<1>1. s \in [1 .. Len(s) -> Nodes]  BY LenProperties DEF Circle
<1>2. \A i \in 1 .. Len(s) : s[i] \in Owned(A, own, l)
  BY <1>t, CircleOwned DEF Owned
<1>3. \A c \in Owned(A, own, l) : \E i \in 1 .. Len(s) : s[i] = c
  BY CircleOwned
<1>4. s \in Bijection(1 .. Len(s), Owned(A, own, l))
  <2>1. s \in [1 .. Len(s) -> Owned(A, own, l)]  BY <1>1, <1>2
  <2>2. IsInjective(s)  BY <1>1 DEF Circle, IsInjective
  <2> QED  BY <2>1, <2>2, <1>3 DEF Bijection, Injection, Surjection
<1>5. ExistsBijection(1 .. Len(s), Owned(A, own, l))
  BY <1>4 DEF ExistsBijection
<1> QED  BY <1>t, <1>5, FS_CountingElements

-----------------------------------------------------------------------------
(* What the node operations do to a circle, and to the others. *)

LEMMA InsertInCircle ==
  ASSUME NEW k \in Fields, NEW A, NEW own, Rings(k, A, own), NEW t \in Lists \cap A,
         NEW s, Circle(k.next, t, s), NEW p \in 0 .. Len(s), NEW node \in Nodes \ A
  PROVE  /\ Circle(Inserted(k, Spot(t, s, p), node).next, t, Grown(s, p, node))
         /\ \A l \in (Lists \cap A) \ {t} : \A u :
               Circle(k.next, l, u) =>
                  Circle(Inserted(k, Spot(t, s, p), node).next, l, u)
<1> DEFINE head == Spot(t, s, p)
           m == Inserted(k, head, node).next
<1>t. Len(s) \in Nat  BY SpotsDiffer
<1>o. /\ \A i \in 0 .. Len(s) + 1 : Spot(t, s, i) \in A /\ own[Spot(t, s, i)] = t
      /\ \A i \in 1 .. Len(s) : s[i] \in A /\ own[s[i]] = t
  BY CircleOwned
<1>h. head \in A /\ own[head] = t  BY <1>t, <1>o
<1>k. k.next \in [Cells -> Cells \cup {Null}] /\ A \subseteq Cells /\ node \in Cells
      /\ t \in A /\ own[t] = t
  BY DEF Fields, Rings, Owners, Cells
<1>m. m = [k.next EXCEPT ![head] = node, ![node] = k.next[head]]
  BY DEF Inserted
<1> HIDE DEF m, head
<1>1. m[node] = k.next[head] /\ m[head] = node
      /\ \A c \in A : c # head => m[c] = k.next[c]
  BY <1>m, <1>k, <1>h
<1>2. Circle(m, t, Grown(s, p, node))
  <2>1. m[Spot(t, s, p)] = node  BY <1>1 DEF head
  <2>2. k.next[Spot(t, s, p)] = Spot(t, s, p + 1)  BY DEF Circle
  <2>3. m[node] = Spot(t, s, p + 1)  BY <1>1, <2>2 DEF head
  <2>4. ASSUME NEW i \in 0 .. Len(s), i # p
        PROVE  m[Spot(t, s, i)] = k.next[Spot(t, s, i)]
    <3>1. Spot(t, s, i) # Spot(t, s, p)  BY <2>4, SpotsDiffer
    <3>2. Spot(t, s, i) \in A  BY <1>o, <1>t
    <3> QED  BY <3>1, <3>2, <1>1 DEF head
  <2>5. \A i \in 1 .. Len(s) : s[i] # node  BY <1>o
  <2> QED  BY <2>1, <2>3, <2>4, <2>5, CircleGrows
<1>3. ASSUME NEW l \in (Lists \cap A) \ {t}, NEW u, Circle(k.next, l, u)
      PROVE  Circle(m, l, u)
  <2>1. \A i \in 1 .. Len(u) : u[i] \in A /\ own[u[i]] = l
    BY <1>3, CircleOwned
  <2>2. l \in A /\ own[l] = l  BY DEF Rings, Owners
  <2>3. m[l] = k.next[l] /\ \A i \in 1 .. Len(u) : m[u[i]] = k.next[u[i]]
    BY <2>1, <2>2, <1>1, <1>h
  <2> QED  BY <1>3, <2>3, CircleSame
<1> QED  BY <1>2, <1>3 DEF m, head

LEMMA EraseFromCircle ==
  ASSUME NEW k \in Fields, NEW A, NEW own, Rings(k, A, own), NEW t \in Lists \cap A,
         NEW s, Circle(k.next, t, s), NEW p \in 1 .. Len(s)
  PROVE  /\ Circle(Erased(k, s[p]).next, t, Shrunk(s, p))
         /\ \A l \in (Lists \cap A) \ {t} : \A u :
               Circle(k.next, l, u) => Circle(Erased(k, s[p]).next, l, u)
<1> DEFINE behind == Spot(t, s, p - 1)
           m == Erased(k, s[p]).next
<1>t. Len(s) \in Nat /\ p - 1 \in 0 .. Len(s) /\ (p - 1) + 1 = p /\ p \in 0 .. Len(s)
  BY SpotsDiffer
<1>o. /\ \A i \in 0 .. Len(s) + 1 : Spot(t, s, i) \in A /\ own[Spot(t, s, i)] = t
      /\ \A i \in 0 .. Len(s) : k.prev[Spot(t, s, i + 1)] = Spot(t, s, i)
  BY CircleOwned
<1>n. Spot(t, s, p) = s[p]  BY DEF Spot
<1>h. behind \in A /\ own[behind] = t /\ k.prev[s[p]] = behind
      /\ k.next[s[p]] = Spot(t, s, p + 1)
  <2>1. k.prev[Spot(t, s, (p - 1) + 1)] = Spot(t, s, p - 1)  BY <1>t, <1>o
  <2>2. k.next[Spot(t, s, p)] = Spot(t, s, p + 1)  BY <1>t DEF Circle
  <2>3. behind \in A /\ own[behind] = t  BY <1>t, <1>o
  <2> QED  BY <2>1, <2>2, <2>3, <1>t, <1>n
<1>k. k.next \in [Cells -> Cells \cup {Null}] /\ A \subseteq Cells
  BY DEF Fields, Rings
<1>m. m = [k.next EXCEPT ![behind] = Spot(t, s, p + 1)]
  BY <1>h DEF Erased
<1> HIDE DEF m, behind
<1>1. m[behind] = Spot(t, s, p + 1)
      /\ \A c \in A : c # behind => m[c] = k.next[c]
  BY <1>m, <1>k, <1>h
<1>2. Circle(m, t, Shrunk(s, p))
  <2>1. m[Spot(t, s, p - 1)] = Spot(t, s, p + 1)  BY <1>1 DEF behind
  <2>2. ASSUME NEW i \in 0 .. Len(s), i # p - 1, i # p
        PROVE  m[Spot(t, s, i)] = k.next[Spot(t, s, i)]
    <3>1. Spot(t, s, i) # Spot(t, s, p - 1)  BY <2>2, <1>t, SpotsDiffer
    <3>2. Spot(t, s, i) \in A  BY <1>o, <1>t
    <3> QED  BY <3>1, <3>2, <1>1 DEF behind
  <2> QED  BY <2>1, <2>2, CircleShrinks
<1>3. ASSUME NEW l \in (Lists \cap A) \ {t}, NEW u, Circle(k.next, l, u)
      PROVE  Circle(m, l, u)
  <2>1. \A i \in 1 .. Len(u) : u[i] \in A /\ own[u[i]] = l
    BY <1>3, CircleOwned
  <2>2. l \in A /\ own[l] = l  BY DEF Rings, Owners
  <2>3. m[l] = k.next[l] /\ \A i \in 1 .. Len(u) : m[u[i]] = k.next[u[i]]
    BY <2>1, <2>2, <1>1, <1>h
  <2> QED  BY <1>3, <2>3, CircleSame
<1> QED  BY <1>2, <1>3 DEF m

-----------------------------------------------------------------------------
(* The state: every list is a circle, and its items are those of its nodes. *)

Order(l) == Chain(links.next, l)

OrderInv == \A l \in Lists \cap live : Circle(links.next, l, Order(l))

Inv == IInv /\ OrderInv

LEMMA OrderIs ==
  ASSUME NEW l \in Lists, NEW s, Circle(links.next, l, s)
  PROVE  Order(l) = s
BY ChainIs DEF Order

LEMMA OrderFacts ==
  ASSUME Inv, NEW l \in Lists \cap live
  PROVE  /\ Circle(links.next, l, Order(l))
         /\ Order(l) \in Seq(Nodes)
         /\ Len(Order(l)) \in Nat
         /\ Values(l) = [i \in 1 .. Len(Order(l)) |-> data[Order(l)[i]]]
         /\ Values(l) \in Seq(Vals \cup {Null})
         /\ Len(Values(l)) = Len(Order(l))
         /\ \A i \in 1 .. Len(Order(l)) : Order(l)[i] \in Nodes \cap live
<1>1. Circle(links.next, l, Order(l))  BY DEF Inv, OrderInv
<1>2. Order(l) \in Seq(Nodes)  BY <1>1 DEF Circle
<1>3. Len(Order(l)) \in Nat /\ DOMAIN Order(l) = 1 .. Len(Order(l))
      /\ \A i \in 1 .. Len(Order(l)) : Order(l)[i] \in Nodes
  BY <1>2, LenProperties, SeqFacts
<1>4. Values(l) = [i \in 1 .. Len(Order(l)) |-> data[Order(l)[i]]]
  BY <1>3 DEF Values, Order
<1>5. Values(l) \in [1 .. Len(Order(l)) -> Vals \cup {Null}]
  BY <1>3, <1>4 DEF Inv, IInv, TypeOK
<1>6. Values(l) \in Seq(Vals \cup {Null}) /\ Len(Values(l)) = Len(Order(l))
  BY <1>3, <1>5, MakeSeq
<1>7. PICK own : Rings(links, live, own)
  BY DEF Inv, IInv, Shape
<1>8. \A i \in 1 .. Len(Order(l)) : Order(l)[i] \in live
  BY <1>1, <1>7, CircleOwned
<1> QED  BY <1>1, <1>2, <1>3, <1>4, <1>6, <1>8

LEMMA InvFields == Inv => links \in Fields
BY DEF Inv, IInv, TypeOK, Fields


(* Items of a sequence of nodes. *)
ItemsOf(d, s) == [i \in 1 .. Len(s) |-> d[s[i]]]

LEMMA GrownItems ==
  ASSUME NEW s \in Seq(Nodes), NEW p \in 0 .. Len(s), NEW node \in Nodes,
         NEW d, NEW e, \A i \in 1 .. Len(s) : e[s[i]] = d[s[i]]
  PROVE  ItemsOf(e, Grown(s, p, node)) = Grown(ItemsOf(d, s), p, e[node])
<1> DEFINE g == Grown(s, p, node)
           w == ItemsOf(d, s)
<1>1. Len(s) \in Nat /\ Len(g) = Len(s) + 1  BY SeqFacts
<1>2. Len(w) = Len(s)  BY <1>1 DEF ItemsOf
<1>3. \A i \in 1 .. Len(s) + 1 :
         g[i] = IF i <= p THEN s[i] ELSE IF i = p + 1 THEN node ELSE s[i - 1]
  BY DEF Grown
<1>4. \A i \in 1 .. Len(s) : w[i] = d[s[i]]  BY DEF ItemsOf
<1>5. ItemsOf(e, g) = [i \in 1 .. Len(s) + 1 |-> e[g[i]]]
  <2> HIDE DEF g
  <2> QED  BY <1>1 DEF ItemsOf
<1>6. Grown(w, p, e[node]) =
         [i \in 1 .. Len(s) + 1 |-> IF i <= p THEN w[i]
                                    ELSE IF i = p + 1 THEN e[node] ELSE w[i - 1]]
  <2> HIDE DEF w
  <2> QED  BY <1>2 DEF Grown
<1>7. ASSUME NEW i \in 1 .. Len(s) + 1
      PROVE  e[g[i]] = IF i <= p THEN w[i]
                       ELSE IF i = p + 1 THEN e[node] ELSE w[i - 1]
  <2>1. CASE i <= p
    <3>1. i \in 1 .. Len(s) /\ g[i] = s[i]  BY <2>1, <1>1, <1>3
    <3> HIDE DEF g, w
    <3> QED  BY <2>1, <3>1, <1>4
  <2>2. CASE i = p + 1
    <3>1. ~(i <= p) /\ g[i] = node  BY <2>2, <1>1, <1>3
    <3> HIDE DEF g, w
    <3> QED  BY <2>2, <3>1
  <2>3. CASE i > p + 1
    <3>1. i - 1 \in 1 .. Len(s) /\ g[i] = s[i - 1] /\ ~(i <= p) /\ i # p + 1
      BY <2>3, <1>1, <1>3
    <3> HIDE DEF g, w
    <3> QED  BY <3>1, <1>4
  <2> QED  BY <2>1, <2>2, <2>3, <1>1
<1> HIDE DEF g, w
<1> QED  BY <1>5, <1>6, <1>7 DEF g, w

LEMMA ShrunkItems ==
  ASSUME NEW s \in Seq(Nodes), NEW p \in 1 .. Len(s),
         NEW d, NEW e, \A i \in 1 .. Len(s) : i # p => e[s[i]] = d[s[i]]
  PROVE  ItemsOf(e, Shrunk(s, p)) = Shrunk(ItemsOf(d, s), p)
<1> DEFINE g == Shrunk(s, p)
           w == ItemsOf(d, s)
<1>1. Len(s) \in Nat /\ Len(g) = Len(s) - 1  BY SeqFacts
<1>2. Len(w) = Len(s)  BY <1>1 DEF ItemsOf
<1>3. \A i \in 1 .. Len(s) - 1 : g[i] = IF i < p THEN s[i] ELSE s[i + 1]
  BY DEF Shrunk
<1>4. \A i \in 1 .. Len(s) : w[i] = d[s[i]]  BY DEF ItemsOf
<1>5. ItemsOf(e, g) = [i \in 1 .. Len(s) - 1 |-> e[g[i]]]
  <2> HIDE DEF g
  <2> QED  BY <1>1 DEF ItemsOf
<1>6. Shrunk(w, p) = [i \in 1 .. Len(s) - 1 |-> IF i < p THEN w[i] ELSE w[i + 1]]
  <2> HIDE DEF w
  <2> QED  BY <1>2 DEF Shrunk
<1>7. ASSUME NEW i \in 1 .. Len(s) - 1
      PROVE  e[g[i]] = IF i < p THEN w[i] ELSE w[i + 1]
  <2>1. CASE i < p
    <3>1. i \in 1 .. Len(s) /\ i # p /\ g[i] = s[i]  BY <2>1, <1>1, <1>3
    <3> HIDE DEF g, w
    <3> QED  BY <2>1, <3>1, <1>4
  <2>2. CASE i >= p
    <3>1. i + 1 \in 1 .. Len(s) /\ i + 1 # p /\ g[i] = s[i + 1] /\ ~(i < p)
      BY <2>2, <1>1, <1>3
    <3> HIDE DEF g, w
    <3> QED  BY <3>1, <1>4
  <2> QED  BY <2>1, <2>2, <1>1
<1> HIDE DEF g, w
<1> QED  BY <1>5, <1>6, <1>7 DEF g, w

LEMMA SameItems ==
  ASSUME NEW s \in Seq(Nodes), NEW d, NEW e, \A i \in 1 .. Len(s) : e[s[i]] = d[s[i]]
  PROVE  ItemsOf(e, s) = ItemsOf(d, s)
BY DEF ItemsOf

(* What the lists hold in the next state, given their circles there. *)
LEMMA NextOrder ==
  ASSUME NEW l \in Lists, NEW s, Circle(links'.next, l, s)
  PROVE  /\ Circle(links'.next, l, Order(l)')
         /\ Order(l)' = s
         /\ Values(l)' = ItemsOf(data', s)
<1>1. Order(l)' = s  BY ChainIs DEF Order
<1>2. DOMAIN s = 1 .. Len(s)  BY LenProperties DEF Circle
<1>3. Values(l)' = ItemsOf(data', s)
  BY <1>1, <1>2 DEF Values, Order, ItemsOf
<1> QED  BY <1>1, <1>3

LEMMA ValuesAre ==
  ASSUME Inv, NEW l \in Lists \cap live
  PROVE  Values(l) = ItemsOf(data, Order(l))
BY OrderFacts DEF ItemsOf

(* A step that adds a node behind place p of list t. *)
LEMMA NodeAdded ==
  ASSUME Inv, NEW t \in Lists \cap live, NEW p \in 0 .. Len(Order(t)), NEW v,
         NodeAdd(Spot(t, Order(t), p), v)
  PROVE  /\ Lists \cap live' = Lists \cap live
         /\ OrderInv'
         /\ \E node \in Nodes : Order(t)' = Grown(Order(t), p, node)
         /\ Values(t)' = Grown(Values(t), p, v)
         /\ \A l \in (Lists \cap live) \ {t} : /\ Order(l)' = Order(l)
                                               /\ Values(l)' = Values(l)
<1> DEFINE head == Spot(t, Order(t), p)
<1>1. PICK node \in Nodes \ live : /\ links' = Inserted(links, head, node)
                                   /\ data' = [data EXCEPT ![node] = v]
                                   /\ live' = live \cup {node}
  BY DEF NodeAdd
<1>2. PICK own : Rings(links, live, own)
  BY DEF Inv, IInv, Shape
<1>3. links \in Fields /\ data \in [Nodes -> Vals \cup {Null}]
  BY InvFields DEF Inv, IInv, TypeOK
<1>4. Lists \cap live' = Lists \cap live
  BY <1>1, CellsAssumption
<1>5. /\ Circle(links'.next, t, Grown(Order(t), p, node))
      /\ \A l \in (Lists \cap live) \ {t} : Circle(links'.next, l, Order(l))
  <2>1. Circle(links.next, t, Order(t))  BY OrderFacts
  <2>2. \A l \in (Lists \cap live) \ {t} : Circle(links.next, l, Order(l))
    BY OrderFacts
  <2> HIDE DEF head
  <2> QED  BY <1>1, <1>2, <1>3, <2>1, <2>2, InsertInCircle DEF head
<1>6. ASSUME NEW l \in Lists \cap live, NEW i \in 1 .. Len(Order(l))
      PROVE  data'[Order(l)[i]] = data[Order(l)[i]]
  <2>1. Order(l)[i] \in Nodes \cap live  BY OrderFacts
  <2> QED  BY <2>1, <1>1, <1>3
<1>7. data'[node] = v  BY <1>1, <1>3
<1>8. Values(t)' = Grown(Values(t), p, v)
  <2>1. Values(t)' = ItemsOf(data', Grown(Order(t), p, node))  BY <1>5, NextOrder
  <2>2. Order(t) \in Seq(Nodes)  BY OrderFacts
  <2>3. \A i \in 1 .. Len(Order(t)) : data'[Order(t)[i]] = data[Order(t)[i]]
    BY <1>6
  <2>4. ItemsOf(data', Grown(Order(t), p, node))
            = Grown(ItemsOf(data, Order(t)), p, data'[node])
    BY <2>2, <2>3, GrownItems
  <2> QED  BY <2>1, <2>4, <1>7, ValuesAre
<1>9. ASSUME NEW l \in (Lists \cap live) \ {t}
      PROVE  Order(l)' = Order(l) /\ Values(l)' = Values(l)
  <2>1. Circle(links'.next, l, Order(l))  BY <1>5
  <2>2. Values(l)' = ItemsOf(data', Order(l)) /\ Order(l)' = Order(l)
    BY <2>1, NextOrder
  <2>3. Order(l) \in Seq(Nodes) /\ Values(l) = ItemsOf(data, Order(l))
    BY OrderFacts, ValuesAre
  <2>4. \A i \in 1 .. Len(Order(l)) : data'[Order(l)[i]] = data[Order(l)[i]]
    BY <1>6
  <2> QED  BY <2>2, <2>3, <2>4, SameItems
<1>10. Order(t)' = Grown(Order(t), p, node)
  BY <1>5, NextOrder
<1>11. OrderInv'
  BY <1>4, <1>5, NextOrder DEF OrderInv
<1> QED  BY <1>4, <1>8, <1>9, <1>10, <1>11

(* A step that frees the node in place p of list t. *)
LEMMA NodeFreed ==
  ASSUME Inv, NEW t \in Lists \cap live, NEW p \in 1 .. Len(Order(t)),
         NodeFree(Order(t)[p])
  PROVE  /\ Lists \cap live' = Lists \cap live
         /\ OrderInv'
         /\ Order(t)' = Shrunk(Order(t), p)
         /\ Values(t)' = Shrunk(Values(t), p)
         /\ \A l \in (Lists \cap live) \ {t} : /\ Order(l)' = Order(l)
                                               /\ Values(l)' = Values(l)
<1> DEFINE node == Order(t)[p]
           e == Erased(links, node)
<1>1. /\ links' = Forgotten(e, node)
      /\ data' = [data EXCEPT ![node] = Null]
      /\ live' = live \ {node}
  BY DEF NodeFree
<1>2. PICK own : Rings(links, live, own)
  BY DEF Inv, IInv, Shape
<1>3. links \in Fields /\ data \in [Nodes -> Vals \cup {Null}]
  BY InvFields DEF Inv, IInv, TypeOK
<1>o. \A l \in Lists \cap live :
         /\ Circle(links.next, l, Order(l)) /\ Order(l) \in Seq(Nodes)
         /\ \A i \in 1 .. Len(Order(l)) : Order(l)[i] \in live /\ Order(l)[i] \in Nodes
                                          /\ own[Order(l)[i]] = l
  BY <1>2, OrderFacts, CircleOwned
<1>n. node \in Nodes \cap live /\ own[node] = t /\ node \in Cells
  BY <1>o DEF Cells
<1>4. Lists \cap live' = Lists \cap live
  BY <1>1, <1>n, CellsAssumption
<1>5. /\ Circle(e.next, t, Shrunk(Order(t), p))
      /\ \A l \in (Lists \cap live) \ {t} : Circle(e.next, l, Order(l))
  BY <1>2, <1>3, <1>o, EraseFromCircle
<1>6. e.next \in [Cells -> Cells \cup {Null}] /\ links'.next = [e.next EXCEPT ![node] = Null]
  <2>1. links.next[node] \in Cells /\ links.prev[node] \in Cells
    BY <1>2, <1>n DEF Rings, Paired
  <2>2. e \in Fields
    <3> HIDE DEF node
    <3> QED  BY <2>1, <1>3, <1>n, FieldsStay
  <2> QED  BY <2>2, <1>1 DEF Forgotten, Fields
<1> HIDE DEF e, node
<1>7. \A c \in Cells : c # node => links'.next[c] = e.next[c]
  BY <1>6
<1>8. ASSUME NEW i \in 1 .. Len(Shrunk(Order(t), p))
      PROVE  Shrunk(Order(t), p)[i] \in Cells /\ Shrunk(Order(t), p)[i] # node
  <2>1. Len(Order(t)) \in Nat /\ i \in 1 .. Len(Order(t)) - 1
    BY <1>o, SeqFacts
  <2>2. Shrunk(Order(t), p)[i] = IF i < p THEN Order(t)[i] ELSE Order(t)[i + 1]
    BY <2>1 DEF Shrunk
  <2>3. i \in 1 .. Len(Order(t)) /\ i + 1 \in 1 .. Len(Order(t))  BY <2>1
  <2>4. \A j \in 1 .. Len(Order(t)) : j # p => Order(t)[j] # node
    BY <1>o DEF Circle, node
  <2>5. \A j \in 1 .. Len(Order(t)) : Order(t)[j] \in Cells
    BY <1>o DEF Cells
  <2> QED  BY <2>1, <2>2, <2>3, <2>4, <2>5
<1>9. \A l \in Lists : l \in Cells /\ l # node
  BY <1>n, CellsAssumption DEF Cells
<1>10. Circle(links'.next, t, Shrunk(Order(t), p))
  BY <1>5, <1>7, <1>8, <1>9, CircleSame
<1>11. ASSUME NEW l \in (Lists \cap live) \ {t}, NEW i \in 1 .. Len(Order(l))
       PROVE  Order(l)[i] \in Cells /\ Order(l)[i] # node /\ Order(l)[i] \in Nodes
  BY <1>o, <1>n DEF Cells
<1>12. \A l \in (Lists \cap live) \ {t} : Circle(links'.next, l, Order(l))
  BY <1>5, <1>7, <1>9, <1>11, CircleSame
<1>13. \A c \in Nodes : c # node => data'[c] = data[c]
  BY <1>1, <1>3 DEF node
<1>14. Order(t)' = Shrunk(Order(t), p) /\ Values(t)' = Shrunk(Values(t), p)
  <2>1. Order(t)' = Shrunk(Order(t), p)
        /\ Values(t)' = ItemsOf(data', Shrunk(Order(t), p))
    BY <1>10, NextOrder
  <2>2. ASSUME NEW i \in 1 .. Len(Order(t)), i # p
        PROVE  data'[Order(t)[i]] = data[Order(t)[i]]
    <3>1. Order(t)[i] \in Nodes /\ Order(t)[i] # node
      BY <2>2, <1>o DEF Circle, node
    <3> QED  BY <3>1, <1>13
  <2>3. ItemsOf(data', Shrunk(Order(t), p)) = Shrunk(ItemsOf(data, Order(t)), p)
    BY <1>o, <2>2, ShrunkItems
  <2> QED  BY <2>1, <2>3, ValuesAre
<1>15. ASSUME NEW l \in (Lists \cap live) \ {t}
       PROVE  Order(l)' = Order(l) /\ Values(l)' = Values(l)
  <2>1. Values(l)' = ItemsOf(data', Order(l)) /\ Order(l)' = Order(l)
    BY <1>12, NextOrder
  <2>2. \A i \in 1 .. Len(Order(l)) : data'[Order(l)[i]] = data[Order(l)[i]]
    BY <1>11, <1>13
  <2> QED  BY <2>1, <2>2, <1>o, SameItems, ValuesAre
<1>16. OrderInv'
  BY <1>4, <1>10, <1>12, NextOrder DEF OrderInv
<1> QED  BY <1>4, <1>14, <1>15, <1>16

(* A step that moves the node in place p of list t to its front. *)
LEMMA NodeMoved ==
  ASSUME Inv, NEW t \in Lists \cap live, NEW p \in 1 .. Len(Order(t)),
         links' = Inserted(Erased(links, Order(t)[p]), t, Order(t)[p]),
         UNCHANGED <<live, data>>
  PROVE  /\ OrderInv'
         /\ Order(t)' = Grown(Shrunk(Order(t), p), 0, Order(t)[p])
         /\ Values(t)' = Grown(Shrunk(Values(t), p), 0, Values(t)[p])
         /\ \A l \in (Lists \cap live) \ {t} : /\ Order(l)' = Order(l)
                                               /\ Values(l)' = Values(l)
<1> DEFINE node == Order(t)[p]
           e == Erased(links, node)
           A == live \ {node}
           s == Shrunk(Order(t), p)
<1>2. PICK own : Rings(links, live, own)
  BY DEF Inv, IInv, Shape
<1>3. links \in Fields /\ data \in [Nodes -> Vals \cup {Null}]
  BY InvFields DEF Inv, IInv, TypeOK
<1>o. \A l \in Lists \cap live :
         /\ Circle(links.next, l, Order(l)) /\ Order(l) \in Seq(Nodes)
         /\ \A i \in 1 .. Len(Order(l)) : Order(l)[i] \in live /\ Order(l)[i] \in Nodes
                                          /\ own[Order(l)[i]] = l
  BY <1>2, OrderFacts, CircleOwned
<1>n. node \in Nodes \cap live /\ own[node] = t /\ node \in Cells
  BY <1>o DEF Cells
<1>l. \A l \in Lists \cap live : l \in Lists \cap A
  BY <1>n, CellsAssumption
<1>5. /\ Circle(e.next, t, s)
      /\ \A l \in (Lists \cap live) \ {t} : Circle(e.next, l, Order(l))
  BY <1>2, <1>3, <1>o, EraseFromCircle
<1>6. e \in Fields
  <2>1. links.next[node] \in Cells /\ links.prev[node] \in Cells
    BY <1>2, <1>n DEF Rings, Paired
  <2> HIDE DEF node
  <2> QED  BY <2>1, <1>3, <1>n, FieldsStay
<1>7. Rings(e, A, own)
  <2> HIDE DEF node
  <2> QED  BY <1>2, <1>3, <1>n, EraseKeeps
<1>8. s \in Seq(Nodes) /\ Len(s) = Len(Order(t)) - 1 /\ Len(Order(t)) \in Nat
  BY <1>o, SeqFacts
<1>9. Spot(t, s, 0) = t /\ 0 \in 0 .. Len(s)  BY <1>8 DEF Spot
<1>10. links' = Inserted(e, t, node)  OBVIOUS
<1>11. /\ Circle(links'.next, t, Grown(s, 0, node))
       /\ \A l \in (Lists \cap live) \ {t} : Circle(links'.next, l, Order(l))
  <2> HIDE DEF e, A, s, node
  <2>1. node \in Nodes \ A  BY <1>n DEF A
  <2>2. t \in Lists \cap A /\ \A l \in (Lists \cap live) \ {t} : l \in (Lists \cap A) \ {t}
    BY <1>l
  <2>3. /\ Circle(Inserted(e, Spot(t, s, 0), node).next, t, Grown(s, 0, node))
        /\ \A l \in (Lists \cap A) \ {t} : \A u :
              Circle(e.next, l, u) => Circle(Inserted(e, Spot(t, s, 0), node).next, l, u)
    BY <1>5, <1>6, <1>7, <1>9, <2>1, <2>2, InsertInCircle
  <2> QED  BY <1>5, <1>9, <1>10, <2>2, <2>3
<1>12. \A l \in Lists \cap live : Circle(links'.next, l, Order(l)')
  <2> HIDE DEF s, node
  <2> QED  BY <1>11, NextOrder
<1>13. OrderInv'
  BY <1>12 DEF OrderInv
<1>14. ASSUME NEW l \in (Lists \cap live) \ {t}
       PROVE  Order(l)' = Order(l) /\ Values(l)' = Values(l)
  <2>1. Circle(links'.next, l, Order(l))  BY <1>11
  <2>2. Values(l)' = ItemsOf(data', Order(l)) /\ Order(l)' = Order(l)
    BY <2>1, NextOrder
  <2> QED  BY <2>2, ValuesAre
<1>15. Order(t)' = Grown(s, 0, node) /\ Values(t)' = ItemsOf(data', Grown(s, 0, node))
  <2> HIDE DEF s, node
  <2> QED  BY <1>11, NextOrder
<1>16. ItemsOf(data, Grown(s, 0, node)) = Grown(ItemsOf(data, s), 0, data[node])
  <2> HIDE DEF s, node
  <2> QED  BY <1>8, <1>9, <1>n, GrownItems
<1>17. ItemsOf(data, s) = Shrunk(ItemsOf(data, Order(t)), p)
  BY <1>o, ShrunkItems
<1>18. data[node] = Values(t)[p]
  BY OrderFacts
<1> QED  BY <1>13, <1>14, <1>15, <1>16, <1>17, <1>18, ValuesAre

-----------------------------------------------------------------------------
(* The operators of Deque on sequences of items, in terms of places. *)

LEMMA PushIsGrown ==
  ASSUME NEW S, NEW V \in Seq(S), NEW v \in S
  PROVE  /\ Append(V, v) = Grown(V, Len(V), v)
         /\ AbstractDeque!Cons(v, V) = Grown(V, 0, v)
<1>1. Len(V) \in Nat /\ 0 \in 0 .. Len(V) /\ Len(V) \in 0 .. Len(V)
  BY LenProperties
<1>2. /\ Grown(V, Len(V), v) \in Seq(S) /\ Len(Grown(V, Len(V), v)) = Len(V) + 1
      /\ Grown(V, 0, v) \in Seq(S) /\ Len(Grown(V, 0, v)) = Len(V) + 1
  BY <1>1, SeqFacts
<1>3. Append(V, v) = Grown(V, Len(V), v)
  <2>1. /\ Append(V, v) \in Seq(S) /\ Len(Append(V, v)) = Len(V) + 1
        /\ \A i \in 1 .. Len(V) + 1 :
              Append(V, v)[i] = IF i = Len(V) + 1 THEN v ELSE V[i]
    BY <1>1
  <2>2. \A i \in 1 .. Len(V) + 1 :
           Grown(V, Len(V), v)[i] = IF i = Len(V) + 1 THEN v ELSE V[i]
    BY <1>1 DEF Grown
  <2>3. \A i \in 1 .. Len(V) + 1 : Append(V, v)[i] = Grown(V, Len(V), v)[i]
    BY <2>1, <2>2
  <2> QED  BY <1>2, <2>1, <2>3, SeqEqual
<1>4. AbstractDeque!Cons(v, V) = Grown(V, 0, v)
  <2>1. <<v>> \in Seq(S) /\ Len(<<v>>) = 1 /\ <<v>>[1] = v  OBVIOUS
  <2>2. /\ <<v>> \o V \in Seq(S) /\ Len(<<v>> \o V) = 1 + Len(V)
        /\ \A i \in 1 .. 1 + Len(V) :
              (<<v>> \o V)[i] = IF i <= 1 THEN v ELSE V[i - 1]
    <3> HIDE <1>2, <1>3
    <3>1. /\ <<v>> \o V \in Seq(S) /\ Len(<<v>> \o V) = Len(<<v>>) + Len(V)
          /\ \A i \in 1 .. Len(<<v>>) + Len(V) :
                (<<v>> \o V)[i] = IF i <= Len(<<v>>) THEN <<v>>[i] ELSE V[i - Len(<<v>>)]
      BY <2>1, ConcatProperties
    <3> QED  BY <3>1, <2>1, <1>1
  <2>3. \A i \in 1 .. Len(V) + 1 :
           Grown(V, 0, v)[i] = IF i <= 1 THEN v ELSE V[i - 1]
    BY <1>1 DEF Grown
  <2>4. \A i \in 1 .. Len(V) + 1 : (<<v>> \o V)[i] = Grown(V, 0, v)[i]
    BY <2>2, <2>3, <1>1
  <2>5. Len(<<v>> \o V) = Len(V) + 1  BY <2>2, <1>1
  <2>6. <<v>> \o V = Grown(V, 0, v)
    BY <1>2, <2>2, <2>4, <2>5, SeqEqual
  <2> QED  BY <2>6 DEF AbstractDeque!Cons
<1> QED  BY <1>3, <1>4

LEMMA PopIsShrunk ==
  ASSUME NEW S, NEW V \in Seq(S), V # <<>>
  PROVE  /\ AbstractDeque!Front(V) = Shrunk(V, Len(V))
         /\ Tail(V) = Shrunk(V, 1)
<1>1. Len(V) \in Nat /\ Len(V) > 0 /\ 1 \in 1 .. Len(V) /\ Len(V) \in 1 .. Len(V)
  BY EmptySeq, LenProperties
<1>2. /\ Shrunk(V, Len(V)) \in Seq(S) /\ Len(Shrunk(V, Len(V))) = Len(V) - 1
      /\ Shrunk(V, 1) \in Seq(S) /\ Len(Shrunk(V, 1)) = Len(V) - 1
  BY <1>1, SeqFacts
<1>3. SubSeq(V, 1, Len(V) - 1) = Shrunk(V, Len(V))
  <2>1. /\ SubSeq(V, 1, Len(V) - 1) \in Seq(S)
        /\ Len(SubSeq(V, 1, Len(V) - 1)) = Len(V) - 1
        /\ \A i \in 1 .. Len(V) - 1 : SubSeq(V, 1, Len(V) - 1)[i] = V[i]
    <3>1. 1 \in Int /\ Len(V) - 1 \in Int /\ \A i \in 1 .. Len(V) - 1 : V[i] \in S
      BY <1>1
    <3> DEFINE n == Len(V) - 1
               a == SubSeq(V, 1, n)
    <3>2. n \in Int /\ \A i \in 1 .. n : V[i] \in S  BY <3>1
    <3>3. /\ a \in Seq(S) /\ Len(a) = IF 1 <= n THEN n - 1 + 1 ELSE 0
          /\ \A i \in 1 .. n - 1 + 1 : a[i] = V[1 + i - 1]
      <4> HIDE DEF n
      <4> QED  BY <3>2, SubSeqProperties
    <3>4. n - 1 + 1 = n /\ \A i \in 1 .. n : 1 + i - 1 = i  BY <1>1
    <3>5. n \in Nat  BY <1>1
    <3> HIDE DEF a, n
    <3>6. Len(a) = n  BY <3>3, <3>5
    <3>7. \A i \in 1 .. n : a[i] = V[i]  BY <3>3, <3>4
    <3> QED  BY <3>3, <3>6, <3>7 DEF a, n
  <2>2. \A i \in 1 .. Len(V) - 1 : Shrunk(V, Len(V))[i] = V[i]
    BY <1>1 DEF Shrunk
  <2> QED  BY <1>2, <2>1, <2>2, SeqEqual
<1>4. Tail(V) = Shrunk(V, 1)
  <2>1. /\ Tail(V) \in Seq(S) /\ Len(Tail(V)) = Len(V) - 1
        /\ \A i \in 1 .. Len(V) - 1 : Tail(V)[i] = V[i + 1]
    BY HeadTailProperties
  <2>2. \A i \in 1 .. Len(V) - 1 : Shrunk(V, 1)[i] = V[i + 1]
    BY <1>1 DEF Shrunk
  <2> QED  BY <1>2, <2>1, <2>2, SeqEqual
<1> QED  BY <1>3, <1>4 DEF AbstractDeque!Front

LEMMA FirstIsShrunk ==
  ASSUME NEW S, NEW V \in Seq(S), NEW e, NEW k \in 1 .. Len(V), V[k] = e,
         \A j \in 1 .. Len(V) : j < k => V[j] # e
  PROVE  AbstractDeque!RemoveFirst(V, e) = Shrunk(V, k)
<1> DEFINE I == {i \in 1 .. Len(V) : V[i] = e}
           low == CHOOSE x \in I : \A y \in I : x =< y
           a == SubSeq(V, 1, k - 1)
           b == SubSeq(V, k + 1, Len(V))
<1>t. Len(V) \in Nat  BY LenProperties
<1>1. low = k
  <2>1. k \in I /\ \A y \in I : k =< y  BY <1>t
  <2>2. \A x \in I : (\A y \in I : x =< y) => x = k  BY <2>1, <1>t
  <2> HIDE DEF I
  <2> QED  BY <2>1, <2>2
<1>2. AbstractDeque!RemoveFirst(V, e) =
         SubSeq(V, 1, low - 1) \o SubSeq(V, low + 1, Len(V))
  <2>1. I # {} /\ \E i \in 1 .. Len(V) : V[i] = e  OBVIOUS
  <2> QED  BY <2>1 DEF AbstractDeque!RemoveFirst, AbstractDeque!RemoveAt,
                       AbstractDeque!SelectInSeq, AbstractDeque!Min
<1>3. /\ a \in Seq(S) /\ Len(a) = k - 1 /\ \A i \in 1 .. k - 1 : a[i] = V[i]
      /\ b \in Seq(S) /\ Len(b) = Len(V) - k
      /\ \A i \in 1 .. Len(V) - k : b[i] = V[k + i]
  BY <1>t, SubSeqProperties
<1>4. /\ a \o b \in Seq(S) /\ Len(a \o b) = Len(V) - 1
      /\ \A i \in 1 .. Len(V) - 1 : (a \o b)[i] = IF i < k THEN V[i] ELSE V[i + 1]
  <2> HIDE DEF a, b
  <2>1. /\ a \o b \in Seq(S) /\ Len(a \o b) = Len(a) + Len(b)
        /\ \A i \in 1 .. Len(a) + Len(b) :
              (a \o b)[i] = IF i <= Len(a) THEN a[i] ELSE b[i - Len(a)]
    BY <1>3, ConcatProperties
  <2>2. Len(a \o b) = Len(V) - 1  BY <2>1, <1>3, <1>t
  <2>3. ASSUME NEW i \in 1 .. Len(V) - 1
        PROVE  (a \o b)[i] = IF i < k THEN V[i] ELSE V[i + 1]
    <3>1. (a \o b)[i] = IF i <= k - 1 THEN a[i] ELSE b[i - (k - 1)]
      BY <2>1, <1>3, <1>t
    <3>t. i < k \/ i >= k  OBVIOUS
    <3>2. CASE i < k
      <4>1. i \in 1 .. k - 1 /\ i <= k - 1  BY <3>2, <1>t
      <4> QED  BY <3>1, <3>2, <4>1, <1>3
    <3>3. CASE i >= k
      <4>1. i - (k - 1) \in 1 .. Len(V) - k /\ ~(i <= k - 1)
            /\ k + (i - (k - 1)) = i + 1 /\ ~(i < k)
        BY <3>3, <1>t
      <4>2. b[i - (k - 1)] = V[k + (i - (k - 1))]  BY <4>1, <1>3
      <4> QED  BY <3>1, <4>1, <4>2
    <3> QED  BY <3>t, <3>2, <3>3
  <2> QED  BY <2>1, <2>2, <2>3
<1>5. Shrunk(V, k) \in Seq(S) /\ Len(Shrunk(V, k)) = Len(V) - 1
  BY SeqFacts
<1>6. \A i \in 1 .. Len(V) - 1 : Shrunk(V, k)[i] = IF i < k THEN V[i] ELSE V[i + 1]
  BY DEF Shrunk
<1>7. a \o b = Shrunk(V, k)
  <2>1. \A i \in 1 .. Len(V) - 1 : (a \o b)[i] = Shrunk(V, k)[i]
    <3> HIDE DEF a, b
    <3> QED  BY <1>4, <1>6
  <2> HIDE DEF a, b
  <2> QED  BY <1>4, <1>5, <2>1, SeqEqual
<1> QED  BY <1>1, <1>2, <1>7

LEMMA NothingRemoved ==
  ASSUME NEW S, NEW V \in Seq(S), NEW e, \A j \in 1 .. Len(V) : V[j] # e
  PROVE  AbstractDeque!RemoveFirst(V, e) = V
BY DEF AbstractDeque!RemoveFirst

-----------------------------------------------------------------------------
(* The invariant of the calls: what they have done to the items so far.    *)

(* What the caller may have asked for. *)
AskedInv ==
    request # Null =>
       /\ request = [op |-> request.op, on |-> request.on, arg |-> request.arg]
       /\ request.op \in {"free", "clear", "pop_back", "pop_front", "reverse"} =>
             request.arg = Null
       /\ request.op \in {"push_back", "push_front", "remove"} => request.arg \in Vals
       /\ request.op = "assign" => request.arg \in AssignArgs

(* The list a call has begun to change. *)
Changing(l) == \/ loop.pc \in {"clear", "cleared"} /\ l = Target
               \/ loop.pc = "reverse" /\ l = request.on

(* What the other lists were before the call, they still are. *)
BeforeInv ==
    request # Null =>
       /\ before.items \in [Lists -> Seq(Vals \cup {Null})]
       /\ before.typesize \in [Lists -> Sizes \cup {Null}]
       /\ \A l \in Lists : l \notin live => before.items[l] = <<>>
       /\ \A l \in Lists \cap live : ~ Changing(l) => Values(l) = before.items[l]
       /\ typesize = IF loop.pc = "cleared" /\ request.op = "copy"
                     THEN [before.typesize EXCEPT ![request.arg] =
                              before.typesize[request.on]]
                     ELSE before.typesize

(* clear frees the first node until there is none. *)
ClearInv(l) ==
    loop.pc = "clear" => /\ loop.pos = 1
                         /\ request.op = "copy" => loop.node = Spot(l, Order(l), 1)

(* assign and copy have put the first items in place. *)
AssignInv(l) ==
    loop.pc = "cleared" /\ request.op = "assign" =>
       /\ Len(Order(l)) = loop.pos - 1
       /\ \A i \in 1 .. loop.pos - 1 : Values(l)[i] = request.arg.array[i]

CopyInv(l, t) ==
    loop.pc = "cleared" /\ request.op = "copy" =>
       /\ Len(Order(t)) <= Len(Order(l))
       /\ loop.node = Spot(l, Order(l), Len(Order(t)) + 1)
       /\ \A i \in 1 .. Len(Order(t)) : Values(t)[i] = Values(l)[i]

(* remove has found no item before place k that equals its argument. *)
RemoveInv(l) ==
    loop.pc = "remove" =>
       \E k \in 1 .. Len(Order(l)) + 1 :
          /\ loop.node = Spot(l, Order(l), k)
          /\ \A j \in 1 .. Len(Order(l)) : j < k => Values(l)[j] # request.arg

(* reverse has turned the first k items round. *)
Turned(b, V, k) == /\ Len(b) = Len(V)
                   /\ \A i \in 1 .. Len(V) :
                         V[i] = IF i <= k THEN b[k + 1 - i] ELSE b[i]

ReverseInv(l) ==
    loop.pc = "reverse" =>
       \E k \in 0 .. Len(Order(l)) : /\ loop.node = Spot(l, Order(l), k + 1)
                                     /\ Turned(before.items[l], Values(l), k)

StageInv ==
    /\ \A l \in Lists : request.on = l =>
          ClearInv(l) /\ AssignInv(l) /\ RemoveInv(l) /\ ReverseInv(l)
    /\ \A l, t \in Lists : request.on = l /\ request.arg = t => CopyInv(l, t)

CallsInv == Inv /\ AskedInv /\ BeforeInv /\ StageInv

(* A step of clist.c is one of Deque, or none. *)
DequeStep == AbstractDeque!Next \/ UNCHANGED AbstractDeque!vars

(* The initial state, and the parts of a step. *)
LEMMA HeapSame ==
  ASSUME Inv, UNCHANGED <<live, links, data>>
  PROVE  /\ OrderInv'
         /\ \A l \in Lists : Order(l)' = Order(l) /\ Values(l)' = Values(l)
         /\ Items' = Items
<1>1. \A l \in Lists : Order(l)' = Order(l)
  BY DEF Order
<1>2. \A l \in Lists : Values(l)' = Values(l)
  BY DEF Values
<1>3. Items' = Items
  BY <1>2 DEF Items
<1>4. OrderInv'
  BY <1>1 DEF Inv, OrderInv
<1> QED  BY <1>1, <1>2, <1>3, <1>4

LEMMA CountIsLen ==
  ASSUME Inv, NEW l \in Lists \cap live, ~ (loop.pc = "clear" /\ l = Target)
  PROVE  count[l] = Len(Order(l))
<1>1. PICK own : Shape(own)  BY DEF Inv, IInv
<1>2. Rings(links, live, own) /\ count[l] = Cardinality(Owned(live, own, l))
  BY <1>1 DEF Shape, CountInv
<1> QED  BY <1>2, CircleCounts DEF Inv, OrderInv

(* The neighbours of a sentinel, and of every node. *)
LEMMA Neighbours ==
  ASSUME Inv, NEW l \in Lists \cap live
  PROVE  /\ links.next[l] = Spot(l, Order(l), 1)
         /\ links.prev[l] = Spot(l, Order(l), Len(Order(l)))
         /\ \A k \in 1 .. Len(Order(l)) :
               links.next[Spot(l, Order(l), k)] = Spot(l, Order(l), k + 1)
<1>1. PICK own : Rings(links, live, own)  BY DEF Inv, IInv, Shape
<1>2. Circle(links.next, l, Order(l)) /\ Len(Order(l)) \in Nat  BY OrderFacts
<1>3. Spot(l, Order(l), 0) = l /\ Spot(l, Order(l), Len(Order(l)) + 1) = l
  BY <1>2 DEF Spot
<1>4. links.next[Spot(l, Order(l), 0)] = Spot(l, Order(l), 0 + 1)
  BY <1>2 DEF Circle
<1>5. links.prev[Spot(l, Order(l), Len(Order(l)) + 1)] = Spot(l, Order(l), Len(Order(l)))
  BY <1>1, <1>2, CircleOwned
<1>6. \A k \in 1 .. Len(Order(l)) :
         links.next[Spot(l, Order(l), k)] = Spot(l, Order(l), k + 1)
  BY <1>2 DEF Circle
<1> QED  BY <1>3, <1>4, <1>5, <1>6

(* A spot that is the sentinel is behind the last node. *)
LEMMA LastSpot ==
  ASSUME Inv, NEW l \in Lists \cap live, NEW k \in 1 .. Len(Order(l)) + 1
  PROVE  /\ Spot(l, Order(l), k) = l <=> k = Len(Order(l)) + 1
         /\ k <= Len(Order(l)) => /\ k \in 1 .. Len(Order(l))
                                  /\ Spot(l, Order(l), k) = Order(l)[k]
                                  /\ data[Spot(l, Order(l), k)] = Values(l)[k]
<1>1. Len(Order(l)) \in Nat /\ \A i \in 1 .. Len(Order(l)) : Order(l)[i] \in Nodes
  BY OrderFacts
<1>2. l \notin Nodes  BY CellsAssumption
<1>3. \A i \in 1 .. Len(Order(l)) : Values(l)[i] = data[Order(l)[i]]
  BY OrderFacts
<1> QED  BY <1>1, <1>2, <1>3 DEF Spot

LEMMA Calm ==
  ASSUME Return
  PROVE  AskedInv' /\ BeforeInv' /\ StageInv'
<1>1. request' = Null /\ loop'.pc = "start"  BY DEF Return, NotLooping
<1> QED  BY <1>1 DEF AskedInv, BeforeInv, StageInv, ClearInv, AssignInv, CopyInv,
            RemoveInv, ReverseInv

(* A return of the call that left list t with the items s. *)
LEMMA Updated ==
  ASSUME CallsInv, request # Null, Return, Lists \cap live' = Lists \cap live,
         typesize' = before.typesize, NEW t \in Lists \cap live, NEW s, Values(t)' = s,
         \A l \in (Lists \cap live) \ {t} : Values(l)' = before.items[l]
  PROVE  AbstractDeque!Update(t, s)
<1>1. request' = Null  BY DEF Return
<1>2. /\ before.items \in [Lists -> Seq(Vals \cup {Null})]
      /\ \A l \in Lists : l \notin live => before.items[l] = <<>>
  BY DEF CallsInv, BeforeInv
<1>3. Items' = [l \in Lists |-> IF l \in live' THEN Values(l)' ELSE <<>>]
  BY DEF Items
<1>4. Items' = [before.items EXCEPT ![t] = s]
  BY <1>2, <1>3
<1> QED  BY <1>1, <1>4 DEF AbstractDeque!Update

LEMMA Callers ==
  ASSUME CallsInv, request # Null, request.op # "alloc"
  PROVE  \E t \in Lists \cap live : t = request.on
BY DEF CallsInv, Inv, IInv, CallInv

(* push_back and push_front. *)
LEMMA Pushes ==
  ASSUME CallsInv, request # Null, PushBack \/ PushFront
  PROVE  OrderInv' /\ DequeStep
<1>1. request.op \in {"push_back", "push_front"} /\ loop.pc = "start"
  BY DEF PushBack, PushFront, Busy
<1>2. PICK t \in Lists \cap live : t = request.on
  BY <1>1, Callers
<1>3. PICK v \in Vals : v = request.arg /\ request = [op |-> request.op, on |-> t, arg |-> v]
  BY <1>1, <1>2 DEF CallsInv, AskedInv
<1>4. Inv /\ Len(Order(t)) \in Nat /\ Values(t) \in Seq(Vals \cup {Null})
      /\ Len(Values(t)) = Len(Order(t))
  BY OrderFacts DEF CallsInv
<1>5. /\ \A l \in Lists \cap live : Values(l) = before.items[l]
      /\ before.typesize = typesize
  BY <1>1 DEF CallsInv, BeforeInv, Changing
<1>6. PICK p \in {0, Len(Order(t))} : /\ NodeAdd(Spot(t, Order(t), p), v)
                                      /\ PushBack => p = Len(Order(t))
                                      /\ PushFront => p = 0
  <2>1. CASE PushBack
    <3>1. NodeAdd(links.prev[t], v)  BY <2>1, <1>2, <1>3 DEF PushBack
    <3>2. links.prev[t] = Spot(t, Order(t), Len(Order(t)))  BY <1>4, Neighbours
    <3>3. ~ PushFront  BY <2>1 DEF PushBack, PushFront, Busy
    <3> QED  BY <2>1, <3>1, <3>2, <3>3
  <2>2. CASE PushFront
    <3>1. NodeAdd(t, v)  BY <2>2, <1>2, <1>3 DEF PushFront
    <3>2. t = Spot(t, Order(t), 0)  BY <1>4 DEF Spot
    <3>3. ~ PushBack  BY <2>2 DEF PushBack, PushFront, Busy
    <3> QED  BY <2>2, <3>1, <3>2, <3>3
  <2> QED  BY <2>1, <2>2
<1>7. p \in 0 .. Len(Order(t))  BY <1>4
<1>8. /\ Lists \cap live' = Lists \cap live
      /\ OrderInv'
      /\ Values(t)' = Grown(Values(t), p, v)
      /\ \A l \in (Lists \cap live) \ {t} : Values(l)' = Values(l)
  BY <1>4, <1>6, <1>7, NodeAdded
<1>9. Return /\ typesize' = typesize
  BY DEF PushBack, PushFront
<1>10. AbstractDeque!Update(t, Grown(Values(t), p, v))
  BY <1>5, <1>8, <1>9, Updated
<1>11. request' = Null  BY <1>9 DEF Return
<1>12. /\ Append(Values(t), v) = Grown(Values(t), Len(Values(t)), v)
       /\ AbstractDeque!Cons(v, Values(t)) = Grown(Values(t), 0, v)
  BY <1>4, PushIsGrown
<1>13. CASE PushBack
  <2>1. request = [op |-> "push_back", on |-> t, arg |-> v]
    BY <1>3, <1>13 DEF PushBack, Busy
  <2>2. AbstractDeque!Update(t, Append(before.items[t], v))
    BY <1>4, <1>5, <1>6, <1>10, <1>12, <1>13
  <2>3. AbstractDeque!PushBack(t, v)
    BY <2>1, <2>2, <1>11
    DEF AbstractDeque!PushBack, AbstractDeque!Return, AbstractDeque!Request
  <2> QED  BY <2>3, <1>8 DEF DequeStep, AbstractDeque!Next
<1>14. CASE PushFront
  <2>1. request = [op |-> "push_front", on |-> t, arg |-> v]
    BY <1>3, <1>14 DEF PushFront, Busy
  <2>2. AbstractDeque!Update(t, AbstractDeque!Cons(v, before.items[t]))
    BY <1>4, <1>5, <1>6, <1>10, <1>12, <1>14
  <2>3. AbstractDeque!PushFront(t, v)
    BY <2>1, <2>2, <1>11
    DEF AbstractDeque!PushFront, AbstractDeque!Return, AbstractDeque!Request
  <2> QED  BY <2>3, <1>8 DEF DequeStep, AbstractDeque!Next
<1> QED  BY <1>8, <1>13, <1>14

(* pop_back and pop_front of a list that is not empty, and remove of an    *)
(* item that was found: one node goes.                                     *)
LEMMA Takes ==
  ASSUME CallsInv, request # Null, NEW t \in Lists \cap live, t = request.on,
         loop.pc \in {"start", "remove"}, NEW p \in 1 .. Len(Order(t)),
         NodeFree(Order(t)[p]), Return, typesize' = typesize
  PROVE  /\ OrderInv'
         /\ AbstractDeque!Update(t, Shrunk(before.items[t], p))
         /\ before.items[t] = Values(t)
<1>1. Inv  BY DEF CallsInv
<1>2. /\ \A l \in Lists \cap live : Values(l) = before.items[l]
      /\ before.typesize = typesize
  BY DEF CallsInv, BeforeInv, Changing
<1>3. /\ Lists \cap live' = Lists \cap live
      /\ OrderInv'
      /\ Values(t)' = Shrunk(Values(t), p)
      /\ \A l \in (Lists \cap live) \ {t} : Values(l)' = Values(l)
  BY <1>1, NodeFreed
<1>4. AbstractDeque!Update(t, Shrunk(Values(t), p))
  BY <1>2, <1>3, Updated
<1> QED  BY <1>2, <1>3, <1>4

LEMMA Pops ==
  ASSUME CallsInv, request # Null, PopBack \/ PopFront
  PROVE  OrderInv' /\ DequeStep
<1>1. request.op \in {"pop_back", "pop_front"} /\ loop.pc = "start"
      /\ count[request.on] > 0 /\ Return /\ typesize' = typesize
  BY DEF PopBack, PopFront, Busy
<1>2. PICK t \in Lists \cap live : t = request.on
  BY <1>1, Callers
<1>3. request = [op |-> request.op, on |-> t, arg |-> Null]
  BY <1>1, <1>2 DEF CallsInv, AskedInv
<1>4. Inv /\ Len(Order(t)) \in Nat /\ Values(t) \in Seq(Vals \cup {Null})
      /\ Len(Values(t)) = Len(Order(t))
  BY OrderFacts DEF CallsInv
<1>5. Len(Order(t)) > 0
  BY <1>1, <1>2, <1>4, CountIsLen
<1>6. Spot(t, Order(t), 1) = Order(t)[1]
      /\ Spot(t, Order(t), Len(Order(t))) = Order(t)[Len(Order(t))]
  BY <1>4, <1>5 DEF Spot
<1>7. /\ links.next[t] = Order(t)[1]
      /\ links.prev[t] = Order(t)[Len(Order(t))]
  BY <1>4, <1>6, Neighbours
<1>8. Values(t) # <<>>
  BY <1>4, <1>5
<1>9. /\ AbstractDeque!Front(Values(t)) = Shrunk(Values(t), Len(Values(t)))
      /\ Tail(Values(t)) = Shrunk(Values(t), 1)
  BY <1>4, <1>8, PopIsShrunk
<1>10. request' = Null  BY <1>1 DEF Return
<1>11. CASE PopBack
  <2>1. NodeFree(Order(t)[Len(Order(t))])  BY <1>2, <1>7, <1>11 DEF PopBack
  <2>2. Len(Order(t)) \in 1 .. Len(Order(t))  BY <1>4, <1>5
  <2>3. /\ OrderInv' /\ before.items[t] = Values(t)
        /\ AbstractDeque!Update(t, Shrunk(before.items[t], Len(Order(t))))
    BY <1>1, <1>2, <2>1, <2>2, Takes
  <2>4. AbstractDeque!Update(t, AbstractDeque!Front(before.items[t]))
    BY <2>3, <1>4, <1>9
  <2>5. request = [op |-> "pop_back", on |-> t, arg |-> Null]
    BY <1>3, <1>11 DEF PopBack, Busy
  <2>6. AbstractDeque!PopBack(t)
    BY <2>3, <2>4, <2>5, <1>8, <1>10
    DEF AbstractDeque!PopBack, AbstractDeque!Return, AbstractDeque!Request
  <2> QED  BY <2>3, <2>6 DEF DequeStep, AbstractDeque!Next
<1>12. CASE PopFront
  <2>1. NodeFree(Order(t)[1])  BY <1>2, <1>7, <1>12 DEF PopFront
  <2>2. 1 \in 1 .. Len(Order(t))  BY <1>4, <1>5
  <2>3. /\ OrderInv' /\ before.items[t] = Values(t)
        /\ AbstractDeque!Update(t, Shrunk(before.items[t], 1))
    BY <1>1, <1>2, <2>1, <2>2, Takes
  <2>4. AbstractDeque!Update(t, Tail(before.items[t]))
    BY <2>3, <1>9
  <2>5. request = [op |-> "pop_front", on |-> t, arg |-> Null]
    BY <1>3, <1>12 DEF PopFront, Busy
  <2>6. AbstractDeque!PopFront(t)
    BY <2>3, <2>4, <2>5, <1>8, <1>10
    DEF AbstractDeque!PopFront, AbstractDeque!Return, AbstractDeque!Request
  <2> QED  BY <2>3, <2>6 DEF DequeStep, AbstractDeque!Next
<1> QED  BY <1>11, <1>12

LEMMA Removes ==
  ASSUME CallsInv, request # Null, Remove
  PROVE  OrderInv' /\ DequeStep
<1>1. loop.pc = "remove" /\ loop.node # request.on /\ data[loop.node] = request.arg
      /\ NodeFree(loop.node) /\ Return /\ typesize' = typesize
  BY DEF Remove
<1>2. request.op = "remove"
  BY <1>1 DEF CallsInv, Inv, IInv, CallInv
<1>3. PICK t \in Lists \cap live : t = request.on
  BY <1>2, Callers
<1>4. PICK v \in Vals : request = [op |-> "remove", on |-> t, arg |-> v] /\ v = request.arg
  BY <1>2, <1>3 DEF CallsInv, AskedInv
<1>5. Inv /\ Len(Order(t)) \in Nat /\ Values(t) \in Seq(Vals \cup {Null})
      /\ Len(Values(t)) = Len(Order(t))
  BY OrderFacts DEF CallsInv
<1>6. PICK k \in 1 .. Len(Order(t)) + 1 :
         /\ loop.node = Spot(t, Order(t), k)
         /\ \A j \in 1 .. Len(Order(t)) : j < k => Values(t)[j] # v
  BY <1>1, <1>3, <1>4 DEF CallsInv, StageInv, RemoveInv
<1>7. k \in 1 .. Len(Order(t)) /\ loop.node = Order(t)[k] /\ Values(t)[k] = v
  <2>1. k # Len(Order(t)) + 1  BY <1>1, <1>3, <1>5, <1>6, LastSpot
  <2>2. k <= Len(Order(t))  BY <2>1, <1>5
  <2> QED  BY <2>2, <1>1, <1>4, <1>5, <1>6, LastSpot
<1>8. /\ OrderInv' /\ before.items[t] = Values(t)
      /\ AbstractDeque!Update(t, Shrunk(before.items[t], k))
  BY <1>1, <1>3, <1>7, Takes
<1>9. AbstractDeque!RemoveFirst(Values(t), v) = Shrunk(Values(t), k)
  BY <1>5, <1>6, <1>7, FirstIsShrunk
<1>10. AbstractDeque!Update(t, AbstractDeque!RemoveFirst(before.items[t], v))
  BY <1>8, <1>9
<1>11. AbstractDeque!Erase(t, v)
  BY <1>1, <1>4, <1>10
  DEF Return, AbstractDeque!Erase, AbstractDeque!Return, AbstractDeque!Request
<1> QED  BY <1>8, <1>11 DEF DequeStep, AbstractDeque!Next

(* clist_alloc: an empty circle. *)
LEMMA Allocates ==
  ASSUME CallsInv, request # Null, Alloc \/ AllocFails
  PROVE  OrderInv' /\ DequeStep
<1>1. request.op = "alloc" /\ loop.pc = "start" /\ Return
  BY DEF Alloc, AllocFails, Busy
<1>2. PICK t \in Lists : t = request.on /\ t \notin live
  BY <1>1 DEF CallsInv, Inv, IInv, CallInv
<1>3. PICK size \in Sizes : request = [op |-> "alloc", on |-> t, arg |-> size]
                            /\ size = request.arg
  BY <1>1, <1>2 DEF CallsInv, AskedInv, Inv, IInv, CallInv
<1>4. Inv  BY DEF CallsInv
<1>5. /\ before.items \in [Lists -> Seq(Vals \cup {Null})]
      /\ before.typesize = typesize
      /\ \A l \in Lists : l \notin live => before.items[l] = <<>>
      /\ \A l \in Lists \cap live : Values(l) = before.items[l]
  BY <1>1 DEF CallsInv, BeforeInv, Changing
<1>6. request' = Null  BY <1>1 DEF Return
<1>7. AbstractDeque!Return("alloc", t, size)
  BY <1>3, <1>6 DEF AbstractDeque!Return, AbstractDeque!Request
<1>8. CASE AllocFails
  <2>1. UNCHANGED <<live, links, data, typesize>>  BY <1>8 DEF AllocFails, heap
  <2>2. OrderInv' /\ Items' = Items  BY <2>1, <1>4, HeapSame
  <2>3. Items = before.items  BY <1>5 DEF Items
  <2>4. AbstractDeque!Alloc(t, size)
    BY <1>1, <1>5, <1>6, <1>7, <2>1, <2>2, <2>3 DEF AbstractDeque!Alloc
  <2> QED  BY <2>2, <2>4 DEF DequeStep, AbstractDeque!Next
<1>9. CASE Alloc
  <2>1. /\ live' = live \cup {t}
        /\ links'.next = [links.next EXCEPT ![t] = t]
        /\ data' = data
        /\ typesize' = [typesize EXCEPT ![t] = size]
    BY <1>2, <1>3, <1>9 DEF Alloc
  <2>2. links.next \in [Cells -> Cells \cup {Null}] /\ t \in Cells
    BY <1>4, InvFields DEF Fields, Cells
  <2>3. Circle(links'.next, t, <<>>)
    <3>1. Spot(t, <<>>, 0) = t /\ Spot(t, <<>>, 1) = t /\ Len(<<>>) = 0
      BY DEF Spot
    <3>2. links'.next[t] = t  BY <2>1, <2>2
    <3>3. <<>> \in Seq(Nodes)  OBVIOUS
    <3>4. \A i \in 0 .. Len(<<>>) :
             links'.next[Spot(t, <<>>, i)] = Spot(t, <<>>, i + 1)
      BY <3>1, <3>2
    <3> QED  BY <3>1, <3>3, <3>4 DEF Circle
  <2>4. ASSUME NEW l \in Lists \cap live
        PROVE  Circle(links'.next, l, Order(l)) /\ Values(l)' = Values(l)
    <3>1. Circle(links.next, l, Order(l)) /\ \A i \in 1 .. Len(Order(l)) : Order(l)[i] \in live
      BY <1>4, OrderFacts
    <3>2. live \subseteq Cells  BY <1>4 DEF Inv, IInv, TypeOK
    <3>3. \A c \in live : links'.next[c] = links.next[c]
      BY <2>1, <2>2, <3>2, <1>2
    <3>4. Circle(links'.next, l, Order(l))
      BY <3>1, <3>3, CircleSame
    <3>5. Values(l)' = ItemsOf(data', Order(l))  BY <3>4, NextOrder
    <3> QED  BY <3>4, <3>5, <2>1, <1>4, ValuesAre
  <2>5. OrderInv'
    <3>1. \A l \in Lists \cap live' : l = t \/ l \in Lists \cap live  BY <2>1
    <3> QED  BY <3>1, <2>3, <2>4, NextOrder DEF OrderInv
  <2>6. Values(t)' = <<>>
    <3>1. Values(t)' = ItemsOf(data', <<>>)  BY <2>3, NextOrder
    <3> QED  BY <3>1 DEF ItemsOf
  <2>7. Items' = [l \in Lists |-> IF l \in live' THEN Values(l)' ELSE <<>>]
    BY DEF Items
  <2>8. Items' = before.items
    BY <2>1, <2>4, <2>6, <2>7, <1>2, <1>5
  <2>9. Lists \cap live' = (Lists \cap live) \cup {t}
    BY <2>1
  <2>10. AbstractDeque!Alloc(t, size)
    BY <1>1, <1>5, <1>6, <1>7, <2>1, <2>8, <2>9 DEF AbstractDeque!Alloc
  <2> QED  BY <2>5, <2>10 DEF DequeStep, AbstractDeque!Next
<1> QED  BY <1>8, <1>9

(* A call that returns and leaves the heap as it is. *)
LEMMA Leaves ==
  ASSUME CallsInv, request # Null, NEW t \in Lists \cap live, Return,
         UNCHANGED <<live, links, data>>, typesize = before.typesize,
         UNCHANGED typesize,
         \A l \in (Lists \cap live) \ {t} : ~ Changing(l)
  PROVE  OrderInv' /\ AbstractDeque!Update(t, Values(t))
<1>1. Inv  BY DEF CallsInv
<1>2. OrderInv' /\ \A l \in Lists : Values(l)' = Values(l)
  BY <1>1, HeapSame
<1>3. \A l \in (Lists \cap live) \ {t} : Values(l) = before.items[l]
  BY DEF CallsInv, BeforeInv
<1>4. AbstractDeque!Update(t, Values(t))
  BY <1>2, <1>3, Updated
<1> QED  BY <1>2, <1>4

(* pop, reverse and clear of an empty list. *)
LEMMA AtOnce ==
  ASSUME CallsInv, request # Null, ReturnAtOnce
  PROVE  OrderInv' /\ DequeStep
<1>1. /\ request.op \in {"pop_back", "pop_front", "reverse", "clear"}
      /\ loop.pc = "start" /\ count[request.on] = 0 /\ Return
      /\ UNCHANGED <<live, links, data, typesize>>
  BY DEF ReturnAtOnce, Busy, heap
<1>2. PICK t \in Lists \cap live : t = request.on
  BY <1>1, Callers
<1>3. request = [op |-> request.op, on |-> t, arg |-> Null]
  BY <1>1, <1>2 DEF CallsInv, AskedInv
<1>4. Inv /\ Len(Order(t)) \in Nat /\ Values(t) \in Seq(Vals \cup {Null})
      /\ Len(Values(t)) = Len(Order(t))
  BY OrderFacts DEF CallsInv
<1>5. \A l \in Lists \cap live : ~ Changing(l) /\ Values(l) = before.items[l]
  BY <1>1 DEF CallsInv, BeforeInv, Changing
<1>6. typesize = before.typesize
  BY <1>1 DEF CallsInv, BeforeInv
<1>7. Len(Values(t)) = 0 /\ Values(t) = <<>>
  <2>1. Len(Order(t)) = 0  BY <1>1, <1>2, <1>4, CountIsLen
  <2> QED  BY <2>1, <1>4, EmptySeq
<1>8. OrderInv' /\ AbstractDeque!Update(t, <<>>)
  BY <1>1, <1>5, <1>6, <1>7, Leaves
<1>9. before.items[t] = <<>>  BY <1>5, <1>7
<1>10. AbstractDeque!Reverse(<<>>) = <<>>
  BY DEF AbstractDeque!Reverse
<1>11. request' = Null  BY <1>1 DEF Return
<1>12. \/ AbstractDeque!PopBack(t) \/ AbstractDeque!PopFront(t)
       \/ AbstractDeque!Turn(t) \/ AbstractDeque!Clear(t)
  <2>1. CASE request.op = "pop_back"
    BY <2>1, <1>3, <1>8, <1>9, <1>11
    DEF AbstractDeque!PopBack, AbstractDeque!Return, AbstractDeque!Request
  <2>2. CASE request.op = "pop_front"
    BY <2>2, <1>3, <1>8, <1>9, <1>11
    DEF AbstractDeque!PopFront, AbstractDeque!Return, AbstractDeque!Request
  <2>3. CASE request.op = "reverse"
    BY <2>3, <1>3, <1>8, <1>9, <1>10, <1>11
    DEF AbstractDeque!Turn, AbstractDeque!Return, AbstractDeque!Request
  <2>4. CASE request.op = "clear"
    BY <2>4, <1>3, <1>8, <1>11
    DEF AbstractDeque!Clear, AbstractDeque!Return, AbstractDeque!Request
  <2> QED  BY <1>1, <2>1, <2>2, <2>3, <2>4
<1> QED  BY <1>8, <1>12 DEF DequeStep, AbstractDeque!Next

LEMMA RemoveEnds ==
  ASSUME CallsInv, request # Null, RemoveEnd
  PROVE  OrderInv' /\ DequeStep
<1>1. /\ loop.pc = "remove" /\ loop.node = request.on /\ Return
      /\ UNCHANGED <<live, links, data, typesize>>
  BY DEF RemoveEnd, heap
<1>2. request.op = "remove"
  BY <1>1 DEF CallsInv, Inv, IInv, CallInv
<1>3. PICK t \in Lists \cap live : t = request.on
  BY <1>2, Callers
<1>4. PICK v \in Vals : request = [op |-> "remove", on |-> t, arg |-> v] /\ v = request.arg
  BY <1>2, <1>3 DEF CallsInv, AskedInv
<1>5. Inv /\ Len(Order(t)) \in Nat /\ Values(t) \in Seq(Vals \cup {Null})
      /\ Len(Values(t)) = Len(Order(t))
  BY OrderFacts DEF CallsInv
<1>6. \A l \in Lists \cap live : ~ Changing(l) /\ Values(l) = before.items[l]
  BY <1>1 DEF CallsInv, BeforeInv, Changing
<1>7. typesize = before.typesize
  BY <1>1 DEF CallsInv, BeforeInv
<1>8. PICK k \in 1 .. Len(Order(t)) + 1 :
         /\ loop.node = Spot(t, Order(t), k)
         /\ \A j \in 1 .. Len(Order(t)) : j < k => Values(t)[j] # v
  BY <1>1, <1>3, <1>4 DEF CallsInv, StageInv, RemoveInv
<1>9. k = Len(Order(t)) + 1
  BY <1>1, <1>3, <1>5, <1>8, LastSpot
<1>10. \A j \in 1 .. Len(Values(t)) : Values(t)[j] # v
  BY <1>5, <1>8, <1>9
<1>11. AbstractDeque!RemoveFirst(Values(t), v) = Values(t)
  BY <1>5, <1>10, NothingRemoved
<1>12. OrderInv' /\ AbstractDeque!Update(t, Values(t))
  BY <1>1, <1>6, <1>7, Leaves
<1>13. AbstractDeque!Update(t, AbstractDeque!RemoveFirst(before.items[t], v))
  BY <1>6, <1>11, <1>12
<1>14. AbstractDeque!Erase(t, v)
  BY <1>1, <1>4, <1>13
  DEF Return, AbstractDeque!Erase, AbstractDeque!Return, AbstractDeque!Request
<1> QED  BY <1>12, <1>14 DEF DequeStep, AbstractDeque!Next

LEMMA AssignEnds ==
  ASSUME CallsInv, request # Null, AssignEnd
  PROVE  OrderInv' /\ DequeStep
<1>1. /\ loop.pc = "cleared" /\ request.op = "assign" /\ loop.pos = request.arg.last
      /\ Return /\ UNCHANGED <<live, links, data, typesize>>
  BY DEF AssignEnd, heap
<1>2. PICK t \in Lists \cap live : t = request.on
  BY <1>1, Callers
<1>3. PICK arg \in AssignArgs : request = [op |-> "assign", on |-> t, arg |-> arg]
                             /\ arg = request.arg
  BY <1>1, <1>2 DEF CallsInv, AskedInv
<1>4. /\ arg.array \in Seq(Vals) /\ arg.last \in 1 .. Len(arg.array) + 1
      /\ Len(arg.array) \in Nat
  BY <1>1, <1>3 DEF CallsInv, Inv, IInv, CallInv
<1>5. Inv /\ Len(Order(t)) \in Nat /\ Values(t) \in Seq(Vals \cup {Null})
      /\ Len(Values(t)) = Len(Order(t))
  BY OrderFacts DEF CallsInv
<1>6. /\ \A l \in (Lists \cap live) \ {t} : ~ Changing(l)
      /\ typesize = before.typesize
  BY <1>1, <1>2 DEF CallsInv, BeforeInv, Changing, Target
<1>7. /\ Len(Order(t)) = arg.last - 1
      /\ \A i \in 1 .. arg.last - 1 : Values(t)[i] = arg.array[i]
  BY <1>1, <1>2, <1>3 DEF CallsInv, StageInv, AssignInv
<1>8. Values(t) = SubSeq(arg.array, 1, arg.last - 1)
  <2> DEFINE n == arg.last - 1
  <2>1. n \in Nat /\ n <= Len(arg.array) /\ 1 \in Int  BY <1>4
  <2> HIDE DEF n
  <2>2. \A i \in 1 .. n : arg.array[i] \in Vals \cup {Null}
    <3>1. \A i \in 1 .. n : i \in 1 .. Len(arg.array)  BY <2>1, <1>4
    <3>2. \A i \in 1 .. Len(arg.array) : arg.array[i] \in Vals
      BY <1>4, SeqFacts
    <3> QED  BY <3>1, <3>2
  <2>3. /\ SubSeq(arg.array, 1, n) \in Seq(Vals \cup {Null})
        /\ Len(SubSeq(arg.array, 1, n)) = IF 1 <= n THEN n - 1 + 1 ELSE 0
        /\ \A i \in 1 .. n - 1 + 1 : SubSeq(arg.array, 1, n)[i] = arg.array[1 + i - 1]
    BY <2>1, <2>2, SubSeqProperties
  <2>4. n - 1 + 1 = n /\ \A i \in 1 .. n : 1 + i - 1 = i  BY <2>1
  <2>5. Len(SubSeq(arg.array, 1, n)) = n  BY <2>1, <2>3
  <2>6. \A i \in 1 .. n : SubSeq(arg.array, 1, n)[i] = arg.array[i]
    BY <2>3, <2>4
  <2>7. Len(Values(t)) = n /\ \A i \in 1 .. n : Values(t)[i] = arg.array[i]
    BY <1>5, <1>7 DEF n
  <2>8. \A i \in 1 .. n : Values(t)[i] = SubSeq(arg.array, 1, n)[i]
    BY <2>6, <2>7
  <2>9. Values(t) = SubSeq(arg.array, 1, n)
    BY <1>5, <2>3, <2>5, <2>7, <2>8, SeqEqual
  <2> QED  BY <2>9 DEF n
<1>9. OrderInv' /\ AbstractDeque!Update(t, Values(t))
  BY <1>1, <1>6, Leaves
<1>10. AbstractDeque!Assign(t, arg)
  BY <1>1, <1>3, <1>8, <1>9
  DEF Return, AbstractDeque!Assign, AbstractDeque!Return, AbstractDeque!Request
<1>11. arg \in AbstractDeque!AssignArgs
  BY DEF AssignArgs, AbstractDeque!AssignArgs
<1> QED  BY <1>9, <1>10, <1>11 DEF DequeStep, AbstractDeque!Next

LEMMA CopyEnds ==
  ASSUME CallsInv, request # Null, CopyEnd
  PROVE  OrderInv' /\ DequeStep
<1>1. /\ loop.pc = "cleared" /\ request.op = "copy" /\ loop.node = request.on
      /\ Return /\ UNCHANGED <<live, links, data, typesize>>
  BY DEF CopyEnd, heap
<1>2. PICK l \in Lists \cap live : l = request.on
  BY <1>1, Callers
<1>3. PICK t \in (Lists \cap live) \ {l} : t = request.arg
  BY <1>1, <1>2 DEF CallsInv, Inv, IInv, CallInv
<1>4. request = [op |-> "copy", on |-> l, arg |-> t]
  BY <1>1, <1>2, <1>3 DEF CallsInv, AskedInv
<1>5. /\ Inv
      /\ Len(Order(l)) \in Nat /\ Values(l) \in Seq(Vals \cup {Null})
      /\ Len(Values(l)) = Len(Order(l))
      /\ Len(Order(t)) \in Nat /\ Values(t) \in Seq(Vals \cup {Null})
      /\ Len(Values(t)) = Len(Order(t))
  BY <1>3, OrderFacts DEF CallsInv
<1>6. /\ \A u \in (Lists \cap live) \ {t} : Values(u) = before.items[u]
      /\ before.items \in [Lists -> Seq(Vals \cup {Null})]
      /\ \A u \in Lists : u \notin live => before.items[u] = <<>>
      /\ typesize = [before.typesize EXCEPT ![t] = before.typesize[l]]
  BY <1>1, <1>2, <1>3 DEF CallsInv, BeforeInv, Changing, Target
<1>7. CopyInv(l, t)
  BY <1>2, <1>3 DEF CallsInv, StageInv
<1>8. Len(Order(t)) = Len(Order(l))
  <2>1. /\ Len(Order(t)) + 1 \in 1 .. Len(Order(l)) + 1
        /\ Spot(l, Order(l), Len(Order(t)) + 1) = l
    BY <1>1, <1>2, <1>5, <1>7 DEF CopyInv
  <2>2. Len(Order(t)) + 1 = Len(Order(l)) + 1  BY <2>1, <1>5, LastSpot
  <2> QED  BY <2>2, <1>5
<1>9. Values(t) = Values(l)
  <2>1. \A i \in 1 .. Len(Values(t)) : Values(t)[i] = Values(l)[i]
    BY <1>1, <1>5, <1>7 DEF CopyInv
  <2> QED  BY <2>1, <1>5, <1>8, SeqEqual
<1>10. OrderInv' /\ Items' = Items
  BY <1>1, <1>5, HeapSame
<1>11. Items = [before.items EXCEPT ![t] = before.items[l]]
  BY <1>3, <1>6, <1>9 DEF Items
<1>12. request' = Null  BY <1>1 DEF Return
<1>13. AbstractDeque!Copy(l, t)
  BY <1>1, <1>4, <1>6, <1>10, <1>11, <1>12
  DEF AbstractDeque!Copy, AbstractDeque!Return, AbstractDeque!Request
<1> QED  BY <1>3, <1>10, <1>13 DEF DequeStep, AbstractDeque!Next

LEMMA ReverseEnds ==
  ASSUME CallsInv, request # Null, ReverseEnd
  PROVE  OrderInv' /\ DequeStep
<1>1. /\ loop.pc = "reverse" /\ loop.node = request.on
      /\ Return /\ UNCHANGED <<live, links, data, typesize>>
  BY DEF ReverseEnd, heap
<1>2. request.op = "reverse"
  BY <1>1 DEF CallsInv, Inv, IInv, CallInv
<1>3. PICK t \in Lists \cap live : t = request.on
  BY <1>2, Callers
<1>4. request = [op |-> "reverse", on |-> t, arg |-> Null]
  BY <1>2, <1>3 DEF CallsInv, AskedInv
<1>5. Inv /\ Len(Order(t)) \in Nat /\ Values(t) \in Seq(Vals \cup {Null})
      /\ Len(Values(t)) = Len(Order(t))
  BY OrderFacts DEF CallsInv
<1>6. /\ \A l \in (Lists \cap live) \ {t} : ~ Changing(l)
      /\ typesize = before.typesize
      /\ before.items[t] \in Seq(Vals \cup {Null})
  BY <1>1, <1>2, <1>3 DEF CallsInv, BeforeInv, Changing, Target
<1>7. PICK k \in 0 .. Len(Order(t)) : /\ loop.node = Spot(t, Order(t), k + 1)
                                      /\ Turned(before.items[t], Values(t), k)
  BY <1>1, <1>3 DEF CallsInv, StageInv, ReverseInv
<1>8. k = Len(Order(t))
  <2>1. k + 1 \in 1 .. Len(Order(t)) + 1  BY <1>5
  <2>2. k + 1 = Len(Order(t)) + 1  BY <2>1, <1>1, <1>3, <1>5, <1>7, LastSpot
  <2> QED  BY <2>2, <1>5
<1>9. Values(t) = AbstractDeque!Reverse(before.items[t])
  <2> DEFINE b == before.items[t]
             n == Len(Values(t))
  <2>1. Len(b) = n /\ k = n /\ n \in Nat  BY <1>5, <1>7, <1>8 DEF Turned
  <2>2. \A i \in 1 .. n : Values(t)[i] = b[(n - i) + 1]
    <3>1. \A i \in 1 .. n : Values(t)[i] = b[k + 1 - i]
      BY <1>7, <2>1 DEF Turned
    <3>2. \A i \in 1 .. n : k + 1 - i = (n - i) + 1  BY <2>1
    <3> QED  BY <3>1, <3>2
  <2>3. Values(t) = [i \in 1 .. n |-> Values(t)[i]]
    BY <1>5, LenProperties
  <2> HIDE DEF b, n
  <2>4. Values(t) = [i \in 1 .. Len(b) |-> b[(Len(b) - i) + 1]]
    BY <2>1, <2>2, <2>3
  <2> QED  BY <2>4 DEF b, AbstractDeque!Reverse
<1>10. OrderInv' /\ AbstractDeque!Update(t, Values(t))
  BY <1>1, <1>6, Leaves
<1>11. AbstractDeque!Turn(t)
  BY <1>1, <1>4, <1>9, <1>10
  DEF Return, AbstractDeque!Turn, AbstractDeque!Return, AbstractDeque!Request
<1> QED  BY <1>10, <1>11 DEF DequeStep, AbstractDeque!Next

(* The list clear, free, assign and copy begin with. *)
LEMMA Targets ==
  ASSUME CallsInv, request # Null, loop.pc \in {"clear", "cleared"}
  PROVE  \E l, t \in Lists \cap live :
            /\ l = request.on /\ t = Target
            /\ request.op # "copy" => t = l
            /\ request.op = "copy" => t = request.arg /\ t # l
            /\ request.op \in {"clear", "free", "assign", "copy"}
            /\ \A u \in (Lists \cap live) \ {t} : Values(u) = before.items[u]
<1>1. request.op \in {"clear", "free", "assign", "copy"}
  BY DEF CallsInv, Inv, IInv, CallInv
<1>2. PICK l \in Lists \cap live : l = request.on
  BY <1>1, Callers
<1>3. PICK t \in Lists \cap live :
         /\ t = Target
         /\ request.op # "copy" => t = l
         /\ request.op = "copy" => t = request.arg /\ t # l
  BY <1>1, <1>2 DEF CallsInv, Inv, IInv, CallInv, Target
<1>4. \A u \in (Lists \cap live) \ {t} : Values(u) = before.items[u]
  BY <1>3 DEF CallsInv, BeforeInv, Changing
<1> QED  BY <1>1, <1>2, <1>3, <1>4

(* The sentinel is alone when the loop of clear ends. *)
LEMMA ClearedHeap ==
  ASSUME CallsInv, request # Null, NEW t \in Lists \cap live, t = Target, ClearEnd
  PROVE  UNCHANGED <<live, links, data>> /\ Order(t) = <<>> /\ Values(t) = <<>>
<1>1. PICK own : Shape(own)  BY DEF CallsInv, Inv, IInv
<1>2. loop.pc = "clear" /\ loop.scan = t  BY DEF ClearEnd
<1>3. links.next[t] = t  BY <1>1, <1>2 DEF Shape, LoopInv
<1>4. links.prev[t] = t  BY <1>1, <1>3, EmptyRing DEF Shape
<1>5. links = [next |-> links.next, prev |-> links.prev]
      /\ links.next \in [Cells -> Cells \cup {Null}]
      /\ links.prev \in [Cells -> Cells \cup {Null}]
  BY InvFields DEF CallsInv, Fields
<1>6. links' = [next |-> [links.next EXCEPT ![t] = t],
                prev |-> [links.prev EXCEPT ![t] = t]]
      /\ live' = live /\ data' = data
  BY DEF ClearEnd
<1>7. links' = links
  <2>1. [links.next EXCEPT ![t] = t] = links.next  BY <1>3, <1>5
  <2>2. [links.prev EXCEPT ![t] = t] = links.prev  BY <1>4, <1>5
  <2> QED  BY <1>5, <1>6, <2>1, <2>2
<1>8. Inv /\ Order(t) \in Seq(Nodes) /\ Len(Order(t)) \in Nat
      /\ Values(t) \in Seq(Vals \cup {Null}) /\ Len(Values(t)) = Len(Order(t))
  BY OrderFacts DEF CallsInv
<1>9. Len(Order(t)) = 0
  <2>1. Spot(t, Order(t), 1) = t  BY <1>3, <1>8, Neighbours
  <2>2. 1 \in 1 .. Len(Order(t)) + 1  BY <1>8
  <2>3. 1 = Len(Order(t)) + 1  BY <2>1, <2>2, <1>8, LastSpot
  <2> QED  BY <2>3, <1>8
<1> QED  BY <1>6, <1>7, <1>8, <1>9, EmptySeq

LEMMA ClearReturns ==
  ASSUME CallsInv, request # Null, ClearEnd, request.op = "clear"
  PROVE  OrderInv' /\ DequeStep
<1>1. loop.pc = "clear" /\ Return /\ typesize' = typesize
  BY DEF ClearEnd, Cleared
<1>2. PICK t \in Lists \cap live :
         /\ t = request.on /\ t = Target
         /\ \A u \in (Lists \cap live) \ {t} : Values(u) = before.items[u]
  BY <1>1, Targets
<1>3. UNCHANGED <<live, links, data>> /\ Values(t) = <<>>
  BY <1>2, ClearedHeap
<1>4. /\ \A l \in (Lists \cap live) \ {t} : ~ Changing(l)
      /\ typesize = before.typesize
  BY <1>1, <1>2 DEF CallsInv, BeforeInv, Changing
<1>5. OrderInv' /\ AbstractDeque!Update(t, <<>>)
  BY <1>1, <1>3, <1>4, Leaves
<1>6. request = [op |-> "clear", on |-> t, arg |-> Null] /\ request' = Null
  BY <1>1, <1>2 DEF CallsInv, AskedInv, Return
<1>7. AbstractDeque!Clear(t)
  BY <1>5, <1>6 DEF AbstractDeque!Clear, AbstractDeque!Return, AbstractDeque!Request
<1> QED  BY <1>5, <1>7 DEF DequeStep, AbstractDeque!Next

LEMMA Frees ==
  ASSUME CallsInv, request # Null, FreeEnd
  PROVE  OrderInv' /\ DequeStep
<1>1. loop.pc = "cleared" /\ request.op = "free" /\ Return
  BY DEF FreeEnd
<1>2. PICK t \in Lists \cap live :
         /\ t = request.on /\ t = Target
         /\ \A u \in (Lists \cap live) \ {t} : Values(u) = before.items[u]
  BY <1>1, Targets
<1>3. /\ live' = live \ {t}
      /\ links'.next = [links.next EXCEPT ![t] = Null]
      /\ data' = data
      /\ typesize' = [typesize EXCEPT ![t] = Null]
  BY <1>2 DEF FreeEnd, Forgotten
<1>4. Inv /\ links.next \in [Cells -> Cells \cup {Null}]
  BY InvFields DEF CallsInv, Fields
<1>5. /\ before.items \in [Lists -> Seq(Vals \cup {Null})]
      /\ before.typesize = typesize
      /\ \A l \in Lists : l \notin live => before.items[l] = <<>>
  BY <1>1 DEF CallsInv, BeforeInv
<1>6. ASSUME NEW l \in (Lists \cap live) \ {t}
      PROVE  Circle(links'.next, l, Order(l)) /\ Values(l)' = Values(l)
  <2>1. Circle(links.next, l, Order(l)) /\ Order(l) \in Seq(Nodes)
    BY <1>4, OrderFacts
  <2>2. \A i \in 1 .. Len(Order(l)) : Order(l)[i] \in Cells /\ Order(l)[i] # t
    <3>1. \A i \in 1 .. Len(Order(l)) : Order(l)[i] \in Nodes  BY <2>1, SeqFacts
    <3> QED  BY <3>1, CellsAssumption DEF Cells
  <2>3. l \in Cells  BY DEF Cells
  <2>4. \A c \in Cells : c # t => links'.next[c] = links.next[c]
    BY <1>3, <1>4
  <2>5. Circle(links'.next, l, Order(l))
    BY <2>1, <2>2, <2>3, <2>4, CircleSame
  <2>6. Values(l)' = ItemsOf(data', Order(l))  BY <2>5, NextOrder
  <2> QED  BY <2>5, <2>6, <1>3, <1>4, ValuesAre
<1>7. OrderInv'
  <2>1. \A l \in Lists \cap live' : l \in (Lists \cap live) \ {t}  BY <1>3
  <2> QED  BY <2>1, <1>6, NextOrder DEF OrderInv
<1>8. Items' = [l \in Lists |-> IF l \in live' THEN Values(l)' ELSE <<>>]
  BY DEF Items
<1>9. Items' = [before.items EXCEPT ![t] = <<>>]
  BY <1>2, <1>3, <1>5, <1>6, <1>8
<1>10. request = [op |-> "free", on |-> t, arg |-> Null] /\ request' = Null
  BY <1>1, <1>2 DEF CallsInv, AskedInv, Return
<1>11. Lists \cap live' = (Lists \cap live) \ {t}  BY <1>3
<1>12. AbstractDeque!Free(t)
  BY <1>3, <1>5, <1>9, <1>10, <1>11
  DEF AbstractDeque!Free, AbstractDeque!Return, AbstractDeque!Request
<1> QED  BY <1>7, <1>12 DEF DequeStep, AbstractDeque!Next

(* A call that goes on is no step of Deque. *)
LEMMA GoesOn ==
  ASSUME CallsInv, request # Null, UNCHANGED <<request, before>>,
         Lists \cap live' = Lists \cap live
  PROVE  AskedInv' /\ UNCHANGED AbstractDeque!vars
<1>1. AskedInv'
  <2>1. AskedInv  BY DEF CallsInv
  <2> QED  BY <2>1 DEF AskedInv, AssignArgs
<1>2. UNCHANGED AbstractDeque!vars
  BY DEF AbstractDeque!vars
<1> QED  BY <1>1, <1>2

LEMMA LoopRecord ==
  ASSUME CallsInv, loop.pc = "start"
  PROVE  loop = [pc |-> "start", node |-> Null, scan |-> Null, pos |-> 1]
BY DEF CallsInv, Inv, IInv, CallInv, NotLooping

LEMMA Starts ==
  ASSUME CallsInv, request # Null, RemoveStart \/ ReverseStart \/ ClearStart
  PROVE  OrderInv' /\ AskedInv' /\ BeforeInv' /\ StageInv' /\ UNCHANGED AbstractDeque!vars
<1>1. /\ request.op \in {"remove", "reverse", "clear", "free", "assign", "copy"}
      /\ loop.pc = "start"
      /\ UNCHANGED <<live, links, data, typesize, request, before>>
  BY DEF RemoveStart, ReverseStart, ClearStart, Busy, heap
<1>2. PICK l \in Lists \cap live : l = request.on
  BY <1>1, Callers
<1>3. Inv /\ Len(Order(l)) \in Nat /\ Len(Values(l)) = Len(Order(l))
  BY OrderFacts DEF CallsInv
<1>4. OrderInv' /\ \A u \in Lists : Order(u)' = Order(u) /\ Values(u)' = Values(u)
  BY <1>1, <1>3, HeapSame
<1>5. AskedInv' /\ UNCHANGED AbstractDeque!vars
  BY <1>1, GoesOn
<1>6. loop = [pc |-> "start", node |-> Null, scan |-> Null, pos |-> 1]
  BY <1>1, LoopRecord
<1>7. /\ loop'.node = Spot(l, Order(l), 1)
      /\ RemoveStart => loop'.pc = "remove"
      /\ ReverseStart => loop'.pc = "reverse"
      /\ ClearStart => loop'.pc = "clear"
      /\ loop'.pos = 1
  BY <1>2, <1>3, <1>6, Neighbours DEF RemoveStart, ReverseStart, ClearStart
<1>8. /\ \A u \in Lists \cap live : Values(u) = before.items[u]
      /\ typesize = before.typesize
  BY <1>1 DEF CallsInv, BeforeInv, Changing
<1>9. BeforeInv'
  <2>1. BeforeInv  BY DEF CallsInv
  <2>2. loop'.pc # "cleared"  BY <1>7
  <2> QED  BY <1>1, <1>4, <1>8, <2>1, <2>2 DEF BeforeInv
<1>10. StageInv'
  <2>1. loop'.pc \in {"remove", "reverse", "clear"}  BY <1>7
  <2>2. ASSUME NEW u \in Lists, request'.on = u
        PROVE  ClearInv(u)' /\ AssignInv(u)' /\ RemoveInv(u)' /\ ReverseInv(u)'
    <3>1. u = l  BY <2>2, <1>1, <1>2
    <3>2. ClearInv(u)'  BY <3>1, <1>4, <1>7 DEF ClearInv
    <3>3. AssignInv(u)'  BY <2>1 DEF AssignInv
    <3>4. RemoveInv(u)'
      <4>1. 1 \in 1 .. Len(Order(l)) + 1
            /\ \A j \in 1 .. Len(Order(l)) : ~ (j < 1)
        BY <1>3
      <4>2. \E k \in 1 .. Len(Order(l)) + 1 :
               /\ loop'.node = Spot(l, Order(l), k)
               /\ \A j \in 1 .. Len(Order(l)) : j < k => Values(l)[j] # request.arg
        BY <4>1, <1>7
      <4> QED  BY <4>2, <3>1, <1>1, <1>4 DEF RemoveInv
    <3>5. ReverseInv(u)'
      <4>1. 0 \in 0 .. Len(Order(l)) /\ 0 + 1 = 1  BY <1>3
      <4>2. Values(l) = before.items[l]  BY <1>8
      <4>3. Turned(before.items[l], Values(l), 0)
        <5>1. \A i \in 1 .. Len(Values(l)) : ~ (i <= 0)  BY <1>3
        <5> QED  BY <4>2, <5>1 DEF Turned
      <4>4. \E k \in 0 .. Len(Order(l)) :
               /\ loop'.node = Spot(l, Order(l), k + 1)
               /\ Turned(before.items[l], Values(l), k)
        BY <4>1, <4>3, <1>7
      <4> QED  BY <4>4, <3>1, <1>1, <1>4 DEF ReverseInv
    <3> QED  BY <3>2, <3>3, <3>4, <3>5
  <2>3. \A u, t \in Lists : CopyInv(u, t)'
    BY <2>1 DEF CopyInv
  <2> QED  BY <2>2, <2>3 DEF StageInv
<1> QED  BY <1>4, <1>5, <1>9, <1>10

LEMMA Passes ==
  ASSUME CallsInv, request # Null, RemovePasses
  PROVE  OrderInv' /\ AskedInv' /\ BeforeInv' /\ StageInv' /\ UNCHANGED AbstractDeque!vars
<1>1. /\ loop.pc = "remove" /\ loop.node # request.on /\ data[loop.node] # request.arg
      /\ loop' = [loop EXCEPT !.node = links.next[loop.node]]
      /\ UNCHANGED <<live, links, data, typesize, request, before>>
  BY DEF RemovePasses, heap
<1>2. request.op = "remove"
  BY <1>1 DEF CallsInv, Inv, IInv, CallInv
<1>3. PICK l \in Lists \cap live : l = request.on
  BY <1>2, Callers
<1>4. Inv /\ Len(Order(l)) \in Nat
  BY OrderFacts DEF CallsInv
<1>5. OrderInv' /\ \A u \in Lists : Order(u)' = Order(u) /\ Values(u)' = Values(u)
  BY <1>1, <1>4, HeapSame
<1>6. AskedInv' /\ UNCHANGED AbstractDeque!vars
  BY <1>1, GoesOn
<1>7. PICK k \in 1 .. Len(Order(l)) + 1 :
         /\ loop.node = Spot(l, Order(l), k)
         /\ \A j \in 1 .. Len(Order(l)) : j < k => Values(l)[j] # request.arg
  BY <1>1, <1>3 DEF CallsInv, StageInv, RemoveInv
<1>8. k \in 1 .. Len(Order(l)) /\ Values(l)[k] # request.arg
  <2>1. k # Len(Order(l)) + 1  BY <1>1, <1>3, <1>4, <1>7, LastSpot
  <2>2. k <= Len(Order(l))  BY <2>1, <1>4
  <2> QED  BY <2>2, <1>1, <1>4, <1>7, LastSpot
<1>9. links.next[loop.node] = Spot(l, Order(l), k + 1)
  BY <1>4, <1>7, <1>8, Neighbours
<1>10. loop'.node = Spot(l, Order(l), k + 1)
  BY <1>1, <1>9
<1>11. loop'.pc = "remove"  BY <1>1
<1>12. BeforeInv'
  <2>1. BeforeInv  BY DEF CallsInv
  <2> QED  BY <1>1, <1>5, <1>11, <2>1 DEF BeforeInv, Changing
<1>13. RemoveInv(l)'
  <2>1. k + 1 \in 1 .. Len(Order(l)) + 1
        /\ \A j \in 1 .. Len(Order(l)) : j < k + 1 => j < k \/ j = k
    BY <1>4, <1>8
  <2>2. \E m \in 1 .. Len(Order(l)) + 1 :
           /\ loop'.node = Spot(l, Order(l), m)
           /\ \A j \in 1 .. Len(Order(l)) : j < m => Values(l)[j] # request.arg
    BY <2>1, <1>7, <1>8, <1>10
  <2> QED  BY <2>2, <1>1, <1>5 DEF RemoveInv
<1>14. StageInv'
  <2>1. \A u \in Lists : request'.on = u => u = l  BY <1>1, <1>3
  <2>2. \A u, t \in Lists : ClearInv(u)' /\ AssignInv(u)' /\ ReverseInv(u)' /\ CopyInv(u, t)'
    BY <1>11 DEF ClearInv, AssignInv, ReverseInv, CopyInv
  <2> QED  BY <1>13, <2>1, <2>2 DEF StageInv
<1> QED  BY <1>5, <1>6, <1>12, <1>14

(* The clear with which free, assign and copy begin is done. *)
LEMMA Emptied ==
  ASSUME CallsInv, request # Null, ClearNothing \/ (ClearEnd /\ request.op # "clear")
  PROVE  OrderInv' /\ AskedInv' /\ BeforeInv' /\ StageInv' /\ UNCHANGED AbstractDeque!vars
<1>1. /\ request.op \in {"free", "assign", "copy"}
      /\ UNCHANGED <<request, before>> /\ loop'.pc = "cleared"
      /\ loop.pc = IF ClearNothing THEN "start" ELSE "clear"
      /\ Cleared
  <2>1. CASE ClearNothing
    BY <2>1 DEF ClearNothing, Busy
  <2>2. CASE ClearEnd /\ request.op # "clear" /\ ~ ClearNothing
    <3>1. loop.pc = "clear" /\ Cleared
          /\ loop' = [loop EXCEPT !.pc = "cleared", !.scan = Null]
          /\ UNCHANGED <<request, before>>
      BY <2>2 DEF ClearEnd
    <3>2. request.op \in {"clear", "free", "assign", "copy"}
      BY <3>1 DEF CallsInv, Inv, IInv, CallInv
    <3> QED  BY <2>2, <3>1, <3>2
  <2> QED  BY <2>1, <2>2
<1>2. PICK l \in Lists \cap live : l = request.on
  BY <1>1, Callers
<1>3. PICK t \in Lists \cap live :
         /\ t = Target
         /\ request.op # "copy" => t = l
         /\ request.op = "copy" => t = request.arg /\ t # l
  BY <1>1, <1>2 DEF CallsInv, Inv, IInv, CallInv, Target
<1>4. /\ Inv /\ Len(Order(l)) \in Nat /\ Len(Order(t)) \in Nat
      /\ Values(t) \in Seq(Vals \cup {Null}) /\ Len(Values(t)) = Len(Order(t))
  BY OrderFacts DEF CallsInv
<1>5. UNCHANGED <<live, links, data>> /\ Len(Order(t)) = 0
  <2>1. CASE ClearNothing
    <3>1. UNCHANGED <<live, links, data>> /\ count[t] = 0 /\ loop.pc = "start"
      BY <1>3, <2>1 DEF ClearNothing, Busy, heap
    <3>2. Len(Order(t)) = 0  BY <3>1, <1>4, CountIsLen
    <3> QED  BY <3>1, <3>2
  <2>2. CASE ClearEnd
    <3>1. Order(t) = <<>> /\ UNCHANGED <<live, links, data>>
      BY <2>2, <1>3, ClearedHeap
    <3> QED  BY <3>1
  <2> QED  BY <2>1, <2>2
<1>6. OrderInv' /\ \A u \in Lists : Order(u)' = Order(u) /\ Values(u)' = Values(u)
  BY <1>4, <1>5, HeapSame
<1>7. AskedInv' /\ UNCHANGED AbstractDeque!vars
  BY <1>1, <1>5, GoesOn
<1>8. /\ loop'.pos = 1
      /\ request.op = "copy" => loop'.node = Spot(l, Order(l), 1)
  <2>1. CASE ClearNothing
    <3>1. loop = [pc |-> "start", node |-> Null, scan |-> Null, pos |-> 1]
      BY <1>1, <2>1, LoopRecord
    <3>2. loop' = [loop EXCEPT !.pc = "cleared", !.node = links.next[l]]
      BY <1>2, <2>1 DEF ClearNothing
    <3>3. links.next[l] = Spot(l, Order(l), 1)
      BY <1>4, Neighbours
    <3> QED  BY <3>1, <3>2, <3>3
  <2>2. CASE ClearEnd /\ request.op # "clear" /\ ~ ClearNothing
    <3>1. loop' = [loop EXCEPT !.pc = "cleared", !.scan = Null] /\ loop.pc = "clear"
      BY <2>2 DEF ClearEnd
    <3>2. ClearInv(l)  BY <1>2 DEF CallsInv, StageInv
    <3>3. loop'.pos = loop.pos /\ loop'.node = loop.node
      BY <3>1
    <3> QED  BY <3>1, <3>2, <3>3 DEF ClearInv
  <2> QED  BY <2>1, <2>2
<1>9. BeforeInv'
  <2>1. BeforeInv  BY DEF CallsInv
  <2>2. typesize = before.typesize  BY <1>1, <2>1 DEF BeforeInv
  <2>3. typesize' = IF request.op = "copy"
                    THEN [before.typesize EXCEPT ![request.arg] = before.typesize[request.on]]
                    ELSE before.typesize
    BY <1>1, <1>3, <2>2 DEF Cleared
  <2>4. \A u \in Lists \cap live : ~ Changing(u)' => ~ Changing(u)
    BY <1>1 DEF Changing, Target
  <2> QED  BY <1>1, <1>5, <1>6, <2>1, <2>3, <2>4 DEF BeforeInv
<1>10. StageInv'
  <2>1. \A u \in Lists : request'.on = u => u = l  BY <1>1, <1>2
  <2>2. \A u \in Lists : ClearInv(u)' /\ RemoveInv(u)' /\ ReverseInv(u)'
    BY <1>1 DEF ClearInv, RemoveInv, ReverseInv
  <2>3. AssignInv(l)'
    <3>1. request.op = "assign" => Len(Order(l)) = 0  BY <1>3, <1>5
    <3>2. loop'.pos - 1 = 0  BY <1>8
    <3>3. \A i \in 1 .. loop'.pos - 1 : FALSE  BY <3>2
    <3>4. request'.op = request.op  BY <1>1
    <3> QED  BY <1>6, <3>1, <3>2, <3>3, <3>4 DEF AssignInv
  <2>4. ASSUME NEW u \in Lists, NEW w \in Lists, request'.on = u, request'.arg = w
        PROVE  CopyInv(u, w)'
    <3>1. SUFFICES ASSUME request'.op = "copy" PROVE CopyInv(u, w)'
      BY DEF CopyInv
    <3>2. u = l /\ w = t  BY <2>4, <3>1, <1>1, <1>2, <1>3
    <3>3. Len(Order(w)') = 0 /\ loop'.node = Spot(l, Order(l)', 1)
      BY <3>1, <3>2, <1>1, <1>5, <1>6, <1>8
    <3>4. \A i \in 1 .. Len(Order(w)') : FALSE  BY <3>3
    <3>5. Len(Order(w)') <= Len(Order(u)') /\ Len(Order(w)') + 1 = 1
      BY <3>2, <3>3, <1>4, <1>6
    <3> QED  BY <3>2, <3>3, <3>4, <3>5 DEF CopyInv
  <2> QED  BY <2>1, <2>2, <2>3, <2>4 DEF StageInv
<1> QED  BY <1>6, <1>7, <1>9, <1>10

(* clear frees the first node. *)
LEMMA Clears ==
  ASSUME CallsInv, request # Null, ClearStep
  PROVE  OrderInv' /\ AskedInv' /\ BeforeInv' /\ StageInv' /\ UNCHANGED AbstractDeque!vars
<1>1. /\ loop.pc = "clear" /\ loop.scan # Target /\ NodeFree(loop.scan)
      /\ loop' = [loop EXCEPT !.scan = links.next[loop.scan]]
      /\ UNCHANGED <<typesize, request, before>>
  BY DEF ClearStep
<1>2. PICK l, t \in Lists \cap live :
         /\ l = request.on /\ t = Target
         /\ request.op = "copy" => t = request.arg /\ t # l
         /\ \A u \in (Lists \cap live) \ {t} : Values(u) = before.items[u]
  BY <1>1, Targets
<1>3. /\ Inv /\ Len(Order(t)) \in Nat
  BY OrderFacts DEF CallsInv
<1>4. loop.scan = links.next[t] /\ links.next[t] # t
  <2>1. PICK own : Shape(own)  BY DEF CallsInv, Inv, IInv
  <2> QED  BY <2>1, <1>1, <1>2 DEF Shape, LoopInv
<1>5. 1 \in 1 .. Len(Order(t)) /\ loop.scan = Order(t)[1]
  <2>1. 1 \in 1 .. Len(Order(t)) + 1 /\ links.next[t] = Spot(t, Order(t), 1)
    BY <1>3, Neighbours
  <2>2. 1 # Len(Order(t)) + 1  BY <2>1, <1>3, <1>4, LastSpot
  <2>3. 1 <= Len(Order(t))  BY <2>2, <1>3
  <2> QED  BY <2>1, <2>3, <1>3, <1>4, LastSpot
<1>6. /\ Lists \cap live' = Lists \cap live
      /\ OrderInv'
      /\ \A u \in (Lists \cap live) \ {t} : Order(u)' = Order(u) /\ Values(u)' = Values(u)
  BY <1>1, <1>3, <1>5, NodeFreed
<1>7. AskedInv' /\ UNCHANGED AbstractDeque!vars
  BY <1>1, <1>6, GoesOn
<1>8. loop'.pc = "clear" /\ loop'.pos = loop.pos /\ loop'.node = loop.node
  BY <1>1
<1>9. BeforeInv'
  <2>1. BeforeInv  BY DEF CallsInv
  <2>2. Changing(t)'  BY <1>1, <1>2, <1>8 DEF Changing, Target
  <2>3. \A u \in Lists \cap live' : ~ Changing(u)' => Values(u)' = before.items[u]
    BY <1>2, <1>6, <2>2
  <2>4. \A u \in Lists : u \notin live' => u \notin live  BY <1>6
  <2> QED  BY <1>1, <1>8, <2>1, <2>3, <2>4 DEF BeforeInv
<1>10. StageInv'
  <2>1. \A u \in Lists : request'.on = u => u = l  BY <1>1, <1>2
  <2>2. \A u, w \in Lists : AssignInv(u)' /\ CopyInv(u, w)' /\ RemoveInv(u)' /\ ReverseInv(u)'
    BY <1>8 DEF AssignInv, CopyInv, RemoveInv, ReverseInv
  <2>3. ClearInv(l)  BY <1>2 DEF CallsInv, StageInv
  <2>4. request.op = "copy" => Order(l)' = Order(l)  BY <1>2, <1>6
  <2>5. ClearInv(l)'
    BY <1>1, <1>8, <2>3, <2>4 DEF ClearInv
  <2> QED  BY <2>1, <2>2, <2>5 DEF StageInv
<1> QED  BY <1>6, <1>7, <1>9, <1>10

(* What a node more at the end of a list does to its length and items. *)
LEMMA GrownEnd ==
  ASSUME NEW S, NEW V \in Seq(S), NEW v \in S
  PROVE  /\ Len(Grown(V, Len(V), v)) = Len(V) + 1
         /\ \A i \in 1 .. Len(V) : Grown(V, Len(V), v)[i] = V[i]
         /\ Grown(V, Len(V), v)[Len(V) + 1] = v
<1>1. Len(V) \in Nat /\ Len(V) \in 0 .. Len(V)  BY LenProperties
<1>2. Len(Grown(V, Len(V), v)) = Len(V) + 1  BY <1>1, SeqFacts
<1> QED  BY <1>1, <1>2 DEF Grown

LEMMA Assigns ==
  ASSUME CallsInv, request # Null, AssignStep
  PROVE  OrderInv' /\ AskedInv' /\ BeforeInv' /\ StageInv' /\ UNCHANGED AbstractDeque!vars
<1>1. /\ loop.pc = "cleared" /\ request.op = "assign" /\ loop.pos # request.arg.last
      /\ NodeAdd(links.prev[request.on], request.arg.array[loop.pos])
      /\ loop' = [loop EXCEPT !.pos = loop.pos + 1]
      /\ UNCHANGED <<typesize, request, before>>
  BY DEF AssignStep
<1>2. PICK t \in Lists \cap live :
         /\ t = request.on /\ t = Target
         /\ \A u \in (Lists \cap live) \ {t} : Values(u) = before.items[u]
  BY <1>1, Targets
<1>3. Inv /\ Len(Order(t)) \in Nat /\ Values(t) \in Seq(Vals \cup {Null})
      /\ Len(Values(t)) = Len(Order(t)) /\ Order(t) \in Seq(Nodes)
  BY OrderFacts DEF CallsInv
<1>4. /\ request.arg.array \in Seq(Vals)
      /\ request.arg.last \in 1 .. Len(request.arg.array) + 1
      /\ loop.pos <= request.arg.last
      /\ loop.pos \in Nat \ {0} /\ Len(request.arg.array) \in Nat
  BY <1>1, LenProperties DEF CallsInv, Inv, IInv, CallInv, TypeOK
<1>5. PICK v \in Vals : v = request.arg.array[loop.pos]
  <2>1. loop.pos \in 1 .. Len(request.arg.array)  BY <1>1, <1>4
  <2> QED  BY <2>1, <1>4, SeqFacts
<1>6. AssignInv(t)  BY <1>2 DEF CallsInv, StageInv
<1>7. NodeAdd(Spot(t, Order(t), Len(Order(t))), v)
  <2>1. links.prev[t] = Spot(t, Order(t), Len(Order(t)))  BY <1>3, Neighbours
  <2> QED  BY <2>1, <1>1, <1>2, <1>5
<1>8. /\ Lists \cap live' = Lists \cap live
      /\ OrderInv'
      /\ \E node \in Nodes : Order(t)' = Grown(Order(t), Len(Order(t)), node)
      /\ Values(t)' = Grown(Values(t), Len(Order(t)), v)
      /\ \A u \in (Lists \cap live) \ {t} : Values(u)' = Values(u)
  <2>1. Len(Order(t)) \in 0 .. Len(Order(t))  BY <1>3
  <2> QED  BY <2>1, <1>3, <1>7, NodeAdded
<1>9. AskedInv' /\ UNCHANGED AbstractDeque!vars
  BY <1>1, <1>8, GoesOn
<1>10. loop'.pc = "cleared" /\ loop'.pos = loop.pos + 1
  BY <1>1
<1>11. BeforeInv'
  <2>1. BeforeInv  BY DEF CallsInv
  <2>2. Changing(t)'  BY <1>1, <1>2, <1>10 DEF Changing, Target
  <2>3. \A u \in Lists \cap live' : ~ Changing(u)' => Values(u)' = before.items[u]
    BY <1>2, <1>8, <2>2
  <2>4. \A u \in Lists : u \notin live' => u \notin live  BY <1>8
  <2> QED  BY <1>1, <1>10, <2>1, <2>3, <2>4 DEF BeforeInv
<1>12. AssignInv(t)'
  <2>1. Len(Order(t)') = Len(Order(t)) + 1  BY <1>3, <1>8, GrownEnd
  <2>2. Len(Order(t)) = loop.pos - 1
        /\ \A i \in 1 .. loop.pos - 1 : Values(t)[i] = request.arg.array[i]
    BY <1>1, <1>6 DEF AssignInv
  <2>3. /\ \A i \in 1 .. Len(Values(t)) : Values(t)'[i] = Values(t)[i]
        /\ Values(t)'[Len(Values(t)) + 1] = v
    <3>1. v \in Vals \cup {Null}  OBVIOUS
    <3> QED  BY <3>1, <1>3, <1>8, GrownEnd
  <2>4. Len(Order(t)') = loop'.pos - 1  BY <2>1, <2>2, <1>4, <1>10
  <2>5. ASSUME NEW i \in 1 .. loop'.pos - 1
        PROVE  Values(t)'[i] = request.arg.array[i]
    <3>1. i \in 1 .. Len(Values(t)) \/ i = Len(Values(t)) + 1
      BY <2>2, <1>3, <1>4, <1>10
    <3>2. Len(Values(t)) = loop.pos - 1 /\ Len(Values(t)) + 1 = loop.pos
      BY <2>2, <1>3, <1>4
    <3> QED  BY <3>1, <3>2, <2>2, <2>3, <1>5
  <2> QED  BY <2>4, <2>5, <1>1 DEF AssignInv
<1>13. StageInv'
  <2>1. \A u \in Lists : request'.on = u => u = t  BY <1>1, <1>2
  <2>2. \A u \in Lists : ClearInv(u)' /\ RemoveInv(u)' /\ ReverseInv(u)'
    BY <1>10 DEF ClearInv, RemoveInv, ReverseInv
  <2>3. request'.op # "copy"  BY <1>1
  <2>4. \A u, w \in Lists : CopyInv(u, w)'  BY <2>3 DEF CopyInv
  <2> QED  BY <1>12, <2>1, <2>2, <2>4 DEF StageInv
<1> QED  BY <1>8, <1>9, <1>11, <1>13

LEMMA Copies ==
  ASSUME CallsInv, request # Null, CopyStep
  PROVE  OrderInv' /\ AskedInv' /\ BeforeInv' /\ StageInv' /\ UNCHANGED AbstractDeque!vars
<1>1. /\ loop.pc = "cleared" /\ request.op = "copy" /\ loop.node # request.on
      /\ NodeAdd(links.prev[Target], data[loop.node])
      /\ loop' = [loop EXCEPT !.node = links'.next[loop.node]]
      /\ UNCHANGED <<typesize, request, before>>
  BY DEF CopyStep
<1>2. PICK l, t \in Lists \cap live :
         /\ l = request.on /\ t = Target
         /\ t = request.arg /\ t # l
         /\ \A u \in (Lists \cap live) \ {t} : Values(u) = before.items[u]
  BY <1>1, Targets
<1>3. /\ Inv /\ Len(Order(t)) \in Nat /\ Values(t) \in Seq(Vals \cup {Null})
      /\ Len(Values(t)) = Len(Order(t)) /\ Order(t) \in Seq(Nodes)
      /\ Len(Order(l)) \in Nat /\ Values(l) \in Seq(Vals \cup {Null})
      /\ Len(Values(l)) = Len(Order(l))
  BY OrderFacts DEF CallsInv
<1> DEFINE n == Len(Order(t))
<1>4. /\ n <= Len(Order(l))
      /\ loop.node = Spot(l, Order(l), n + 1)
      /\ \A i \in 1 .. n : Values(t)[i] = Values(l)[i]
  BY <1>1, <1>2 DEF CallsInv, StageInv, CopyInv
<1>5. n + 1 \in 1 .. Len(Order(l)) /\ data[loop.node] = Values(l)[n + 1]
  <2>1. n + 1 \in 1 .. Len(Order(l)) + 1  BY <1>3, <1>4
  <2>2. n + 1 # Len(Order(l)) + 1  BY <2>1, <1>1, <1>2, <1>3, <1>4, LastSpot
  <2>3. n + 1 <= Len(Order(l))  BY <2>2, <1>3, <1>4
  <2>4. data[Spot(l, Order(l), n + 1)] = Values(l)[n + 1]
    <3> HIDE DEF n
    <3> QED  BY <2>1, <2>3, <1>3, LastSpot
  <2> QED  BY <2>3, <2>4, <1>3, <1>4
<1>6. PICK v \in Vals \cup {Null} : v = Values(l)[n + 1]
  BY <1>3, <1>5, SeqFacts
<1>7. NodeAdd(Spot(t, Order(t), n), v)
  <2>1. links.prev[t] = Spot(t, Order(t), n)  BY <1>3, Neighbours
  <2> QED  BY <2>1, <1>1, <1>2, <1>5, <1>6
<1>8. /\ Lists \cap live' = Lists \cap live
      /\ OrderInv'
      /\ \E node \in Nodes : Order(t)' = Grown(Order(t), Len(Order(t)), node)
      /\ Values(t)' = Grown(Values(t), Len(Order(t)), v)
      /\ \A u \in (Lists \cap live) \ {t} : Order(u)' = Order(u) /\ Values(u)' = Values(u)
  <2>1. n \in 0 .. Len(Order(t))  BY <1>3
  <2> QED  BY <2>1, <1>3, <1>7, NodeAdded
<1>9. AskedInv' /\ UNCHANGED AbstractDeque!vars
  BY <1>1, <1>8, GoesOn
<1>10. loop'.pc = "cleared" /\ loop'.node = links'.next[loop.node]
  BY <1>1
<1>11. BeforeInv'
  <2>1. BeforeInv  BY DEF CallsInv
  <2>2. Changing(t)'  BY <1>1, <1>2, <1>10 DEF Changing, Target
  <2>3. \A u \in Lists \cap live' : ~ Changing(u)' => Values(u)' = before.items[u]
    BY <1>2, <1>8, <2>2
  <2>4. \A u \in Lists : u \notin live' => u \notin live  BY <1>8
  <2> QED  BY <1>1, <1>10, <2>1, <2>3, <2>4 DEF BeforeInv
<1>12. CopyInv(l, t)'
  <2>1. Order(l)' = Order(l) /\ Values(l)' = Values(l)  BY <1>2, <1>8
  <2>2. Len(Order(t)') = n + 1  BY <1>3, <1>8, GrownEnd
  <2>3. /\ \A i \in 1 .. n : Values(t)'[i] = Values(t)[i]
        /\ Values(t)'[n + 1] = v
    BY <1>3, <1>8, GrownEnd
  <2>4. loop'.node = Spot(l, Order(l), (n + 1) + 1)
    <3>1. Circle(links'.next, l, Order(l)')  BY <1>8 DEF OrderInv
    <3>2. Circle(links'.next, l, Order(l))  BY <3>1, <2>1
    <3>3. n + 1 \in 0 .. Len(Order(l))  BY <1>3, <1>5
    <3>4. links'.next[Spot(l, Order(l), n + 1)] = Spot(l, Order(l), (n + 1) + 1)
      BY <3>2, <3>3 DEF Circle
    <3> QED  BY <3>4, <1>4, <1>10
  <2>5. n + 1 <= Len(Order(l))  BY <1>3, <1>5
  <2>6. ASSUME NEW i \in 1 .. n + 1 PROVE Values(t)'[i] = Values(l)[i]
    <3>1. i \in 1 .. n \/ i = n + 1  BY <1>3
    <3> HIDE DEF n
    <3> QED  BY <3>1, <2>3, <1>4, <1>6
  <2> HIDE DEF n
  <2> QED  BY <2>1, <2>2, <2>4, <2>5, <2>6 DEF CopyInv
<1>13. StageInv'
  <2>1. \A u \in Lists : request'.on = u => u = l  BY <1>1, <1>2
  <2>2. \A u \in Lists : ClearInv(u)' /\ RemoveInv(u)' /\ ReverseInv(u)' /\ AssignInv(u)'
    BY <1>1, <1>10 DEF ClearInv, RemoveInv, ReverseInv, AssignInv
  <2>3. \A w \in Lists : request'.arg = w => w = t  BY <1>1, <1>2
  <2> QED  BY <1>12, <2>1, <2>2, <2>3 DEF StageInv
<1> QED  BY <1>8, <1>9, <1>11, <1>13

(* One node more is turned round. *)
LEMMA TurnsOne ==
  ASSUME NEW S, NEW V \in Seq(S), NEW b, NEW k \in 0 .. Len(V), k < Len(V),
         Turned(b, V, k)
  PROVE  Turned(b, Grown(Shrunk(V, k + 1), 0, V[k + 1]), k + 1)
<1> DEFINE s == Shrunk(V, k + 1)
           W == Grown(s, 0, V[k + 1])
<1>1. Len(V) \in Nat /\ k \in Nat /\ k + 1 \in 1 .. Len(V)  BY LenProperties
<1>2. s \in Seq(S) /\ Len(s) = Len(V) - 1 /\ V[k + 1] \in S  BY <1>1, SeqFacts
<1>3. \A i \in 1 .. Len(V) - 1 : s[i] = IF i < k + 1 THEN V[i] ELSE V[i + 1]
  BY DEF Shrunk
<1> HIDE DEF s
<1>4. Len(W) = Len(V)
  <2>1. 0 \in 0 .. Len(s)  BY <1>1, <1>2
  <2>2. \A x \in S : Len(Grown(s, 0, x)) = Len(s) + 1  BY <2>1, <1>2, SeqFacts
  <2>3. Len(W) = Len(s) + 1  BY <2>2, <1>2
  <2> QED  BY <2>3, <1>1, <1>2
<1>5. \A i \in 1 .. Len(V) : W[i] = IF i = 1 THEN V[k + 1] ELSE s[i - 1]
  BY <1>1, <1>2 DEF Grown
<1> HIDE DEF W
<1>6. ASSUME NEW i \in 1 .. Len(V)
      PROVE  W[i] = IF i <= k + 1 THEN b[(k + 1) + 1 - i] ELSE b[i]
  <2>0. i = 1 \/ (i > 1 /\ i <= k + 1) \/ i > k + 1  BY <1>1
  <2>1. CASE i = 1
    <3>1. V[k + 1] = b[k + 1]
      <4>1. k + 1 \in 1 .. Len(V) /\ ~ (k + 1 <= k)  BY <1>1
      <4> QED  BY <4>1 DEF Turned
    <3>2. (k + 1) + 1 - i = k + 1 /\ i <= k + 1  BY <2>1, <1>1
    <3> QED  BY <3>1, <3>2, <2>1, <1>5
  <2>2. CASE i > 1 /\ i <= k + 1
    <3>1. i - 1 \in 1 .. Len(V) - 1 /\ i - 1 \in 1 .. Len(V) /\ i - 1 < k + 1
          /\ i - 1 <= k /\ i # 1
      BY <2>2, <1>1
    <3>2. W[i] = V[i - 1]  BY <3>1, <1>3, <1>5
    <3>3. V[i - 1] = b[k + 1 - (i - 1)]  BY <3>1 DEF Turned
    <3>4. k + 1 - (i - 1) = (k + 1) + 1 - i  BY <1>1
    <3> QED  BY <3>2, <3>3, <3>4, <2>2
  <2>3. CASE i > k + 1
    <3>1. i - 1 \in 1 .. Len(V) - 1 /\ ~ (i - 1 < k + 1) /\ (i - 1) + 1 = i
          /\ i # 1 /\ ~ (i <= k) /\ ~ (i <= k + 1)
      BY <2>3, <1>1
    <3>2. W[i] = V[i]  BY <3>1, <1>3, <1>5
    <3>3. V[i] = b[i]  BY <3>1 DEF Turned
    <3> QED  BY <3>1, <3>2, <3>3
  <2> QED  BY <2>0, <2>1, <2>2, <2>3
<1>7. Len(b) = Len(W)  BY <1>4 DEF Turned
<1>8. Turned(b, W, k + 1)  BY <1>4, <1>6, <1>7 DEF Turned
<1> QED  BY <1>8 DEF W, s

(* Where reverse goes on is behind the node that it moved to the front.    *)
LEMMA MovedSpot ==
  ASSUME NEW l, NEW r \in Seq(Nodes), NEW k \in 0 .. Len(r), k < Len(r)
  PROVE  LET g == Grown(Shrunk(r, k + 1), 0, r[k + 1])
         IN  Len(g) = Len(r) /\ Spot(l, g, (k + 1) + 1) = Spot(l, r, (k + 1) + 1)
<1> DEFINE s == Shrunk(r, k + 1)
           o == r[k + 1]
           g == Grown(s, 0, o)
<1>1. Len(r) \in Nat /\ k \in Nat /\ k + 1 \in 1 .. Len(r)  BY SeqFacts
<1>2. /\ s \in Seq(Nodes) /\ Len(s) = Len(r) - 1 /\ o \in Nodes
      /\ \A i \in 1 .. Len(s) : s[i] = IF i < k + 1 THEN r[i] ELSE r[i + 1]
  <2>1. s \in Seq(Nodes) /\ Len(s) = Len(r) - 1 /\ o \in Nodes
    BY <1>1, SeqFacts
  <2> QED  BY <2>1 DEF Shrunk
<1> HIDE DEF s, o
<1>3. /\ Len(g) = Len(s) + 1
      /\ \A i \in 1 .. Len(s) + 1 : i > 1 => g[i] = s[i - 1]
  <2>1. 0 \in 0 .. Len(s) /\ Len(s) \in Nat  BY <1>1, <1>2
  <2>2. Len(g) = Len(s) + 1  BY <2>1, <1>2, SeqFacts
  <2> QED  BY <2>1, <2>2 DEF Grown
<1> HIDE DEF g
<1>4. Len(g) = Len(r)  BY <1>1, <1>2, <1>3
<1>5. Spot(l, g, (k + 1) + 1) = Spot(l, r, (k + 1) + 1)
  <2>1. CASE k + 2 \in 1 .. Len(r)
    <3>1. k + 2 \in 1 .. Len(s) + 1 /\ k + 2 > 1 /\ (k + 2) - 1 = k + 1
          /\ k + 1 \in 1 .. Len(s) /\ ~ (k + 1 < k + 1) /\ (k + 1) + 1 = k + 2
      BY <2>1, <1>1, <1>2
    <3>2. g[k + 2] = s[k + 1]  BY <3>1, <1>3
    <3>3. s[k + 1] = r[k + 2]  BY <3>1, <1>2
    <3> QED  BY <3>1, <3>2, <3>3, <2>1, <1>4 DEF Spot
  <2>2. CASE k + 2 \notin 1 .. Len(r)
    <3>1. (k + 1) + 1 = k + 2  BY <1>1
    <3> QED  BY <3>1, <2>2, <1>4 DEF Spot
  <2> QED  BY <2>1, <2>2
<1> QED  BY <1>4, <1>5 DEF g, s, o

LEMMA Reverses ==
  ASSUME CallsInv, request # Null, ReverseStep
  PROVE  OrderInv' /\ AskedInv' /\ BeforeInv' /\ StageInv' /\ UNCHANGED AbstractDeque!vars
<1>1. /\ loop.pc = "reverse" /\ loop.node # request.on
      /\ links' = Inserted(Erased(links, loop.node), request.on, loop.node)
      /\ loop' = [loop EXCEPT !.node = links.next[loop.node]]
      /\ UNCHANGED <<live, data, typesize, request, before>>
  BY DEF ReverseStep
<1>2. request.op = "reverse"
  BY <1>1 DEF CallsInv, Inv, IInv, CallInv
<1>3. PICK t \in Lists \cap live : t = request.on
  BY <1>2, Callers
<1>4. Inv /\ Len(Order(t)) \in Nat /\ Values(t) \in Seq(Vals \cup {Null})
      /\ Len(Values(t)) = Len(Order(t)) /\ Order(t) \in Seq(Nodes)
  BY OrderFacts DEF CallsInv
<1>5. PICK k \in 0 .. Len(Order(t)) : /\ loop.node = Spot(t, Order(t), k + 1)
                                      /\ Turned(before.items[t], Values(t), k)
  BY <1>1, <1>3 DEF CallsInv, StageInv, ReverseInv
<1>6. /\ k + 1 \in 1 .. Len(Order(t)) /\ k < Len(Order(t)) /\ k \in Nat
      /\ loop.node = Order(t)[k + 1]
  <2>1. k + 1 \in 1 .. Len(Order(t)) + 1  BY <1>4
  <2>2. k + 1 # Len(Order(t)) + 1  BY <2>1, <1>1, <1>3, <1>4, <1>5, LastSpot
  <2>3. k + 1 <= Len(Order(t)) /\ k < Len(Order(t)) /\ k \in Nat  BY <2>2, <1>4
  <2> QED  BY <2>1, <2>3, <1>4, <1>5, LastSpot
<1>7. /\ OrderInv'
      /\ Order(t)' = Grown(Shrunk(Order(t), k + 1), 0, Order(t)[k + 1])
      /\ Values(t)' = Grown(Shrunk(Values(t), k + 1), 0, Values(t)[k + 1])
      /\ \A u \in (Lists \cap live) \ {t} : Values(u)' = Values(u)
  <2>1. links' = Inserted(Erased(links, Order(t)[k + 1]), t, Order(t)[k + 1])
    BY <1>1, <1>3, <1>6
  <2> QED  BY <2>1, <1>1, <1>4, <1>6, NodeMoved
<1>8. AskedInv' /\ UNCHANGED AbstractDeque!vars
  BY <1>1, GoesOn
<1>9. loop'.pc = "reverse" /\ loop'.node = Spot(t, Order(t), (k + 1) + 1)
  <2>1. links.next[Spot(t, Order(t), k + 1)] = Spot(t, Order(t), (k + 1) + 1)
    BY <1>4, <1>6, Neighbours
  <2> QED  BY <2>1, <1>1, <1>5
<1>10. BeforeInv'
  <2>1. BeforeInv  BY DEF CallsInv
  <2>2. Changing(t)' /\ \A u \in Lists : u # t => ~ Changing(u)
    BY <1>1, <1>3, <1>9 DEF Changing
  <2>3. \A u \in Lists \cap live' : ~ Changing(u)' => Values(u)' = before.items[u]
    BY <1>1, <1>7, <2>1, <2>2, <1>2 DEF BeforeInv
  <2> QED  BY <1>1, <1>9, <2>1, <2>3 DEF BeforeInv
<1>11. ReverseInv(t)'
  <2>1. Turned(before.items[t], Values(t)', k + 1)
    BY <1>4, <1>5, <1>6, <1>7, TurnsOne
  <2>2. /\ Len(Order(t)') = Len(Order(t))
        /\ Spot(t, Order(t)', (k + 1) + 1) = Spot(t, Order(t), (k + 1) + 1)
    BY <1>4, <1>6, <1>7, MovedSpot
  <2>3. k + 1 \in 0 .. Len(Order(t)')  BY <2>2, <1>6
  <2>4. \E m \in 0 .. Len(Order(t)') : /\ loop'.node = Spot(t, Order(t)', m + 1)
                                       /\ Turned(before.items[t], Values(t)', m)
    BY <2>1, <2>2, <2>3, <1>9
  <2> QED  BY <2>4, <1>1 DEF ReverseInv
<1>12. StageInv'
  <2>1. \A u \in Lists : request'.on = u => u = t  BY <1>1, <1>3
  <2>2. \A u, w \in Lists : ClearInv(u)' /\ RemoveInv(u)' /\ AssignInv(u)' /\ CopyInv(u, w)'
    BY <1>9 DEF ClearInv, RemoveInv, AssignInv, CopyInv
  <2> QED  BY <1>11, <2>1, <2>2 DEF StageInv
<1> QED  BY <1>7, <1>8, <1>10, <1>12

(* A call begins: Deque is asked for the same. *)
LEMMA Asks ==
  ASSUME CallsInv, Caller
  PROVE  OrderInv' /\ AskedInv' /\ BeforeInv' /\ StageInv' /\ DequeStep
<1>1. PICK l, op, arg :
         /\ l \in Lists /\ Invoke(op, l, arg)
         /\ \/ op = "alloc" /\ arg \in Sizes
            \/ op \in {"free", "clear", "pop_back", "pop_front", "reverse"} /\ arg = Null
            \/ op \in {"push_back", "push_front", "remove"} /\ arg \in Vals
            \/ op = "assign" /\ arg \in AssignArgs
            \/ op = "copy" /\ arg \in (Lists \cap live) \ {l}
  BY DEF Caller
<1>2. /\ request = Null
      /\ op = "alloc" <=> l \notin live
      /\ request' = [op |-> op, on |-> l, arg |-> arg]
      /\ before' = [items |-> Items, typesize |-> typesize]
      /\ UNCHANGED <<live, links, data, typesize, loop>>
  BY <1>1 DEF Invoke, heap
<1>3. Inv /\ typesize \in [Lists -> Sizes \cup {Null}]
  BY DEF CallsInv, Inv, IInv, TypeOK
<1>4. OrderInv' /\ \A u \in Lists : Values(u)' = Values(u)
  BY <1>2, <1>3, HeapSame
<1>5. loop'.pc = "start"
  BY <1>2 DEF CallsInv, Inv, IInv, CallInv, TypeOK
<1>6. Items' = Items
  BY <1>2, <1>3, HeapSame
<1>7. AskedInv'
  <2>1. AssignArgs' = AssignArgs  BY DEF AssignArgs
  <2> QED  BY <1>1, <1>2, <2>1 DEF AskedInv
<1>8. BeforeInv'
  <2>1. Items \in [Lists -> Seq(Vals \cup {Null})]
    <3>1. \A u \in Lists \cap live : Values(u) \in Seq(Vals \cup {Null})
      BY <1>3, OrderFacts
    <3>2. <<>> \in Seq(Vals \cup {Null})  OBVIOUS
    <3> QED  BY <3>1, <3>2 DEF Items
  <2>2. \A u \in Lists : Items[u] = IF u \in live THEN Values(u) ELSE <<>>
    BY DEF Items
  <2> QED  BY <1>2, <1>3, <1>4, <1>5, <2>1, <2>2 DEF BeforeInv
<1>9. StageInv'
  BY <1>5 DEF StageInv, ClearInv, AssignInv, CopyInv, RemoveInv, ReverseInv
<1>10. AbstractDeque!Invoke(op, l, arg)
  BY <1>1, <1>2, <1>6 DEF AbstractDeque!Invoke, AbstractDeque!Request
<1>11. AbstractDeque!AssignArgs = AssignArgs
  BY DEF AssignArgs, AbstractDeque!AssignArgs
<1>12. AbstractDeque!Next
  <2>1. CASE op = "alloc" /\ arg \in Sizes
    BY <1>1, <2>1, <1>10 DEF AbstractDeque!Next
  <2>2. CASE op \in {"free", "clear", "pop_back", "pop_front", "reverse"} /\ arg = Null
    BY <1>1, <2>2, <1>10 DEF AbstractDeque!Next
  <2>3. CASE op \in {"push_back", "push_front", "remove"} /\ arg \in Vals
    BY <1>1, <2>3, <1>10 DEF AbstractDeque!Next
  <2>4. CASE op = "assign" /\ arg \in AssignArgs
    BY <1>1, <2>4, <1>10, <1>11 DEF AbstractDeque!Next
  <2>5. CASE op = "copy" /\ arg \in (Lists \cap live) \ {l}
    BY <1>1, <2>5, <1>10 DEF AbstractDeque!Next
  <2> QED  BY <1>1, <2>1, <2>2, <2>3, <2>4, <2>5
<1> QED  BY <1>4, <1>7, <1>8, <1>9, <1>12 DEF DequeStep

-----------------------------------------------------------------------------
(* The theorems. *)

LEMMA InitCalls == Init => CallsInv /\ AbstractDeque!Init
<1> SUFFICES ASSUME Init PROVE CallsInv /\ AbstractDeque!Init
  OBVIOUS
<1>1. IInv  BY InitIInv
<1>2. live = {} /\ request = Null /\ loop.pc = "start"
  BY DEF Init, NotLooping
<1>3. OrderInv  BY <1>2 DEF OrderInv
<1>4. AskedInv /\ BeforeInv /\ StageInv
  BY <1>2 DEF AskedInv, BeforeInv, StageInv, ClearInv, AssignInv, CopyInv, RemoveInv,
     ReverseInv
<1>5. Items = [l \in Lists |-> <<>>]
  BY <1>2 DEF Items
<1>6. AbstractDeque!Init
  BY <1>2, <1>5 DEF Init, AbstractDeque!Init
<1> QED  BY <1>1, <1>3, <1>4, <1>6 DEF CallsInv, Inv

LEMMA NextCalls == CallsInv /\ [Next]_vars => CallsInv' /\ DequeStep
<1> SUFFICES ASSUME CallsInv, [Next]_vars PROVE CallsInv' /\ DequeStep
  OBVIOUS
<1>i. IInv'  BY NextIInv DEF CallsInv, Inv
<1> SUFFICES OrderInv' /\ AskedInv' /\ BeforeInv' /\ StageInv' /\ DequeStep
  BY <1>i DEF CallsInv, Inv
<1>1. CASE Caller
  BY <1>1, Asks
<1>2. CASE request # Null /\ (PushBack \/ PushFront)
  <2>1. Return  BY <1>2 DEF PushBack, PushFront
  <2> QED  BY <1>2, <2>1, Pushes, Calm
<1>3. CASE request # Null /\ (PopBack \/ PopFront)
  <2>1. Return  BY <1>3 DEF PopBack, PopFront
  <2> QED  BY <1>3, <2>1, Pops, Calm
<1>4. CASE request # Null /\ (Alloc \/ AllocFails)
  <2>1. Return  BY <1>4 DEF Alloc, AllocFails
  <2> QED  BY <1>4, <2>1, Allocates, Calm
<1>5. CASE request # Null /\ ReturnAtOnce
  <2>1. Return  BY <1>5 DEF ReturnAtOnce
  <2> QED  BY <1>5, <2>1, AtOnce, Calm
<1>6. CASE request # Null /\ (Remove \/ RemoveEnd)
  <2>1. Return  BY <1>6 DEF Remove, RemoveEnd
  <2> QED  BY <1>6, <2>1, Removes, RemoveEnds, Calm
<1>7. CASE request # Null /\ (AssignEnd \/ CopyEnd \/ ReverseEnd \/ FreeEnd)
  <2>1. Return  BY <1>7 DEF AssignEnd, CopyEnd, ReverseEnd, FreeEnd
  <2> QED  BY <1>7, <2>1, AssignEnds, CopyEnds, ReverseEnds, Frees, Calm
<1>8. CASE request # Null /\ (RemoveStart \/ ReverseStart \/ ClearStart)
  BY <1>8, Starts DEF DequeStep
<1>9. CASE request # Null /\ RemovePasses
  BY <1>9, Passes DEF DequeStep
<1>10. CASE request # Null /\ ClearNothing
  BY <1>10, Emptied DEF DequeStep
<1>11. CASE request # Null /\ ClearEnd
  <2>1. CASE request.op = "clear"
    <3>1. Return  BY <1>11, <2>1 DEF ClearEnd
    <3> QED  BY <1>11, <2>1, <3>1, ClearReturns, Calm
  <2>2. CASE request.op # "clear"
    BY <1>11, <2>2, Emptied DEF DequeStep
  <2> QED  BY <2>1, <2>2
<1>12. CASE request # Null /\ ClearStep
  BY <1>12, Clears DEF DequeStep
<1>13. CASE request # Null /\ AssignStep
  BY <1>13, Assigns DEF DequeStep
<1>14. CASE request # Null /\ CopyStep
  BY <1>14, Copies DEF DequeStep
<1>15. CASE request # Null /\ ReverseStep
  BY <1>15, Reverses DEF DequeStep
<1>16. CASE UNCHANGED vars
  <2>1. UNCHANGED <<live, links, data, count, typesize, request, loop, before>>
    BY <1>16 DEF vars
  <2>2. /\ OrderInv'
        /\ \A l \in Lists : Order(l)' = Order(l) /\ Values(l)' = Values(l)
        /\ Items' = Items
    BY <2>1, HeapSame DEF CallsInv
  <2>3. AskedInv'  BY <2>1 DEF CallsInv, AskedInv, AssignArgs
  <2>4. BeforeInv'  BY <2>1, <2>2 DEF CallsInv, BeforeInv, Changing, Target
  <2>5. StageInv'
    <3>1. StageInv  BY DEF CallsInv
    <3>2. ASSUME NEW l \in Lists, NEW t \in Lists
          PROVE  /\ ClearInv(l)' <=> ClearInv(l)
                 /\ AssignInv(l)' <=> AssignInv(l)
                 /\ RemoveInv(l)' <=> RemoveInv(l)
                 /\ CopyInv(l, t)' <=> CopyInv(l, t)
      BY <2>1, <2>2 DEF ClearInv, AssignInv, RemoveInv, CopyInv
    <3>3. \A l \in Lists : ReverseInv(l)' <=> ReverseInv(l)
      BY <2>1, <2>2 DEF ReverseInv
    <3> QED  BY <2>1, <3>1, <3>2, <3>3 DEF StageInv
  <2>6. UNCHANGED AbstractDeque!vars
    BY <2>1, <2>2 DEF AbstractDeque!vars
  <2> QED  BY <2>2, <2>3, <2>4, <2>5, <2>6 DEF DequeStep
<1> QED
  BY <1>1, <1>2, <1>3, <1>4, <1>5, <1>6, <1>7, <1>8, <1>9, <1>10, <1>11, <1>12, <1>13,
     <1>14, <1>15, <1>16
  DEF Next, Callee

LEMMA CallsInvariance == Spec => []CallsInv
<1> QED  BY InitCalls, NextCalls, PTL DEF Spec

(* clist.c does what clist.h offers: seen through the items each list had  *)
(* before the call in progress, every step of every function is either no  *)
(* step of Deque or the one step with which the call takes effect. Whatever*)
(* the pointers do half way, reverse turns the list round, copy and assign *)
(* replace all of its items, remove takes the first equal item and no other*)
(* one, and no call changes another list than its own.                     *)
THEOREM Implements == Spec => ImplementsDeque
<1>1. DequeStep => [AbstractDeque!Next]_(AbstractDeque!vars)
  BY DEF DequeStep
<1> QED  BY <1>1, InitCalls, NextCalls, CallsInvariance, PTL
         DEF Spec, ImplementsDeque, AbstractDeque!Spec

(* Following next from a spot one comes to the spots behind it. *)
LEMMA AheadSpots ==
  ASSUME Inv, NEW l \in Lists \cap live, NEW a \in Nat, NEW m \in Nat,
         m + a <= Len(Order(l)) + 1
  PROVE  Ahead(links.next, Spot(l, Order(l), a), m) =
            [j \in 0 .. m |-> Spot(l, Order(l), j + a)]
<1> DEFINE g == [j \in 0 .. m |-> Spot(l, Order(l), j + a)]
<1>1. Circle(links.next, l, Order(l)) /\ Len(Order(l)) \in Nat  BY OrderFacts
<1>2. ASSUME NEW j \in 0 .. m
      PROVE  g[j] = IF j = 0 THEN Spot(l, Order(l), a) ELSE links.next[g[j - 1]]
  <2>1. CASE j = 0
    <3>1. j + a = a  BY <2>1
    <3> QED  BY <2>1, <3>1
  <2>2. CASE j # 0
    <3>1. j - 1 \in 0 .. m /\ (j - 1) + a \in 0 .. Len(Order(l))
          /\ ((j - 1) + a) + 1 = j + a
      BY <2>2, <1>1
    <3>2. links.next[Spot(l, Order(l), (j - 1) + a)] = Spot(l, Order(l), ((j - 1) + a) + 1)
      BY <3>1, <1>1 DEF Circle
    <3> QED  BY <2>2, <3>1, <3>2
  <2> QED  BY <2>1, <2>2
<1>3. g = [j \in 0 .. m |-> IF j = 0 THEN Spot(l, Order(l), a) ELSE links.next[g[j - 1]]]
  <2>1. g = [j \in 0 .. m |-> g[j]]  OBVIOUS
  <2> HIDE DEF g
  <2> QED  BY <2>1, <1>2
<1> HIDE DEF g
<1>4. Ahead(links.next, Spot(l, Order(l), a), m) = g
  <2> DEFINE c == Spot(l, Order(l), a)
             next == links.next
  <2>1. g = [i \in 0 .. m |-> IF i = 0 THEN c ELSE next[g[i - 1]]]
    BY <1>3
  <2> HIDE DEF c, next
  <2>2. Ahead(next, c, m) = g
    BY <2>1, AheadIs
  <2> QED  BY <2>2 DEF c, next
<1> QED  BY <1>4 DEF g

(* What one list is, for all that follows. *)
Listed(l) == /\ Values(l) \in Seq(Vals \cup {Null})
             /\ Len(Values(l)) \in Nat
             /\ count[l] = Len(Values(l))
             /\ Len(Order(l)) = Len(Values(l))
             /\ DOMAIN Order(l) = 1 .. Len(Values(l))
             /\ \A i \in 1 .. Len(Values(l)) : /\ Order(l)[i] \in Nodes
                                               /\ Values(l)[i] = data[Order(l)[i]]
                                               /\ Spot(l, Order(l), i) = Order(l)[i]

LEMMA ListedIs ==
  ASSUME Inv, loop.pc = "start", NEW l \in Lists \cap live
  PROVE  Listed(l)
<1>1. /\ Order(l) \in Seq(Nodes) /\ Len(Order(l)) \in Nat
      /\ Values(l) \in Seq(Vals \cup {Null}) /\ Len(Values(l)) = Len(Order(l))
      /\ \A i \in 1 .. Len(Order(l)) : Order(l)[i] \in Nodes
      /\ \A i \in 1 .. Len(Order(l)) : Values(l)[i] = data[Order(l)[i]]
  BY OrderFacts
<1>2. count[l] = Len(Order(l))  BY CountIsLen
<1>3. DOMAIN Order(l) = 1 .. Len(Order(l))  BY <1>1, LenProperties
<1> QED  BY <1>1, <1>2, <1>3 DEF Listed, Spot

LEMMA EndsAgree ==
  ASSUME Inv, NEW l \in Lists \cap live, Listed(l)
  PROVE  /\ IsEmpty(l) <=> Values(l) = <<>>
         /\ Values(l) # <<>> => /\ First(l) = Values(l)[1]
                                /\ Back(l) = Values(l)[Len(Values(l))]
         /\ Values(l) = <<>> => First(l) = Null /\ Back(l) = Null
<1> DEFINE n == Len(Values(l))
<1>1. Values(l) = <<>> <=> n = 0
  BY EmptySeq DEF Listed
<1>2. /\ links.next[l] = Spot(l, Order(l), 1)
      /\ links.prev[l] = Spot(l, Order(l), n)
  BY Neighbours DEF Listed
<1>3. l \notin Nodes  BY CellsAssumption
<1>4. CASE n = 0
  <2>1. Spot(l, Order(l), 1) = l /\ Spot(l, Order(l), n) = l
    BY <1>4 DEF Listed, Spot
  <2> QED  BY <2>1, <1>1, <1>2, <1>4 DEF Listed, IsEmpty, First, Back
<1>5. CASE n # 0
  <2>1. 1 \in 1 .. n /\ n \in 1 .. n  BY <1>5 DEF Listed
  <2>2. /\ links.next[l] # l /\ data[links.next[l]] = Values(l)[1]
        /\ links.prev[l] # l /\ data[links.prev[l]] = Values(l)[n]
    BY <2>1, <1>2, <1>3 DEF Listed
  <2> QED  BY <2>2, <1>1, <1>5 DEF Listed, IsEmpty, First, Back
<1> QED  BY <1>4, <1>5

LEMMA AtAgrees ==
  ASSUME Inv, NEW l \in Lists \cap live, Listed(l)
  PROVE  /\ \A i \in 0 .. Len(Values(l)) - 1 : data[At(l, i)] = Values(l)[i + 1]
         /\ At(l, Len(Values(l))) = Null
<1>1. At(l, Len(Values(l))) = Null
  BY DEF At, Listed
<1>2. ASSUME NEW i \in 0 .. Len(Values(l)) - 1
      PROVE  data[At(l, i)] = Values(l)[i + 1]
  <2>1. i \in Nat /\ 1 \in Nat /\ i + 1 \in 1 .. Len(Values(l)) /\ ~ (i >= count[l])
        /\ i + 1 <= Len(Order(l)) + 1 /\ i \in 0 .. i
    BY DEF Listed
  <2>2. Ahead(links.next, Spot(l, Order(l), 1), i)
            = [j \in 0 .. i |-> Spot(l, Order(l), j + 1)]
    BY <2>1, AheadSpots
  <2>3. links.next[l] = Spot(l, Order(l), 1)  BY Neighbours
  <2>4. At(l, i) = Spot(l, Order(l), i + 1)
    BY <2>1, <2>2, <2>3 DEF At
  <2> QED  BY <2>1, <2>4 DEF Listed
<1> QED  BY <1>1, <1>2

LEMMA FindAgrees ==
  ASSUME Inv, NEW l \in Lists \cap live, Listed(l), NEW v
  PROVE  Find(l, v) # Null <=> \E i \in DOMAIN Values(l) : Values(l)[i] = v
<1> DEFINE hits == {i \in DOMAIN Order(l) : data[Order(l)[i]] = v}
           low == CHOOSE i \in hits : \A j \in hits : i <= j
<1>1. Find(l, v) = IF hits = {} THEN Null ELSE Order(l)[low]
  BY DEF Find, Order
<1>2. DOMAIN Values(l) = 1 .. Len(Values(l))
  BY LenProperties DEF Listed
<1>3. \A i : i \in hits <=> i \in DOMAIN Values(l) /\ Values(l)[i] = v
  BY <1>2 DEF Listed
<1>4. ASSUME hits # {} PROVE Order(l)[low] # Null
  <2>1. hits \subseteq Nat /\ hits \subseteq 1 .. Len(Values(l))  BY <1>2, <1>3
  <2>2. \E i \in hits : \A j \in hits : i <= j
    <3> HIDE DEF hits
    <3> QED  BY <1>4, <2>1, LeastNat
  <2>3. low \in hits
    <3> HIDE DEF hits
    <3> QED  BY <2>2
  <2> HIDE DEF low, hits
  <2>4. Order(l)[low] \in Nodes  BY <2>1, <2>3 DEF Listed
  <2> QED  BY <2>4, CellsAssumption DEF Cells
<1> HIDE DEF low, hits
<1> QED  BY <1>1, <1>3, <1>4

LEMMA EqualAgrees ==
  ASSUME Inv, NEW l \in Lists \cap live, Listed(l), NEW t \in Lists \cap live, Listed(t)
  PROVE  Equal(l, t) <=> typesize[l] = typesize[t] /\ Values(l) = Values(t)
<1> DEFINE n == Len(Values(l))
           beside == Ahead(links.next, t, Len(Order(l)))
<1>1. Equal(l, t) <=> /\ typesize[l] = typesize[t] /\ count[l] = count[t]
                      /\ \A i \in DOMAIN Order(l) : data[Order(l)[i]] = data[beside[i]]
  BY DEF Equal, Order
<1>2. CASE Len(Values(t)) # n
  <2>1. count[l] # count[t]  BY <1>2 DEF Listed
  <2>2. Values(l) # Values(t)  BY <1>2
  <2> QED  BY <1>1, <2>1, <2>2
<1>3. CASE Len(Values(t)) = n
  <2>1. count[l] = count[t]  BY <1>3 DEF Listed
  <2>2. beside = [j \in 0 .. n |-> Spot(t, Order(t), j + 0)]
    <3>1. 0 \in Nat /\ n \in Nat /\ n + 0 <= Len(Order(t)) + 1  BY <1>3 DEF Listed
    <3>2. Spot(t, Order(t), 0) = t  BY DEF Spot
    <3>3. Ahead(links.next, Spot(t, Order(t), 0), n)
             = [j \in 0 .. n |-> Spot(t, Order(t), j + 0)]
      <4> HIDE DEF n
      <4> QED  BY <3>1, AheadSpots
    <3> QED  BY <3>2, <3>3 DEF Listed
  <2> HIDE DEF beside
  <2>3. ASSUME NEW i \in 1 .. n PROVE data[beside[i]] = Values(t)[i]
    <3>1. i \in 0 .. n /\ i + 0 = i  BY DEF Listed
    <3>2. beside[i] = Spot(t, Order(t), i)  BY <3>1, <2>2
    <3> QED  BY <3>2, <1>3 DEF Listed
  <2>4. (\A i \in DOMAIN Order(l) : data[Order(l)[i]] = data[beside[i]])
           <=> \A i \in 1 .. n : Values(l)[i] = Values(t)[i]
    BY <2>3 DEF Listed
  <2>5. Values(l) = Values(t) <=> \A i \in 1 .. n : Values(l)[i] = Values(t)[i]
    BY <1>3, SeqEqual DEF Listed
  <2> QED  BY <1>1, <2>1, <2>4, <2>5
<1> QED  BY <1>2, <1>3

(* Between calls empty, front, back, at, find and equal tell the same of a *)
(* list, though each reads other fields: count, next or prev.              *)
THEOREM ReadsRight == Spec => []ReadsAgree
<1>1. CallsInv => ReadsAgree
  <2> SUFFICES ASSUME Inv, loop.pc = "start" PROVE ReadsAgree
    BY DEF CallsInv, ReadsAgree
  <2>1. \A l \in Lists \cap live : Listed(l)  BY ListedIs
  <2> QED  BY <2>1, EndsAgree, AtAgrees, FindAgrees, EqualAgrees DEF ReadsAgree
<1> QED  BY <1>1, CallsInvariance, PTL

-----------------------------------------------------------------------------
(* Every step of a call brings it nearer to its return.                    *)

(* The places from the one of c on. *)
Rest(s, c) == {i \in DOMAIN s : \E j \in 1 .. i : s[j] = c}

LEMMA BehindSpot ==
  ASSUME NEW next, NEW l \in Lists, NEW s, Circle(next, l, s), NEW k \in 1 .. Len(s) + 1
  PROVE  Cardinality(Rest(s, Spot(l, s, k))) = Len(s) + 1 - k
<1>1. Len(s) \in Nat /\ DOMAIN s = 1 .. Len(s)  BY LenProperties DEF Circle
<1>2. /\ \A i \in 1 .. Len(s) : s[i] # l
      /\ \A i, j \in 1 .. Len(s) : s[i] = s[j] => i = j
  BY SpotsDiffer DEF Circle
<1>3. ASSUME NEW j \in 1 .. Len(s) PROVE s[j] = Spot(l, s, k) <=> j = k
  BY <1>1, <1>2 DEF Spot
<1>4. Rest(s, Spot(l, s, k)) = k .. Len(s)
  <2>1. ASSUME NEW i \in 1 .. Len(s)
        PROVE  (\E j \in 1 .. i : s[j] = Spot(l, s, k)) <=> k <= i
    <3>1. \A j \in 1 .. i : j \in 1 .. Len(s)  BY <1>1
    <3>2. (\E j \in 1 .. i : s[j] = Spot(l, s, k)) <=> \E j \in 1 .. i : j = k
      BY <3>1, <1>3
    <3> QED  BY <3>2, <1>1
  <2> QED  BY <2>1, <1>1 DEF Rest
<1>5. Cardinality(k .. Len(s)) = Len(s) + 1 - k
  <2>1. k \in Int /\ Len(s) \in Int  BY <1>1
  <2>2. Cardinality(k .. Len(s)) = IF k > Len(s) THEN 0 ELSE Len(s) - k + 1
    BY <2>1, FS_Interval
  <2> QED  BY <2>2, <1>1
<1> QED  BY <1>4, <1>5

LEMMA BehindIs ==
  ASSUME Inv, NEW l \in Lists \cap live, NEW k \in 1 .. Len(Order(l)) + 1
  PROVE  Behind(l, Spot(l, Order(l), k)) = Len(Order(l)) + 1 - k
<1>1. Circle(links.next, l, Order(l))  BY OrderFacts
<1>2. \A c : Behind(l, c) = Cardinality(Rest(Order(l), c))
  BY DEF Behind, Order, Rest
<1> QED  BY <1>1, <1>2, BehindSpot

(* What is left is a number. While copy walks along its list, it is what   *)
(* the two counts differ by.                                               *)
LeftInv == /\ Left \in Nat
           /\ loop.pc = "cleared" /\ request.op = "copy" =>
                 /\ Left = count[request.on] - count[request.arg]
                 /\ count[request.on] \in Nat /\ count[request.arg] \in Nat

LEMMA LeftIs == CallsInv => LeftInv
<1> SUFFICES ASSUME CallsInv PROVE LeftInv
  OBVIOUS
<1>1. /\ Inv /\ loop.pc \in {"start", "clear", "cleared", "remove", "reverse"}
      /\ loop.pc # "start" => request # Null
      /\ loop.pos \in Nat
  BY DEF CallsInv, Inv, IInv, TypeOK, CallInv
<1>2. CASE loop.pc = "start"
  BY <1>2 DEF LeftInv, Left
<1>3. CASE loop.pc = "clear"
  <2>1. PICK t \in Lists \cap live : t = Target  BY <1>1, <1>3, Targets
  <2>2. Left = Len(Order(t))  BY <2>1, <1>3 DEF Left, Order
  <2> QED  BY <2>2, <1>1, <1>3, OrderFacts DEF LeftInv
<1>4. CASE loop.pc = "cleared" /\ request.op # "copy"
  <2>1. request.op \in {"free", "assign"}
    BY <1>4 DEF CallsInv, Inv, IInv, CallInv
  <2>2. CASE request.op = "free"
    BY <2>2, <1>4 DEF LeftInv, Left
  <2>3. CASE request.op = "assign"
    <3>1. /\ request.arg.array \in Seq(Vals)
          /\ request.arg.last \in 1 .. Len(request.arg.array) + 1
          /\ loop.pos <= request.arg.last
      BY <1>1, <1>4, <2>3 DEF CallsInv, Inv, IInv, CallInv
    <3>2. request.arg.last \in Nat  BY <3>1, LenProperties
    <3>3. Left = request.arg.last - loop.pos  BY <1>4, <2>3 DEF Left
    <3> QED  BY <1>1, <1>4, <3>1, <3>2, <3>3 DEF LeftInv
  <2> QED  BY <2>1, <2>2, <2>3
<1>5. CASE loop.pc = "cleared" /\ request.op = "copy"
  <2>1. PICK l, t \in Lists \cap live :
           l = request.on /\ t = Target /\ t = request.arg /\ t # l
    BY <1>1, <1>5, Targets
  <2>2. /\ count[l] = Len(Order(l)) /\ count[t] = Len(Order(t))
        /\ Len(Order(l)) \in Nat /\ Len(Order(t)) \in Nat
    BY <1>1, <1>5, CountIsLen, OrderFacts
  <2>3. /\ Len(Order(t)) <= Len(Order(l))
        /\ loop.node = Spot(l, Order(l), Len(Order(t)) + 1)
    BY <1>5, <2>1 DEF CallsInv, StageInv, CopyInv
  <2>4. Left = Behind(l, loop.node)  BY <1>5, <2>1 DEF Left
  <2>5. Len(Order(t)) + 1 \in 1 .. Len(Order(l)) + 1  BY <2>2, <2>3
  <2>6. Left = Len(Order(l)) + 1 - (Len(Order(t)) + 1)
    BY <1>1, <2>3, <2>4, <2>5, BehindIs
  <2> QED  BY <1>5, <2>1, <2>2, <2>3, <2>6 DEF LeftInv
<1>6. CASE loop.pc \in {"remove", "reverse"}
  <2>1. request.op \in {"remove", "reverse"}  BY <1>6 DEF CallsInv, Inv, IInv, CallInv
  <2>2. PICK l \in Lists \cap live : l = request.on  BY <1>1, <1>6, <2>1, Callers
  <2>3. Len(Order(l)) \in Nat  BY <1>1, OrderFacts
  <2>4. \E k \in 1 .. Len(Order(l)) + 1 : loop.node = Spot(l, Order(l), k)
    <3>1. CASE loop.pc = "remove"
      BY <2>2, <3>1 DEF CallsInv, StageInv, RemoveInv
    <3>2. CASE loop.pc = "reverse"
      <4>1. PICK k \in 0 .. Len(Order(l)) : loop.node = Spot(l, Order(l), k + 1)
        BY <2>2, <3>2 DEF CallsInv, StageInv, ReverseInv
      <4> QED  BY <4>1, <2>3
    <3> QED  BY <1>6, <3>1, <3>2
  <2>5. PICK k \in 1 .. Len(Order(l)) + 1 : loop.node = Spot(l, Order(l), k)
    BY <2>4
  <2>6. Left = Behind(l, loop.node)  BY <1>6, <2>2 DEF Left
  <2>7. Left = Len(Order(l)) + 1 - k  BY <1>1, <2>5, <2>6, BehindIs
  <2> QED  BY <1>6, <2>3, <2>7 DEF LeftInv
<1> QED  BY <1>1, <1>2, <1>3, <1>4, <1>5, <1>6

(* The steps of a call that stay in one part of it: one round of a loop.   *)
LEMMA Rounds ==
  ASSUME CallsInv, CallsInv', LeftInv, LeftInv', request # Null,
         RemovePasses \/ ClearStep \/ AssignStep \/ CopyStep \/ ReverseStep
  PROVE  Phase' = Phase /\ Left' < Left
<1>1. Phase' = Phase
  <2>1. request' = request
    BY DEF RemovePasses, ClearStep, AssignStep, CopyStep, ReverseStep
  <2>2. loop'.pc = loop.pc
    <3>1. CASE RemovePasses  BY <3>1 DEF RemovePasses
    <3>2. CASE ClearStep  BY <3>2 DEF ClearStep
    <3>3. CASE AssignStep
      <4>1. loop' = [loop EXCEPT !.pos = loop.pos + 1]  BY <3>3 DEF AssignStep
      <4> QED  BY <4>1
    <3>4. CASE CopyStep  BY <3>4 DEF CopyStep
    <3>5. CASE ReverseStep  BY <3>5 DEF ReverseStep
    <3> QED  BY <3>1, <3>2, <3>3, <3>4, <3>5
  <2> QED  BY <2>1, <2>2 DEF Phase
<1>2. Inv /\ Inv' /\ Left \in Nat /\ Left' \in Nat  BY DEF CallsInv, LeftInv
<1>3. CASE RemovePasses
  <2>1. /\ loop.pc = "remove" /\ loop.node # request.on
        /\ loop'.pc = "remove" /\ loop'.node = links.next[loop.node]
        /\ UNCHANGED <<live, links, data, request>>
    BY <1>3 DEF RemovePasses, heap
  <2>2. PICK l \in Lists \cap live : l = request.on
    BY <2>1, Callers DEF CallsInv, Inv, IInv, CallInv
  <2>3. PICK k \in 1 .. Len(Order(l)) + 1 : loop.node = Spot(l, Order(l), k)
    BY <2>1, <2>2 DEF CallsInv, StageInv, RemoveInv
  <2>4. Len(Order(l)) \in Nat  BY <1>2, OrderFacts
  <2>5. k <= Len(Order(l))
    <3>1. k # Len(Order(l)) + 1  BY <1>2, <2>1, <2>2, <2>3, LastSpot
    <3> QED  BY <3>1, <2>4
  <2>6. loop'.node = Spot(l, Order(l), k + 1)
    <3>1. k \in 1 .. Len(Order(l))  BY <2>4, <2>5
    <3> QED  BY <3>1, <1>2, <2>1, <2>3, Neighbours
  <2>7. Left = Behind(l, loop.node) /\ Left' = Behind(l, loop'.node)
    BY <2>1, <2>2 DEF Left, Behind
  <2>8. Left = Len(Order(l)) + 1 - k  BY <1>2, <2>3, <2>7, BehindIs
  <2>9. Left' = Len(Order(l)) + 1 - (k + 1)
    <3>1. k + 1 \in 1 .. Len(Order(l)) + 1  BY <2>4, <2>5
    <3> QED  BY <3>1, <1>2, <2>6, <2>7, BehindIs
  <2> QED  BY <1>1, <2>4, <2>8, <2>9
<1>4. CASE ClearStep
  <2>1. /\ loop.pc = "clear" /\ loop.scan # Target /\ NodeFree(loop.scan)
        /\ loop'.pc = "clear" /\ request' = request
    BY <1>4 DEF ClearStep
  <2>2. PICK t \in Lists \cap live : t = Target  BY <2>1, Targets
  <2>3. loop.scan = Spot(t, Order(t), 1) /\ Len(Order(t)) \in Nat
    <3>1. loop.scan = links.next[t]
      BY <2>1, <2>2 DEF CallsInv, Inv, IInv, Shape, LoopInv
    <3> QED  BY <3>1, <1>2, Neighbours, OrderFacts
  <2>4. 1 \in 1 .. Len(Order(t)) /\ loop.scan = Order(t)[1]
    <3>1. 1 \in 1 .. Len(Order(t)) + 1  BY <2>3
    <3>2. 1 # Len(Order(t)) + 1  BY <3>1, <1>2, <2>1, <2>2, <2>3, LastSpot
    <3>3. 1 <= Len(Order(t))  BY <3>2, <2>3
    <3> QED  BY <3>1, <3>3, <1>2, <2>3, LastSpot
  <2>5. Order(t)' = Shrunk(Order(t), 1)  BY <1>2, <2>1, <2>4, NodeFreed
  <2>6. Len(Order(t)') = Len(Order(t)) - 1
    <3>1. Order(t) \in Seq(Nodes)  BY <1>2, OrderFacts
    <3> QED  BY <3>1, <2>4, <2>5, SeqFacts
  <2>7. Left = Len(Order(t)) /\ Left' = Len(Order(t)')
    BY <2>1, <2>2 DEF Left, Order, Target
  <2> QED  BY <1>1, <2>3, <2>6, <2>7
<1>5. CASE AssignStep
  <2>1. /\ loop.pc = "cleared" /\ request.op = "assign"
        /\ loop' = [loop EXCEPT !.pos = loop.pos + 1] /\ request' = request
    BY <1>5 DEF AssignStep
  <2>2. /\ loop.pos \in Nat
        /\ loop'.pc = "cleared" /\ loop'.pos = loop.pos + 1
    BY <2>1 DEF CallsInv, Inv, IInv, TypeOK
  <2>3. request.arg.last \in Nat
    BY <2>1, LenProperties DEF CallsInv, Inv, IInv, CallInv
  <2>4. Left = request.arg.last - loop.pos /\ Left' = request.arg.last - (loop.pos + 1)
    BY <2>1, <2>2 DEF Left
  <2> QED  BY <1>1, <2>2, <2>3, <2>4
<1>6. CASE CopyStep
  <2>1. /\ loop.pc = "cleared" /\ request.op = "copy"
        /\ loop'.pc = "cleared" /\ request' = request
        /\ count' = [count EXCEPT ![Target] = count[Target] + 1]
    BY <1>6 DEF CopyStep, Counted
  <2>2. PICK l, t \in Lists \cap live :
           l = request.on /\ t = Target /\ t = request.arg /\ t # l
    BY <2>1, Targets
  <2>3. count'[l] = count[l] /\ count'[t] = count[t] + 1
    <3>1. count \in [Lists -> Nat]  BY DEF CallsInv, Inv, IInv, TypeOK
    <3> QED  BY <3>1, <2>1, <2>2
  <2>4. Left = count[l] - count[t] /\ count[l] \in Nat /\ count[t] \in Nat
    BY <2>1, <2>2 DEF LeftInv
  <2>5. Left' = count'[l] - count'[t]
    BY <2>1, <2>2 DEF LeftInv
  <2> QED  BY <1>1, <2>3, <2>4, <2>5
<1>7. CASE ReverseStep
  <2>1. /\ loop.pc = "reverse" /\ loop.node # request.on
        /\ links' = Inserted(Erased(links, loop.node), request.on, loop.node)
        /\ loop'.pc = "reverse" /\ loop'.node = links.next[loop.node]
        /\ UNCHANGED <<live, data, request>>
    BY <1>7 DEF ReverseStep
  <2>2. PICK t \in Lists \cap live : t = request.on
    BY <2>1, Callers DEF CallsInv, Inv, IInv, CallInv
  <2>3. Len(Order(t)) \in Nat /\ Order(t) \in Seq(Nodes)  BY <1>2, OrderFacts
  <2>4. PICK k \in 0 .. Len(Order(t)) : loop.node = Spot(t, Order(t), k + 1)
    BY <2>1, <2>2 DEF CallsInv, StageInv, ReverseInv
  <2>5. /\ k + 1 \in 1 .. Len(Order(t)) /\ k < Len(Order(t)) /\ k \in Nat
        /\ loop.node = Order(t)[k + 1]
    <3>1. k + 1 \in 1 .. Len(Order(t)) + 1  BY <2>3
    <3>2. k + 1 # Len(Order(t)) + 1  BY <3>1, <1>2, <2>1, <2>2, <2>4, LastSpot
    <3>3. k + 1 <= Len(Order(t)) /\ k < Len(Order(t)) /\ k \in Nat  BY <3>2, <2>3
    <3> QED  BY <3>1, <3>3, <1>2, <2>4, LastSpot
  <2>6. Order(t)' = Grown(Shrunk(Order(t), k + 1), 0, Order(t)[k + 1])
    BY <1>2, <2>1, <2>2, <2>5, NodeMoved
  <2>7. /\ Len(Order(t)') = Len(Order(t))
        /\ Spot(t, Order(t)', (k + 1) + 1) = Spot(t, Order(t), (k + 1) + 1)
    BY <2>3, <2>5, <2>6, MovedSpot
  <2>8. loop'.node = Spot(t, Order(t)', (k + 1) + 1)
    BY <1>2, <2>1, <2>4, <2>5, <2>7, Neighbours
  <2>9. Left = Len(Order(t)) + 1 - (k + 1)
    <3>1. Left = Behind(t, loop.node)  BY <2>1, <2>2 DEF Left
    <3>2. k + 1 \in 1 .. Len(Order(t)) + 1  BY <2>3
    <3> QED  BY <3>1, <3>2, <1>2, <2>4, BehindIs
  <2>10. Left' = Len(Order(t)) + 1 - ((k + 1) + 1)
    <3>1. Left' = Cardinality(Rest(Order(t)', loop'.node))
      BY <2>1, <2>2 DEF Left, Behind, Order, Rest
    <3>2. Circle(links'.next, t, Order(t)')
      BY <1>2, <2>1 DEF Inv, OrderInv
    <3>3. (k + 1) + 1 \in 1 .. Len(Order(t)') + 1  BY <2>3, <2>5, <2>7
    <3>4. Cardinality(Rest(Order(t)', Spot(t, Order(t)', (k + 1) + 1)))
             = Len(Order(t)') + 1 - ((k + 1) + 1)
      BY <3>2, <3>3, BehindSpot
    <3> QED  BY <3>1, <3>4, <2>7, <2>8
  <2> QED  BY <1>1, <2>3, <2>5, <2>9, <2>10
<1> QED  BY <1>3, <1>4, <1>5, <1>6, <1>7

(* Every call comes to its return: whatever is asked for and however long  *)
(* the lists are, each step of a call goes on to a later part of it, or    *)
(* leaves fewer nodes or items before its loop. This is CallsReturn but    *)
(* for fairness.                                                           *)
THEOREM ComesToEnd == Spec => NearsEnd
<1> DEFINE Nearer == request # Null =>
                        /\ Left \in Nat /\ Left' \in Nat
                        /\ Phase' < Phase \/ (Phase' = Phase /\ Left' < Left)
<1>1. CallsInv /\ LeftInv /\ CallsInv' /\ LeftInv' /\ [Next]_vars => [Nearer]_vars
  <2> SUFFICES ASSUME CallsInv, LeftInv, CallsInv', LeftInv', Next, request # Null
               PROVE  Phase' < Phase \/ (Phase' = Phase /\ Left' < Left)
    BY DEF LeftInv
  <2>1. CASE RemovePasses \/ ClearStep \/ AssignStep \/ CopyStep \/ ReverseStep
    BY <2>1, Rounds
  <2>2. CASE Return
    <3>1. Phase' = 0  BY <2>2 DEF Return, Phase
    <3> QED  BY <3>1 DEF Phase
  <2>3. CASE RemoveStart \/ ReverseStart \/ ClearStart \/ ClearNothing
    <3>1. loop.pc = "start" /\ loop'.pc # "start" /\ request' = request
      <4>1. CASE RemoveStart  BY <4>1 DEF RemoveStart, Busy
      <4>2. CASE ReverseStart  BY <4>2 DEF ReverseStart, Busy
      <4>3. CASE ClearStart  BY <4>3 DEF ClearStart, Busy
      <4>4. CASE ClearNothing  BY <4>4 DEF ClearNothing, Busy
      <4> QED  BY <2>3, <4>1, <4>2, <4>3, <4>4
    <3>2. Phase = 3 /\ Phase' \in {1, 2}  BY <3>1 DEF Phase
    <3> QED  BY <3>2
  <2>4. CASE ClearEnd /\ ~ Return
    <3>1. loop.pc = "clear" /\ loop'.pc = "cleared" /\ request' = request
      <4>1. /\ loop.pc = "clear" /\ request' = request
            /\ loop' = [loop EXCEPT !.pc = "cleared", !.scan = Null]
        BY <2>4 DEF ClearEnd
      <4> QED  BY <4>1
    <3>2. Phase = 2 /\ Phase' = 1  BY <3>1 DEF Phase
    <3> QED  BY <3>2
  <2>5. Callee
    BY DEF Next, Caller, Invoke
  <2> QED
    BY <2>1, <2>2, <2>3, <2>4, <2>5
    DEF Callee, Alloc, AllocFails, PushBack, PushFront, PopBack, PopFront, ReturnAtOnce,
        Remove, RemoveEnd, FreeEnd, AssignEnd, CopyEnd, ReverseEnd
<1>2. CallsInv => LeftInv  BY LeftIs
<1> QED  BY <1>1, <1>2, CallsInvariance, PTL DEF Spec, NearsEnd

=============================================================================
