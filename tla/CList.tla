-------------------------------- MODULE CList --------------------------------
(***************************************************************************)
(* clist.c: circular doubly linked lists of heap nodes, each with a        *)
(* sentinel inside the list's own structure. A sentinel is written as the  *)
(* list it belongs to. Calls are made one at a time (demo_process_picture  *)
(* makes them under a mutex); a call with a loop takes one step per        *)
(* iteration, so that the pointers are visible half way. A freed cell      *)
(* keeps Null in its fields: whoever reads it uses memory after free.      *)
(* A push of a NULL pointer leaves the new item uninitialised: it is the   *)
(* push of some value.                                                     *)
(***************************************************************************)
EXTENDS Naturals, Sequences, FiniteSets

CONSTANTS Lists,      (* addresses clist_alloc may return                  *)
          Nodes,      (* bound: addresses of nodes                         *)
          Vals,       (* item values, told apart by memcmp                 *)
          Sizes,      (* item sizes                                        *)
          Arrays,     (* bound: contents of the arrays given to assign     *)
          Null        (* no cell, no value, no size, no request            *)

VARIABLES live,       (* allocated cells: lists and nodes                  *)
          links,      (* the fields next and prev of every cell            *)
          data,       (* the item of every node                            *)
          count,      (* thiz->count of every list                         *)
          typesize,   (* thiz->typesize of every list                      *)
          request,    (* the call in progress, or Null                     *)
          loop,       (* where its loop is, with its local pointers        *)
          before      (* history: items and typesize before the call       *)

vars == <<live, links, data, count, typesize, request, loop, before>>
heap == <<live, links, data, count>>

Cells == Lists \cup Nodes

ASSUME CellsAssumption == /\ Lists \cap Nodes = {}
                          /\ Null \notin Cells \cup Vals \cup Sizes
                          /\ \A a \in Arrays : a \in Seq(Vals)

(* Addresses are finitely many. *)
ASSUME NodesAssumption == IsFiniteSet(Nodes)

NotLooping == [pc |-> "start", node |-> Null, scan |-> Null, pos |-> 1]

Init == /\ live = {}
        /\ links = [next |-> [c \in Cells |-> Null],
                    prev |-> [c \in Cells |-> Null]]
        /\ data = [n \in Nodes |-> Null]
        /\ count = [l \in Lists |-> 0]
        /\ typesize = [l \in Lists |-> Null]
        /\ request = Null
        /\ loop = NotLooping
        /\ before = Null

-----------------------------------------------------------------------------
(* The node operations. k is a pair of functions next and prev. *)

(* Mutant: the old neighbour keeps its pointer back to the head. *)
InsertedHalf(k, head, node) ==
    [next |-> [k.next EXCEPT ![head] = node, ![node] = k.next[head]],
     prev |-> [k.prev EXCEPT ![node] = head]]

(* clist_node_insert: node comes behind head. *)
Inserted(k, head, node) ==
    [next |-> [k.next EXCEPT ![head] = node, ![node] = k.next[head]],
     prev |-> [k.prev EXCEPT ![k.next[head]] = node, ![node] = head]]

(* clist_node_erase: the node keeps its own pointers. *)
Erased(k, node) ==
    [next |-> [k.next EXCEPT ![k.prev[node]] = k.next[node]],
     prev |-> [k.prev EXCEPT ![k.next[node]] = k.prev[node]]]

Forgotten(k, c) == [next |-> [k.next EXCEPT ![c] = Null],
                    prev |-> [k.prev EXCEPT ![c] = Null]]

(* clist_node_free, applied to the first or last node of a list. *)
NodeFree(node) == /\ links' = Forgotten(Erased(links, node), node)
                  /\ data' = [data EXCEPT ![node] = Null]
                  /\ live' = live \ {node}

(* clist_node_alloc, then clist_node_insert behind head. *)
NodeAdd(head, v) == \E node \in Nodes \ live :
                      /\ links' = Inserted(links, head, node)
                      /\ data' = [data EXCEPT ![node] = v]
                      /\ live' = live \cup {node}

-----------------------------------------------------------------------------
(* Reading a list. *)

(* The cells one comes to from c, in 0 .. n steps by next.                 *)
Ahead(next, c, n) ==
    LET at[i \in 0 .. n] == IF i = 0 THEN c ELSE next[at[i - 1]]
    IN  at

(* As far as any walk from list l goes: up to its sentinel.                *)
Walk(next, l) ==
    LET at[i \in 1 .. Cardinality(Nodes)] ==
            IF i = 1 THEN next[l]
            ELSE IF at[i - 1] \in {l, Null} THEN l ELSE next[at[i - 1]]
    IN  at

(* The nodes of list l, first to last.                                     *)
Chain(next, l) ==
    LET at == Walk(next, l)
    IN  [i \in 1 .. Cardinality({j \in DOMAIN at : at[j] \notin {l, Null}})
            |-> at[i]]

Values(l) == LET chain == Chain(links.next, l)
             IN  [i \in DOMAIN chain |-> data[chain[i]]]

Items == [l \in Lists |-> IF l \in live THEN Values(l) ELSE <<>>]

(* empty, back and front. *)
IsEmpty(l) == count[l] = 0
Back(l)    == IF links.prev[l] = l THEN Null ELSE data[links.prev[l]]
First(l)   == IF links.next[l] = l THEN Null ELSE data[links.next[l]]

(* Mutant: the loop increments before it compares. *)
AtShort(l, index) ==
    LET steps == IF index = 0 THEN 0 ELSE index - 1
    IN  IF index >= count[l] THEN Null
        ELSE Ahead(links.next, links.next[l], steps)[steps]

(* at: index counts from 0. *)
At(l, index) ==
    IF index >= count[l] THEN Null
    ELSE Ahead(links.next, links.next[l], index)[index]

(* find: the first node whose item equals v. *)
Find(l, v) ==
    LET chain == Chain(links.next, l)
        hits == {i \in DOMAIN chain : data[chain[i]] = v}
    IN  IF hits = {} THEN Null
        ELSE chain[CHOOSE i \in hits : \A j \in hits : i <= j]

(* equal: walks l to its sentinel and t beside it. *)
Equal(l, t) ==
    LET chain == Chain(links.next, l)
        beside == Ahead(links.next, t, Len(chain))
    IN  /\ typesize[l] = typesize[t] /\ count[l] = count[t]
        /\ \A i \in DOMAIN chain : data[chain[i]] = data[beside[i]]

-----------------------------------------------------------------------------
(* Calls. *)

Busy(op) == request # Null /\ request.op = op /\ loop.pc = "start"

Return == /\ request' = Null
          /\ loop' = NotLooping
          /\ before' = Null

(* What the bounded heap can hold. *)
Room(op, l, arg) ==
    LET free == Cardinality(Nodes \ live)
    IN  /\ op \in {"push_back", "push_front"} => free > 0
        /\ op = "assign" => arg.last - 1 <= free + count[l]
        /\ op = "copy" => count[l] <= free + count[arg]

Invoke(op, l, arg) == /\ request = Null
                      /\ op = "alloc" <=> l \notin live
                      /\ Room(op, l, arg)
                      /\ request' = [op |-> op, on |-> l, arg |-> arg]
                      /\ before' = [items |-> Items, typesize |-> typesize]
                      /\ UNCHANGED <<heap, typesize, loop>>

(* clist_alloc, and its early return when malloc fails. *)
Alloc == /\ Busy("alloc")
         /\ LET l == request.on
            IN  /\ live' = live \cup {l}
                /\ links' = [next |-> [links.next EXCEPT ![l] = l],
                             prev |-> [links.prev EXCEPT ![l] = l]]
                /\ count' = [count EXCEPT ![l] = 0]
                /\ typesize' = [typesize EXCEPT ![l] = request.arg]
         /\ Return
         /\ UNCHANGED data

AllocFails == Busy("alloc") /\ Return /\ UNCHANGED <<heap, typesize>>

Counted(l, n) == count' = [count EXCEPT ![l] = n]

PushBack == /\ Busy("push_back")
            /\ NodeAdd(links.prev[request.on], request.arg)
            /\ Counted(request.on, count[request.on] + 1)
            /\ Return
            /\ UNCHANGED typesize

PushFront == /\ Busy("push_front")
             /\ NodeAdd(request.on, request.arg)
             /\ Counted(request.on, count[request.on] + 1)
             /\ Return
             /\ UNCHANGED typesize

(* Mutant: pop_back frees the first node. *)
PopWrongEnd == /\ Busy("pop_back")
               /\ count[request.on] > 0
               /\ NodeFree(links.next[request.on])
               /\ Counted(request.on, count[request.on] - 1)
               /\ Return
               /\ UNCHANGED typesize

PopBack == /\ Busy("pop_back")
           /\ count[request.on] > 0
           /\ NodeFree(links.prev[request.on])
           /\ Counted(request.on, count[request.on] - 1)
           /\ Return
           /\ UNCHANGED typesize

(* Mutant: the item stays counted. *)
PopUncounted == /\ Busy("pop_front")
                /\ count[request.on] > 0
                /\ NodeFree(links.next[request.on])
                /\ Return
                /\ UNCHANGED <<count, typesize>>

PopFront == /\ Busy("pop_front")
            /\ count[request.on] > 0
            /\ NodeFree(links.next[request.on])
            /\ Counted(request.on, count[request.on] - 1)
            /\ Return
            /\ UNCHANGED typesize

(* pop, reverse and clear of an empty list. *)
ReturnAtOnce == /\ \/ Busy("pop_back") \/ Busy("pop_front") \/ Busy("reverse")
                   \/ Busy("clear")
                /\ count[request.on] = 0
                /\ Return
                /\ UNCHANGED <<heap, typesize>>

-----------------------------------------------------------------------------
(* remove: the first node whose item equals the given one. *)

RemoveStart == /\ Busy("remove")
               /\ loop' = [loop EXCEPT !.pc = "remove",
                                       !.node = links.next[request.on]]
               /\ UNCHANGED <<heap, typesize, request, before>>

RemovePasses == /\ loop.pc = "remove"
                /\ loop.node # request.on
                /\ data[loop.node] # request.arg
                /\ loop' = [loop EXCEPT !.node = links.next[loop.node]]
                /\ UNCHANGED <<heap, typesize, request, before>>

Remove == /\ loop.pc = "remove"
          /\ loop.node # request.on
          /\ data[loop.node] = request.arg
          /\ NodeFree(loop.node)
          /\ Counted(request.on, count[request.on] - 1)
          /\ Return
          /\ UNCHANGED typesize

RemoveEnd == /\ loop.pc = "remove"
             /\ loop.node = request.on
             /\ Return
             /\ UNCHANGED <<heap, typesize>>

-----------------------------------------------------------------------------
(* clear, and free, assign and copy, which start with one. *)

Target == IF request.op = "copy" THEN request.arg ELSE request.on

(* copy takes the item size of its source once its target is clear. *)
Cleared == typesize' = IF request.op # "copy" THEN typesize
                       ELSE [typesize EXCEPT ![Target] = typesize[request.on]]

(* copy finds its first node before it clears its target. *)
ClearStart ==
    /\ Busy("clear") \/ Busy("free") \/ Busy("assign") \/ Busy("copy")
    /\ count[Target] > 0
    /\ loop' = [loop EXCEPT !.pc = "clear",
                            !.node = links.next[request.on],
                            !.scan = links.next[Target]]
    /\ UNCHANGED <<heap, typesize, request, before>>

ClearNothing ==
    /\ Busy("free") \/ Busy("assign") \/ Busy("copy")
    /\ count[Target] = 0
    /\ loop' = [loop EXCEPT !.pc = "cleared", !.node = links.next[request.on]]
    /\ Cleared
    /\ UNCHANGED <<heap, request, before>>

(* Mutant: the next node is read from the node just freed. *)
ClearReadsFreed == /\ loop.pc = "clear"
                   /\ loop.scan # Target
                   /\ NodeFree(loop.scan)
                   /\ loop' = [loop EXCEPT !.scan = links'.next[loop.scan]]
                   /\ UNCHANGED <<count, typesize, request, before>>

ClearStep == /\ loop.pc = "clear"
             /\ loop.scan # Target
             /\ loop' = [loop EXCEPT !.scan = links.next[loop.scan]]
             /\ NodeFree(loop.scan)
             /\ UNCHANGED <<count, typesize, request, before>>

ClearEnd == /\ loop.pc = "clear"
            /\ loop.scan = Target
            /\ links' = [next |-> [links.next EXCEPT ![Target] = Target],
                         prev |-> [links.prev EXCEPT ![Target] = Target]]
            /\ Counted(Target, 0)
            /\ Cleared
            /\ IF request.op = "clear"
               THEN Return
               ELSE loop' = [loop EXCEPT !.pc = "cleared", !.scan = Null]
                    /\ UNCHANGED <<request, before>>
            /\ UNCHANGED <<live, data>>

(* The structure itself is freed, with the sentinel in it. *)
FreeEnd == /\ loop.pc = "cleared"
           /\ request.op = "free"
           /\ live' = live \ {request.on}
           /\ links' = Forgotten(links, request.on)
           /\ typesize' = [typesize EXCEPT ![request.on] = Null]
           /\ Return
           /\ UNCHANGED <<data, count>>

AssignStep == /\ loop.pc = "cleared"
              /\ request.op = "assign"
              /\ loop.pos # request.arg.last
              /\ NodeAdd(links.prev[request.on], request.arg.array[loop.pos])
              /\ Counted(request.on, count[request.on] + 1)
              /\ loop' = [loop EXCEPT !.pos = @ + 1]
              /\ UNCHANGED <<typesize, request, before>>

AssignEnd == /\ loop.pc = "cleared"
             /\ request.op = "assign"
             /\ loop.pos = request.arg.last
             /\ Return
             /\ UNCHANGED <<heap, typesize>>

(* What a freed node points to is Null here: following it is a crash. *)
CopyStep == /\ loop.pc = "cleared"
            /\ request.op = "copy"
            /\ loop.node \notin {request.on, Null}
            /\ NodeAdd(links.prev[Target], data[loop.node])
            /\ Counted(Target, count[Target] + 1)
            /\ loop' = [loop EXCEPT !.node = links'.next[loop.node]]
            /\ UNCHANGED <<typesize, request, before>>

CopyEnd == /\ loop.pc = "cleared"
           /\ request.op = "copy"
           /\ loop.node = request.on
           /\ Return
           /\ UNCHANGED <<heap, typesize>>

-----------------------------------------------------------------------------
ReverseStart == /\ Busy("reverse")
                /\ count[request.on] > 0
                /\ loop' = [loop EXCEPT !.pc = "reverse",
                                        !.node = links.next[request.on]]
                /\ UNCHANGED <<heap, typesize, request, before>>

(* Mutant: the next node is read after the node has moved. *)
ReverseLateNext ==
    /\ loop.pc = "reverse"
    /\ loop.node # request.on
    /\ links' = Inserted(Erased(links, loop.node), request.on, loop.node)
    /\ loop' = [loop EXCEPT !.node = links'.next[loop.node]]
    /\ UNCHANGED <<live, data, count, typesize, request, before>>

ReverseStep ==
    /\ loop.pc = "reverse"
    /\ loop.node # request.on
    /\ loop' = [loop EXCEPT !.node = links.next[loop.node]]
    /\ links' = Inserted(Erased(links, loop.node), request.on, loop.node)
    /\ UNCHANGED <<live, data, count, typesize, request, before>>

ReverseEnd == /\ loop.pc = "reverse"
              /\ loop.node = request.on
              /\ Return
              /\ UNCHANGED <<heap, typesize>>

-----------------------------------------------------------------------------
(* assign takes a pointer into or just behind the caller's array; nobody   *)
(* copies a list to itself, which would follow a node that clear freed.    *)
AssignArgs == UNION {{[array |-> a, last |-> i] : i \in 1 .. Len(a) + 1} :
                        a \in Arrays}

Caller ==
    \E l \in Lists :
       \/ \E size \in Sizes : Invoke("alloc", l, size)
       \/ \E op \in {"free", "clear", "pop_back", "pop_front", "reverse"} :
             Invoke(op, l, Null)
       \/ \E op \in {"push_back", "push_front", "remove"}, v \in Vals :
             Invoke(op, l, v)
       \/ \E arg \in AssignArgs : Invoke("assign", l, arg)
       \/ \E t \in (Lists \cap live) \ {l} : Invoke("copy", l, t)

Callee == /\ request # Null
          /\ \/ Alloc \/ AllocFails \/ PushBack \/ PushFront \/ PopBack
             \/ PopFront \/ ReturnAtOnce
             \/ RemoveStart \/ RemovePasses \/ Remove \/ RemoveEnd
             \/ ClearStart \/ ClearNothing \/ ClearStep \/ ClearEnd \/ FreeEnd
             \/ AssignStep \/ AssignEnd \/ CopyStep \/ CopyEnd
             \/ ReverseStart \/ ReverseStep \/ ReverseEnd

Next == Caller \/ Callee

Spec == Init /\ [][Next]_vars

(* The thread that called goes on; it need not call again. *)
FairSpec == Spec /\ WF_vars(Callee)

-----------------------------------------------------------------------------
(* Type invariant. *)
TypeOK == /\ live \subseteq Cells
          /\ links \in [next : [Cells -> Cells \cup {Null}],
                        prev : [Cells -> Cells \cup {Null}]]
          /\ data \in [Nodes -> Vals \cup {Null}]
          /\ count \in [Lists -> Nat]
          /\ typesize \in [Lists -> Sizes \cup {Null}]
          /\ loop.pc \in {"start", "clear", "cleared", "remove",
                          "reverse"}
          /\ loop.node \in Cells \cup {Null}
          /\ loop.scan \in Cells \cup {Null}
          /\ loop.pos \in Nat \ {0}

(* In every state, half way through clear or reverse too, next and prev of *)
(* the allocated cells are inverse of each other and lead to allocated     *)
(* cells: clist_node_insert, _erase and _free leave no dangling pointer.   *)
LinksInverse == \A c \in live : /\ links.next[c] \in live
                                /\ links.prev[c] \in live
                                /\ links.prev[links.next[c]] = c
                                /\ links.next[links.prev[c]] = c

(* The pointers that the loops of clear, copy, remove and reverse go on    *)
(* with are those of allocated cells: next is read before a node is freed. *)
LoopPointersLive == /\ loop.pc = "clear" => loop.scan \in live
                    /\ loop.pc \in {"remove", "reverse"} => loop.node \in live
                    /\ loop.pc \in {"clear", "cleared"} /\ request.op = "copy"
                          => loop.node \in live

(* The nodes one comes to from list l by next: what every set closed under *)
(* next contains that contains l.                                          *)
Reached(l) ==
    {node \in Nodes \cap live :
        \A S \in SUBSET live :
           l \in S /\ (\A c \in S : links.next[c] \in S) => node \in S}

(* Between calls the count of a list is its length, and every node that    *)
(* was not freed is in exactly one list: nothing leaks, nothing is shared. *)
CountsAccurate ==
    loop.pc = "start" =>
       /\ \A l \in Lists \cap live : count[l] = Cardinality(Reached(l))
       /\ \A node \in Nodes \cap live :
             \E l \in Lists \cap live :
                /\ node \in Reached(l)
                /\ \A t \in Lists \cap live : node \in Reached(t) => t = l

(* Between calls empty, front, back, at, find and equal agree on what is   *)
(* in a list, whichever of count, next and prev they read.                 *)
ReadsAgree ==
    loop.pc = "start" => \A l \in Lists \cap live :
       LET s == Values(l)
       IN  /\ IsEmpty(l) <=> s = <<>>
           /\ s # <<>> => First(l) = s[1] /\ Back(l) = s[Len(s)]
           /\ s = <<>> => First(l) = Null /\ Back(l) = Null
           /\ \A i \in 0 .. Len(s) - 1 : data[At(l, i)] = s[i + 1]
           /\ At(l, Len(s)) = Null
           /\ \A v \in Vals : Find(l, v) # Null <=> \E i \in DOMAIN s : s[i] = v
           /\ \A t \in Lists \cap live :
                 Equal(l, t) <=> typesize[l] = typesize[t] /\ s = Values(t)

(* Every call returns: the loops over circular lists end. *)
CallsReturn == request # Null ~> request = Null

(* How far a call is from its return: the part it is in, and in that part  *)
(* the nodes or the items that its loop has before it.                     *)
Phase == IF request = Null THEN 0
         ELSE CASE loop.pc = "start" -> 3
                [] loop.pc = "clear" -> 2
                [] OTHER             -> 1

(* The nodes of list l from c on. *)
Behind(l, c) ==
    LET chain == Chain(links.next, l)
    IN  Cardinality({i \in DOMAIN chain : \E j \in 1 .. i : chain[j] = c})

Left == CASE loop.pc = "start" -> 0
          [] loop.pc = "clear" -> Len(Chain(links.next, Target))
          [] loop.pc = "cleared" /\ request.op = "free" -> 0
          [] loop.pc = "cleared" /\ request.op = "assign" ->
                request.arg.last - loop.pos
          [] OTHER -> Behind(request.on, loop.node)

(* Every step of a call brings it nearer to its return: no loop comes to a *)
(* node again, though reverse moves the nodes it walks over and copy walks *)
(* along one list while it makes another.                                  *)
NearsEnd ==
    [][request # Null =>
          /\ Left \in Nat /\ Left' \in Nat
          /\ Phase' < Phase \/ (Phase' = Phase /\ Left' < Left)]_vars

(* clist.h on remove: "delete position item", "position: item pointer".    *)
(* A caller that passes the pointer of an item expects that item to go:    *)
(* false when an equal item comes before it.                               *)
RemovesPosition ==
    [][Remove => \A i \in DOMAIN Values(request.on) :
                    data[Chain(links.next, request.on)[i]] = request.arg
                       => Chain(links.next, request.on)[i] \notin live']_vars

-----------------------------------------------------------------------------

AbstractDeque ==
    INSTANCE Deque WITH
        alive <- live \cap Lists,
        items <- IF request # Null THEN before.items ELSE Items,
        typesize <- IF request # Null THEN before.typesize ELSE typesize

(* clist.c implements the deques of clist.h: until a call returns, a list  *)
(* is what it was before; it is then what the call promises.               *)
ImplementsDeque == AbstractDeque!Spec

=============================================================================
