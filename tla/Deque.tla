-------------------------------- MODULE Deque --------------------------------
(***************************************************************************)
(* What clist.h offers, without nodes: lists are sequences of values, and  *)
(* each call takes effect at one moment between its invocation and its     *)
(* return. The pointer structure of clist.c is shown to implement it (CList).*)
(***************************************************************************)
EXTENDS SequencesExt

CONSTANTS Lists,     (* addresses clist_alloc may return      *)
          Vals,      (* item values, told apart by memcmp     *)
          Sizes,     (* item sizes                            *)
          Arrays,    (* contents of the caller's arrays       *)
          Null       (* no request, no size                   *)

VARIABLES alive,     (* the lists that exist                  *)
          items,     (* per list: its items, first to last    *)
          typesize,  (* per list: the size of an item         *)
          request    (* the call in progress, or Null         *)

vars == <<alive, items, typesize, request>>

Init == /\ alive = {}
        /\ items = [l \in Lists |-> <<>>]
        /\ typesize = [l \in Lists |-> Null]
        /\ request = Null

Request(op, l, arg) == [op |-> op, on |-> l, arg |-> arg]

Invoke(op, l, arg) == /\ request = Null
                      /\ op = "alloc" <=> l \notin alive
                      /\ request' = Request(op, l, arg)
                      /\ UNCHANGED <<alive, items, typesize>>

Return(op, l, arg) == request = Request(op, l, arg) /\ request' = Null

(* The items of list l become s. *)
Update(l, s) == /\ items' = [items EXCEPT ![l] = s]
                /\ UNCHANGED <<alive, typesize>>

(* malloc may have no memory left. *)
Alloc(l, size) == /\ Return("alloc", l, size)
                  /\ \/ UNCHANGED <<alive, typesize>>
                     \/ /\ alive' = alive \cup {l}
                        /\ typesize' = [typesize EXCEPT ![l] = size]
                  /\ UNCHANGED items

Free(l) == /\ Return("free", l, Null)
           /\ alive' = alive \ {l}
           /\ items' = [items EXCEPT ![l] = <<>>]
           /\ typesize' = [typesize EXCEPT ![l] = Null]

Clear(l)        == Return("clear", l, Null) /\ Update(l, <<>>)
PushBack(l, v)  == Return("push_back", l, v) /\ Update(l, Append(items[l], v))
PushFront(l, v) == Return("push_front", l, v) /\ Update(l, Cons(v, items[l]))

PopBack(l) == /\ Return("pop_back", l, Null)
              /\ Update(l, IF items[l] = <<>> THEN <<>> ELSE Front(items[l]))

PopFront(l) == /\ Return("pop_front", l, Null)
               /\ Update(l, IF items[l] = <<>> THEN <<>> ELSE Tail(items[l]))

(* The first item that equals v, if there is one. *)
Erase(l, v) == Return("remove", l, v) /\ Update(l, RemoveFirst(items[l], v))

(* The array from its first item up to the one before the pointer last. *)
Assign(l, arg) == /\ Return("assign", l, arg)
                  /\ Update(l, SubSeq(arg.array, 1, arg.last - 1))

Turn(l) == Return("reverse", l, Null) /\ Update(l, Reverse(items[l]))

Copy(l, t) == /\ Return("copy", l, t)
              /\ items' = [items EXCEPT ![t] = items[l]]
              /\ typesize' = [typesize EXCEPT ![t] = typesize[l]]
              /\ UNCHANGED alive

AssignArgs == UNION {{[array |-> a, last |-> i] : i \in 1 .. Len(a) + 1} :
                        a \in Arrays}

Next == \E l \in Lists :
          \/ \E size \in Sizes : Invoke("alloc", l, size) \/ Alloc(l, size)
          \/ \E op \in {"free", "clear", "pop_back", "pop_front", "reverse"} :
                Invoke(op, l, Null)
          \/ Free(l) \/ Clear(l) \/ PopBack(l) \/ PopFront(l) \/ Turn(l)
          \/ \E v \in Vals :
                \/ \E op \in {"push_back", "push_front", "remove"} :
                      Invoke(op, l, v)
                \/ PushBack(l, v) \/ PushFront(l, v) \/ Erase(l, v)
          \/ \E arg \in AssignArgs : Invoke("assign", l, arg) \/ Assign(l, arg)
          \/ \E t \in alive : Invoke("copy", l, t) \/ Copy(l, t)

Spec == Init /\ [][Next]_vars

=============================================================================
