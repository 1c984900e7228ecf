---------------------------- MODULE AddressList ----------------------------
(***************************************************************************)
(* The address list of lab1: doubly linked nodes, a list being a head.     *)
(* list_funs.c is translated function by function as operators on the      *)
(* heap, the quick sort call by call; a caller uses the functions in any   *)
(* order.  A node's name and surname are one key.                          *)
(*                                                                         *)
(* Several functions leave two lists with nodes in common.  The caller     *)
(* keeps to one of them, as main.c does: the other is spent.               *)
(***************************************************************************)
EXTENDS Integers, Sequences, FiniteSets

CONSTANTS Lists, Keys,
          MaxNodes,   \* bound: nodes the caller makes
          MaxDepth    \* calls of perform_quick_list_sort the stack has room for

Null == 0
Nodes == 1 .. MaxNodes
Parts == {"lesser", "equal", "greater"}

VARIABLES heap,     \* next and prev of each node, head of each list
          key,      \* the key of each node, 0 if there is no such node yet
          freed,    \* nodes given back
          use,      \* each list of the caller: "none", "live" or "spent"
          stack,    \* the calls of perform_quick_list_sort
          before,   \* history: the nodes of the list being sorted
          lost      \* history: nodes that no list of the caller leads to

vars == <<heap, key, freed, use, stack, before, lost>>

(* Each call of the sort makes three lists of its own.                     *)
Init ==
  /\ heap = [next |-> [n \in Nodes |-> Null], prev |-> [n \in Nodes |-> Null],
             head |-> [l \in Lists \cup (1 .. MaxDepth) \X Parts |-> Null]]
  /\ key = [n \in Nodes |-> 0]
  /\ freed = {} /\ lost = {} /\ before = {}
  /\ use = [l \in Lists |-> "none"]
  /\ stack = <<>>

-----------------------------------------------------------------------------
(* while(iteration_node != NULL): the nodes from n on.                     *)
RECURSIVE From(_, _)
From(h, n) == IF n = Null THEN <<>> ELSE <<n>> \o From(h, h.next[n])

Chain(h, l) == From(h, h.head[l])
Members(h, l) == {Chain(h, l)[i] : i \in DOMAIN Chain(h, l)}
Last(c) == c[Len(c)]

NextAlone(h, last, n) ==              \* planted defect: prev is not set
  [h EXCEPT !.next = [@ EXCEPT ![last] = n, ![n] = Null]]
LinkAfter(h, last, n) ==
  [h EXCEPT !.next = [@ EXCEPT ![last] = n, ![n] = Null], !.prev[n] = last]

add_elem(h, l, n) ==
  IF h.head[l] = Null
  THEN [h EXCEPT !.head[l] = n, !.next[n] = Null, !.prev[n] = Null]
  ELSE LinkAfter(h, Last(Chain(h, l)), n)

remove_elem(h, l, n) ==
  LET before_n == h.prev[n]  after == h.next[n]
      unlinked == IF before_n = Null THEN [h EXCEPT !.head[l] = after]
                                     ELSE [h EXCEPT !.next[before_n] = after]
  IN  CASE n \notin Members(h, l) -> h
        [] n \in Members(h, l) /\ after = Null -> unlinked
        [] OTHER -> [unlinked EXCEPT !.prev[after] = before_n]

list_concat(h, first, second) ==
  CASE h.head[first] = Null -> [h EXCEPT !.head[first] = h.head[second]]
    [] h.head[first] # Null /\ h.head[second] = Null ->
         [h EXCEPT !.head[second] = h.head[first]]
    [] OTHER ->
         LET last == Last(Chain(h, first)) IN
         [h EXCEPT !.next[last] = h.head[second], !.prev[h.head[second]] = last,
                   !.head[second] = h.head[first]]

(* get_equals, get_greater, get_lesser: add_elem clears the next that the  *)
(* loop reads afterwards, so it ends with the first node found.            *)
Wanted(part, k, pivot) == CASE part = "lesser" -> k < pivot
                            [] part = "equal" -> k = pivot
                            [] part = "greater" -> k > pivot
Matching(h, l, part, pivot) ==
  SelectSeq(Chain(h, l), LAMBDA n : Wanted(part, key[n], pivot))

find_elem_by_full_name(h, l, k) ==
  LET found == Matching(h, l, "equal", k) IN
  IF found = <<>> THEN Null ELSE Head(found)

-----------------------------------------------------------------------------
Idle == stack = <<>>
Live(l) == Idle /\ use[l] = "live"

create_list(l) ==
  /\ Idle /\ use[l] = "none"
  /\ use' = [use EXCEPT ![l] = "live"]
  /\ UNCHANGED <<heap, key, freed, stack, before, lost>>

(* create_node and add_elem, as create_sample_list calls them.             *)
AddNew(l) ==
  /\ Live(l)
  /\ \E n \in Nodes, k \in Keys :
       /\ key[n] = 0 /\ \A m \in 1 .. n - 1 : key[m] # 0
       /\ key' = [key EXCEPT ![n] = k]
       /\ heap' = add_elem(heap, l, n)
  /\ UNCHANGED <<freed, use, stack, before, lost>>

(* find and remove_elem, which refuses NULL and frees the node.            *)
Unchecked(n) == TRUE                  \* planted defect
Accepted(n) == n # Null

RemoveFound(l, k) ==
  /\ Live(l)
  /\ LET n == find_elem_by_full_name(heap, l, k) IN
     /\ Accepted(n)
     /\ heap' = remove_elem(heap, l, n)
     /\ freed' = freed \cup {n}
  /\ UNCHANGED <<key, use, stack, before, lost>>

Concatenate(first, second) ==
  /\ Live(first) /\ Live(second) /\ first # second
  /\ heap' = list_concat(heap, first, second)
  /\ use' = [use EXCEPT ![second] = "spent"]
  /\ UNCHANGED <<key, freed, stack, before, lost>>

Extract(l, result, part, k) ==
  /\ Live(l) /\ use[result] = "none"
  /\ LET found == Matching(heap, l, part, k)
         h == IF found = <<>> THEN heap ELSE add_elem(heap, result, Head(found)) IN
     /\ heap' = h
     /\ lost' = IF found = <<>> THEN lost
                ELSE lost \cup (Members(heap, l) \ Members(h, result))
     /\ use' = [use EXCEPT ![result] = "live",
                           ![l] = IF found = <<>> THEN @ ELSE "spent"]
  /\ UNCHANGED <<key, freed, stack, before>>

(* main: add_elem for each node of another list; as above the loop ends    *)
(* after one.                                                              *)
MoveAll(l, other) ==
  /\ Live(l) /\ Live(other) /\ l # other /\ heap.head[other] # Null
  /\ heap' = add_elem(heap, l, heap.head[other])
  /\ lost' = lost \cup (Members(heap, other) \ {heap.head[other]})
  /\ use' = [use EXCEPT ![other] = "spent"]
  /\ UNCHANGED <<key, freed, stack, before>>

delete_list(l) ==
  /\ Live(l)
  /\ freed' = freed \cup Members(heap, l)
  /\ use' = [use EXCEPT ![l] = "spent"]
  /\ UNCHANGED <<heap, key, stack, before, lost>>

-----------------------------------------------------------------------------
(* perform_quick_list_sort: a call has its list and what it does next, and *)
(* its own lists, which are empty while it does not run.                   *)
Call(l) == [list |-> l, next |-> "split"]
Depth == Len(stack)
Top == stack[Depth]
Part(part) == <<Depth, part>>
Continue(next) == [stack EXCEPT ![Depth].next = next]
StayInCall == stack                   \* planted defect
Return == SubSeq(stack, 1, Depth - 1)
Remembered == IF stack' = <<>> THEN {} ELSE before

list_sort(l) ==
  /\ Live(l) /\ heap.head[l] # Null
  /\ stack' = <<Call(l)>>
  /\ before' = Members(heap, l)
  /\ UNCHANGED <<heap, key, freed, use, lost>>

(* Each node goes to one of three new lists, by its key and the first's.   *)
RECURSIVE Distribute(_, _, _)
Distribute(h, c, pivot) ==
  IF c = <<>> THEN h
  ELSE LET part == CHOOSE p \in Parts : Wanted(p, key[Head(c)], pivot) IN
       Distribute(add_elem(h, Part(part), Head(c)), Tail(c), pivot)

OnlyEmpty(c) == c = <<>>              \* planted defect
Trivial(c) == Len(c) <= 1

Following(part) == CASE part = "lesser" -> "equal" [] part = "equal" -> "greater"
                     [] part = "greater" -> "join"

(* What a step does to the calls: sort the parts in turn, then return.     *)
NextCall ==
  /\ Depth \in 1 .. MaxDepth
  /\ stack' = CASE Top.next = "join" -> Return
                [] Top.next \in Parts ->
                     Append(Continue(Following(Top.next)), Call(Part(Top.next)))
                [] Top.next = "split" -> IF Trivial(Chain(heap, Top.list)) THEN Return
                                         ELSE Continue("lesser")

Split ==
  /\ NextCall /\ Top.next = "split"
  /\ heap' = LET c == Chain(heap, Top.list) IN
       IF Trivial(c) THEN heap ELSE Distribute(heap, c, key[c[1]])
  /\ before' = Remembered
  /\ UNCHANGED <<key, freed, use, lost>>

SortPart ==
  /\ NextCall /\ Top.next \in Parts
  /\ UNCHANGED <<heap, key, freed, use, before, lost>>

(* The parts that are not empty are put together into result; the three    *)
(* lists are forgotten.                                                    *)
GreaterFirst == <<"greater", "equal", "lesser">>   \* planted defect
Order == <<"lesser", "equal", "greater">>

RECURSIVE Joined(_, _)
Joined(h, parts) ==
  IF Len(parts) <= 1 THEN h
  ELSE Joined(list_concat(h, parts[1], parts[2]), <<parts[1]>> \o Tail(Tail(parts)))

Join ==
  /\ NextCall /\ Top.next = "join"
  /\ LET parts == SelectSeq([i \in 1 .. 3 |-> Part(Order[i])],
                            LAMBDA l : heap.head[l] # Null)
         h == Joined(heap, parts)
     IN heap' = [h EXCEPT !.head = [l \in DOMAIN @ |->
                   CASE l = Top.list -> @[parts[1]]
                     [] l \in {Part(part) : part \in Parts} -> Null
                     [] OTHER -> @[l]]]
  /\ before' = Remembered
  /\ UNCHANGED <<key, freed, use, lost>>

SortStep == Split \/ SortPart \/ Join

CallerStep ==
  \E l \in Lists :
    \/ create_list(l) \/ AddNew(l) \/ delete_list(l) \/ list_sort(l)
    \/ \E k \in Keys : RemoveFound(l, k)
    \/ \E m \in Lists : Concatenate(l, m) \/ MoveAll(l, m)
    \/ \E m \in Lists, part \in Parts, k \in Keys : Extract(l, m, part, k)

Next == SortStep \/ CallerStep
(* A sort goes on: every SortStep is a step of NextCall.                   *)
Spec == Init /\ [][Next]_vars /\ WF_stack(NextCall)

-----------------------------------------------------------------------------
(* Types of the heap and of the calls under way.                           *)
TypeOK ==
  /\ heap.next \in [Nodes -> Nodes \cup {Null}]
  /\ heap.prev \in [Nodes -> Nodes \cup {Null}]
  /\ \A l \in DOMAIN heap.head : heap.head[l] \in Nodes \cup {Null}
  /\ key \in [Nodes -> Keys \cup {0}]
  /\ freed \subseteq Nodes /\ lost \subseteq Nodes
  /\ use \in [Lists -> {"none", "live", "spent"}]
  /\ Depth <= MaxDepth + 1

(* Between calls every list in use is linked both ways, without cycles and *)
(* without freed nodes, and no node that was made is missing from all of   *)
(* them or in two, but for those the extracting loops lose.                *)
Linked(l) ==
  LET c == Chain(heap, l) IN
  /\ Cardinality(Members(heap, l)) = Len(c)
  /\ c # <<>> => heap.prev[c[1]] = Null /\ heap.next[Last(c)] = Null
  /\ \A i \in 1 .. Len(c) - 1 : heap.prev[c[i + 1]] = c[i]
InUse == {l \in Lists : use[l] = "live"}
ListsSound ==
  Idle =>
    /\ \A l \in InUse : Linked(l)
    /\ \A l, m \in InUse : l # m => Members(heap, l) \cap Members(heap, m) = {}
    /\ UNION {Members(heap, l) : l \in InUse} =
         {n \in Nodes : key[n] # 0} \ (freed \cup lost)

(* The sort returns the nodes it was given, in order.                      *)
SortsRight ==
  [][(Idle' /\ ~Idle) =>
       LET l == stack[1].list
           c == Chain(heap', l) IN
       /\ {c[i] : i \in DOMAIN c} = before
       /\ \A i \in 1 .. Len(c) - 1 : key[c[i]] <= key[c[i + 1]]]_vars

(* Two nodes with one key are never parted: the call for the equal ones is *)
(* given the same list again, until the stack is full.  Nothing else fills *)
(* the stack.                                                              *)
Overflow == Depth > MaxDepth
EqualKeys == \E n, m \in before : n # m /\ key[n] = key[m]
OverflowOnEqualKeys == Overflow => EqualKeys

(* A sort returns unless it overflows.                                     *)
SortReturns == ~Idle ~> (Idle \/ Overflow)
=============================================================================
