------------------------------ MODULE Crawler ------------------------------
(***************************************************************************)
(* The directory listings of lab2/zad2.  file_tree_crawler.c recurses by   *)
(* itself, with one path_buffer that every call extends and its caller     *)
(* cuts again; it never closes a directory.  file_tree_crawler_ftw.c is    *)
(* called by ftw(), which follows links, and reads the depth off the path. *)
(* Other programs may remove entries meanwhile.                            *)
(*                                                                         *)
(* A path is the sequence of entries from the root down.                   *)
(***************************************************************************)
EXTENDS Integers, Sequences, FiniteSets

CONSTANTS Tree,       \* each entry: the directory it is in, its kind and mode
          Root,       \* the argument, in Tree as well
          Limits,     \* how many open directories the process may be allowed
          MaxGone     \* bound: entries removed meanwhile

Entries == DOMAIN Tree
Bits == UNION {Tree[e].mode : e \in Entries}

VARIABLES version,    \* "own" or "ftw", "" before the start
          permit,     \* permit_word
          limit,      \* of open directories
          gone,       \* entries that were removed
          path,       \* path_buffer
          calls,      \* of traverse_recursively: directory, entries left, path_len
          indentation,\* indentation_lvl
          opened,     \* directories opened so far
          pc,         \* "start", "enter", "read", "stat", "walk", "done", "crashed"
          printed     \* the lines: entry and number of ".."

vars == <<version, permit, limit, gone, path, calls, indentation, opened, pc, printed>>
setup == <<version, permit, limit>>

Init ==
  /\ version = "" /\ permit = {} /\ limit = 0
  /\ gone = {} /\ path = <<>> /\ calls = <<>>
  /\ indentation = 0 /\ opened = 0 /\ pc = "start" /\ printed = <<>>

-----------------------------------------------------------------------------
In(dir) == {e \in Entries \ {Root} : Tree[e].in = dir}

(* What a path leads to is there if it goes down the tree and nothing on   *)
(* it was removed.                                                         *)
IsThere(p) == /\ \A i \in 1 .. Len(p) - 1 : p[i] = Tree[p[i + 1]].in
              /\ \A i \in 1 .. Len(p) : p[i] \notin gone
Named(p) == p[Len(p)]

NotFile(e) == Tree[e].kind # "file"   \* planted defect
IsDir(e) == Tree[e].kind = "dir"

Shares(mode) == mode = {} \/ mode \cap permit # {}   \* planted defect: one bit is enough
compare_access(mode) == mode \subseteq permit

(* main, and verify_access_template; the root exists.                      *)
Begin ==
  /\ pc = "start"
  /\ version' \in {"own", "ftw"} /\ permit' \in SUBSET Bits /\ limit' \in Limits
  /\ path' = <<Root>>
  /\ pc' = IF version' = "own" THEN "enter" ELSE "walk"
  /\ UNCHANGED <<gone, calls, indentation, opened, printed>>

Vanish(e) ==
  /\ pc \notin {"start", "done", "crashed"}
  /\ e # Root /\ e \notin gone
  /\ Cardinality(gone) < MaxGone
  /\ gone' = gone \cup {e}
  /\ UNCHANGED <<setup, path, calls, indentation, opened, pc, printed>>

-----------------------------------------------------------------------------
(* traverse_recursively.  readdir is called with what opendir returned,    *)
(* NULL or not.                                                            *)
Enter ==
  /\ pc = "enter"
  /\ IF IsThere(path) /\ Tree[Named(path)].kind = "dir" /\ opened < limit
     THEN /\ calls' = Append(calls, [dir |-> Named(path), path_len |-> Len(path),
                                     left |-> In(Named(path)) \ gone])
          /\ opened' = opened + 1 /\ pc' = "read"
     ELSE pc' = "crashed" /\ UNCHANGED <<calls, opened>>
  /\ UNCHANGED <<setup, gone, path, indentation, printed>>

Depth == Len(calls)
Current == calls[Depth]

ReadEntry ==
  /\ pc = "read"
  /\ \E e \in Current.left :
       /\ calls' = [calls EXCEPT ![Depth].left = @ \ {e}]
       /\ path' = Append(path, e)
  /\ pc' = "stat"
  /\ UNCHANGED <<setup, gone, indentation, opened, printed>>

NothingCut(p, length) == p            \* planted defect
CutTo(p, length) == SubSeq(p, 1, length)

StaysIndented == indentation          \* planted defect
Outdented == indentation - 1

(* Back in the caller, which cuts the path to its own length.              *)
Return ==
  /\ calls' = SubSeq(calls, 1, Depth - 1)
  /\ IF Depth = 1
     THEN pc' = "done" /\ UNCHANGED <<path, indentation>>
     ELSE /\ pc' = "read"
          /\ indentation' = Outdented
          /\ path' = CutTo(path, calls[Depth - 1].path_len)

LastEntry ==
  /\ pc = "read" /\ Current.left = {}
  /\ Return
  /\ UNCHANGED <<setup, gone, opened, printed>>

Line(e, dots) == [entry |-> e, dots |-> dots]

(* lstat: an entry that is gone ends the call.                             *)
Stat ==
  /\ pc = "stat"
  /\ LET e == Named(path) IN
     \/ /\ ~IsThere(path)
        /\ Return /\ UNCHANGED printed
     \/ /\ IsThere(path) /\ IsDir(e)
        /\ printed' = Append(printed, Line(e, indentation))
        /\ indentation' = indentation + 1
        /\ pc' = "enter"
        /\ UNCHANGED <<path, calls>>
     \/ /\ IsThere(path) /\ ~IsDir(e)
        /\ printed' = IF Tree[e].kind = "file" /\ compare_access(Tree[e].mode)
                      THEN Append(printed, Line(e, indentation)) ELSE printed
        /\ path' = CutTo(path, Current.path_len)
        /\ pc' = "read"
        /\ UNCHANGED <<calls, indentation>>
  /\ UNCHANGED <<setup, gone, opened>>

-----------------------------------------------------------------------------
(* ftw goes down the tree; left holds the entries it has met and has still *)
(* to visit.                                                               *)
RECURSIVE PathTo(_)
PathTo(e) == IF e = Root THEN <<Root>> ELSE Append(PathTo(Tree[e].in), e)

Unvisited == IF calls = <<>> THEN {Root}
             ELSE {e \in calls[1].left : IsThere(PathTo(e))}

(* fn: the depth is the number of slashes in the path.                     *)
Visit ==
  /\ pc = "walk"
  /\ \E e \in Unvisited :
       /\ path' = PathTo(e)
       /\ calls' = <<[dir |-> Root, path_len |-> 1,
                      left |-> (Unvisited \ {e}) \cup
                               (IF Tree[e].kind = "dir" THEN In(e) ELSE {})]>>
       /\ printed' = IF Tree[e].kind = "dir" \/ compare_access(Tree[e].mode)
                     THEN Append(printed, Line(e, Len(path') - 1)) ELSE printed
  /\ UNCHANGED <<setup, gone, indentation, opened, pc>>

WalkEnds ==
  /\ pc = "walk" /\ Unvisited = {}
  /\ pc' = "done"
  /\ UNCHANGED <<setup, gone, path, calls, indentation, opened, printed>>

Step == \/ Begin \/ Enter \/ ReadEntry \/ LastEntry \/ Stat
        \/ Visit \/ WalkEnds
Next == Step \/ \E e \in Entries : Vanish(e)
Spec == Init /\ [][Next]_vars

-----------------------------------------------------------------------------
(* Types of the traversal's variables.                                     *)
TypeOK ==
  /\ version \in {"", "own", "ftw"} /\ permit \subseteq Bits
  /\ limit \in Limits \cup {0} /\ gone \subseteq Entries
  /\ path \in Seq(Entries)
  /\ \A i \in DOMAIN calls : calls[i].left \subseteq Entries /\ calls[i].dir \in Entries
  /\ indentation \in 0 .. Len(path) /\ opened \in 0 .. limit
  /\ pc \in {"start", "enter", "read", "stat", "walk", "done", "crashed"}
  /\ \A i \in DOMAIN printed : printed[i].entry \in Entries

(* Every line is for an entry of its own, that belongs in the list, with   *)
(* as many dots as the entry lies deep: ftw counts the root, the recursion *)
(* does not list it.                                                       *)
Listable(e) == Tree[e].kind = "dir" \/ compare_access(Tree[e].mode)
Level(e) == Len(PathTo(e)) - (IF version = "own" THEN 2 ELSE 1)
ListedRight ==
  /\ \A i \in DOMAIN printed : LET e == printed[i].entry IN
       /\ IF Tree[e].kind = "dir" THEN TRUE ELSE Tree[e].mode \subseteq permit
       /\ printed[i].dots = Level(e)
  /\ \A i, j \in DOMAIN printed : i # j => printed[i].entry # printed[j].entry

(* At the end all entries have been listed, except what is in a directory  *)
(* from which something was removed, or below.                             *)
Ancestors(e) == {PathTo(e)[i] : i \in DOMAIN PathTo(e)}
Expected(e) == /\ Tree[e].kind = "dir" \/ Tree[e].mode \subseteq permit
               /\ version = "own" => e # Root /\ Tree[e].kind # "link"
NothingLeftOut ==
  pc = "done" => \A e \in Entries : Expected(e) =>
    \/ \E i \in DOMAIN printed : printed[i].entry = e
    \/ \E g \in gone, x \in Ancestors(e) \ {Root} : Tree[g].in = Tree[x].in

(* The recursion reads from a directory that could not be opened, and dies *)
(* of it, only if one was removed or all its descriptors are in use.       *)
CrashesWithCause == pc = "crashed" => opened = limit \/ gone # {}
=============================================================================
