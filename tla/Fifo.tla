-------------------------------- MODULE Fifo --------------------------------
(***************************************************************************)
(* The FIFO of lab5/zad2: one rdfifo makes it, prints what arrives and     *)
(* removes it at the end of file; any number of wrfifo write one line at a *)
(* time, as "pid - hour - line".  A write of at most PIPE_BUF is atomic;   *)
(* a read takes up to PIPE_BUF of whatever is there and is printed as one  *)
(* message, whose header is the first twenty characters.                   *)
(*                                                                         *)
(* The FIFO holds cells: the first cell of a line stands for its header.   *)
(***************************************************************************)
EXTENDS Integers, Sequences

CONSTANTS Writers, PipeBuf, Capacity,
          MaxLines    \* bound: lines each writer reads from its stdin

VARIABLES exists,     \* the FIFO has its name
          fifo,       \* the cells in it
          reader,     \* "start", "open", "loop", "remove" or "gone"
          writer,     \* each: "start", "open", "on", "closed", "refused"
          lines,      \* lines written by each
          last,       \* history: how the last read began, and how it and the one before ended
          late        \* history: writers that opened after the reader's loop

vars == <<exists, fifo, reader, writer, lines, last, late>>

Init ==
  /\ exists = FALSE /\ fifo = <<>>
  /\ reader = "start"
  /\ writer = [w \in Writers |-> "start"]
  /\ lines = [w \in Writers |-> 0]
  /\ last = [header |-> TRUE, afterFull |-> FALSE, full |-> FALSE]
  /\ late = {}

-----------------------------------------------------------------------------
(* rdfifo *)
MakeFifo ==
  /\ reader = "start"
  /\ exists' = TRUE /\ reader' = "open"
  /\ UNCHANGED <<fifo, writer, lines, last, late>>

(* open() waits for a first writer.                                        *)
OpenToRead ==
  /\ reader = "open"
  /\ \E w \in Writers : writer[w] \in {"open", "on", "closed"}
  /\ reader' = "loop"
  /\ UNCHANGED <<exists, fifo, writer, lines, last, late>>

Least(a, b) == IF a < b THEN a ELSE b

Read ==
  /\ reader = "loop" /\ fifo # <<>>
  /\ LET n == Least(PipeBuf, Len(fifo)) IN
     /\ last' = [header |-> Head(fifo).first, afterFull |-> last.full, full |-> n = PipeBuf]
     /\ fifo' = SubSeq(fifo, n + 1, Len(fifo))
  /\ UNCHANGED <<exists, reader, writer, lines, late>>

WhenEmpty == TRUE                     \* planted defect: nothing there taken for the end
OwnWriteEnd == FALSE                  \* planted defect: opened with O_RDWR
AtEnd == \A w \in Writers : writer[w] \notin {"open", "on"}

EndOfFile ==
  /\ reader = "loop" /\ fifo = <<>> /\ AtEnd
  /\ reader' = "remove"
  /\ UNCHANGED <<exists, fifo, writer, lines, last, late>>

Remove ==
  /\ reader = "remove"
  /\ exists' = FALSE /\ reader' = "gone"
  /\ UNCHANGED <<fifo, writer, lines, last, late>>

-----------------------------------------------------------------------------
(* wrfifo: open() fails without the FIFO and waits for the reader.         *)
StartWriter(w) ==
  /\ writer[w] = "start"
  /\ writer' = [writer EXCEPT ![w] = IF exists THEN "open" ELSE "refused"]
  /\ late' = IF exists /\ reader = "remove" THEN late \cup {w} ELSE late
  /\ UNCHANGED <<exists, fifo, reader, lines, last>>

OpenToWrite(w) ==
  /\ writer[w] = "open" /\ reader \in {"open", "loop", "remove"}
  /\ writer' = [writer EXCEPT ![w] = "on"]
  /\ UNCHANGED <<exists, fifo, reader, lines, last, late>>

TextAlone(w, n) ==                    \* planted defect: the header in a write of its own
  [k \in 1 .. n |-> [from |-> w, first |-> FALSE]]
OneCellMore(w, n) ==                  \* planted defect: one byte too many
  [k \in 1 .. n + 1 |-> [from |-> w, first |-> k = 1]]
Line(w, n) == [k \in 1 .. n |-> [from |-> w, first |-> k = 1]]

(* A line with its header is never longer than PIPE_BUF.                   *)
Write(w) ==
  /\ writer[w] = "on" /\ lines[w] < MaxLines
  /\ \E n \in 1 .. PipeBuf :
       /\ Len(fifo) + n <= Capacity
       /\ fifo' = fifo \o Line(w, n)
  /\ reader # "gone"
  /\ lines' = [lines EXCEPT ![w] = @ + 1]
  /\ UNCHANGED <<exists, reader, writer, last, late>>

(* The end of stdin, or SIGPIPE when the reader is gone.                   *)
Close(w) ==
  /\ writer[w] = "on"
  /\ writer' = [writer EXCEPT ![w] = "closed"]
  /\ UNCHANGED <<exists, fifo, reader, lines, last, late>>

ReaderStep == MakeFifo \/ OpenToRead \/ Read \/ EndOfFile \/ Remove
WriterStep(w) == StartWriter(w) \/ OpenToWrite(w) \/ Write(w) \/ Close(w)
Next == ReaderStep \/ \E w \in Writers : WriterStep(w)
(* Both open calls return when they can, and every writer's stdin ends.    *)
Spec == Init /\ [][Next]_vars /\ WF_vars(ReaderStep)
        /\ \A w \in Writers : WF_vars(OpenToWrite(w)) /\ WF_vars(Close(w))

-----------------------------------------------------------------------------
(* Types of the FIFO, its reader and its writers.                          *)
TypeOK ==
  /\ exists \in BOOLEAN
  /\ fifo \in Seq([from : Writers, first : BOOLEAN]) /\ Len(fifo) <= Capacity
  /\ reader \in {"start", "open", "loop", "remove", "gone"}
  /\ writer \in [Writers -> {"start", "open", "on", "closed", "refused"}]
  /\ lines \in [Writers -> 0 .. MaxLines]
  /\ last \in [header : BOOLEAN, afterFull : BOOLEAN, full : BOOLEAN]
  /\ late \subseteq Writers

(* What is printed as a pid is one, unless the read before filled the      *)
(* buffer: then it may have ended inside a line, whose rest now loses      *)
(* twenty characters to the header.                                        *)
SplitOnlyWhenFull == last.header \/ last.afterFull

(* A line is left unread only if its writer opened the FIFO after the      *)
(* reader had seen the end and before the name was gone.                   *)
OnlyLateLinesLost ==
  reader \in {"remove", "gone"} => \A k \in 1 .. Len(fifo) : fifo[k].from \in late

(* Once somebody has opened it, the reader comes to its end, provided      *)
(* every writer does.                                                      *)
ReaderEnds == (\E w \in Writers : writer[w] = "on") ~> (reader = "gone")
=============================================================================
