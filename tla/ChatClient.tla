----------------------------- MODULE ChatClient -----------------------------
(***************************************************************************)
(* The client of lab10 (zad1: UDP, zad2: TCP; this code is the same): the  *)
(* io thread reads lines into a buffer and raises SIGUSR1 at the main      *)
(* thread, whose handler copies the buffer and sends the copies.           *)
(*                                                                         *)
(*   io:       read -> lock -> append -> unlock -> kill -> read            *)
(*   handler:  idle -> test -> lock -> copy -> unlock -> send -> idle      *)
(*   main:     select -> recv -> select                                    *)
(*                                                                         *)
(* The handler runs in the main thread, which stands still meanwhile.  A   *)
(* line is the ordinal of its typing.                                      *)
(***************************************************************************)
EXTENDS Integers, Sequences

CONSTANTS BufSize,     \* the initial message_buff_size
          MaxLines,    \* bound: how many lines are typed
          MaxIncoming  \* bound: how many messages the server sends

Blank == 0             \* an empty string

VARIABLES messages,    \* the buffer
          waiting,     \* messages_waiting
          mutex,       \* data_buffer_mutex: "io", "handler" or "nobody"
          io,          \* where the io thread stands
          line,        \* the line it holds in msg_with_header
          typed,       \* how many lines were typed
          pending,     \* SIGUSR1 is pending for the main thread
          handler,     \* where the handler stands
          num,         \* its num_msgs_to_send
          copies,      \* its msgs_cpy
          k,           \* the copy it sends next
          outgoing,    \* history: what was sent, in order
          taken,       \* history: how many lines have left the buffer
          main,        \* where sender_receiver_fun stands
          arrived,     \* messages that have come from the server
          printed,     \* messages that were printed
          closed       \* the server has closed the connection

iovars == <<io, line, typed>>
handlervars == <<handler, num, copies, k>>
mainvars == <<main, arrived, printed, closed>>
clientVars == <<messages, waiting, mutex, iovars, pending, handlervars, outgoing, taken, mainvars>>

ClientInit ==
  /\ messages = [n \in 1 .. BufSize |-> Blank]
  /\ waiting = 0
  /\ mutex = "nobody"
  /\ io = "read" /\ line = Blank /\ typed = 0
  /\ pending = FALSE
  /\ handler = "idle" /\ num = 0 /\ copies = <<>> /\ k = 1
  /\ outgoing = <<>>
  /\ taken = 0
  /\ main = "select" /\ arrived = 0 /\ printed = 0 /\ closed = FALSE

Crashed == io = "crashed"
Exited == main = "exited"
Running == ~Crashed /\ ~Exited

-----------------------------------------------------------------------------
(* stdin_read_fun: a line is typed...                                      *)
ReadLine ==
  /\ io = "read"
  /\ typed < MaxLines
  /\ typed' = typed + 1
  /\ line' = typed + 1
  /\ io' = "lock"
  /\ UNCHANGED <<messages, waiting, mutex, pending, handlervars, outgoing, taken, mainvars>>

IoLock ==
  /\ io = "lock" /\ mutex = "nobody"
  /\ mutex' = "io"
  /\ io' = "append"
  /\ UNCHANGED <<messages, waiting, line, typed, pending, handlervars, outgoing, taken, mainvars>>

FullOneLater == waiting > BufSize        \* planted defect: off by one
Full == waiting = BufSize

(* ... and appended.  On a full buffer enlarge_msg_buff doubles the size   *)
(* before it copies, reads as many pointers again past the end of the old  *)
(* array, and copies from and frees what it finds there: the process dies. *)
AppendLine ==
  /\ io = "append"
  /\ IF Full
     THEN io' = "crashed" /\ UNCHANGED <<messages, waiting>>
     ELSE /\ messages' = [messages EXCEPT ![waiting + 1] = line]
          /\ waiting' = waiting + 1
          /\ io' = "unlock"
  /\ UNCHANGED <<mutex, line, typed, pending, handlervars, outgoing, taken, mainvars>>

IoUnlock ==
  /\ io = "unlock"
  /\ mutex' = "nobody"
  /\ io' = "kill"
  /\ UNCHANGED <<messages, waiting, line, typed, pending, handlervars, outgoing, taken, mainvars>>

RaisedIfIdle == handler = "idle"         \* planted defect: dropped during the handler
Raised == TRUE

(* pthread_kill: one more SIGUSR1 makes no difference to a pending one.    *)
Kill ==
  /\ io = "kill"
  /\ pending' = (pending \/ Raised)
  /\ io' = "read"
  /\ UNCHANGED <<messages, waiting, mutex, line, typed, handlervars, outgoing, taken, mainvars>>

-----------------------------------------------------------------------------
(* A signal that comes while the main thread sleeps in select makes it     *)
(* return EINTR, and the loop goes round.                                  *)
ExitIfInSelect == IF main = "select" THEN "exited" ELSE main   \* planted defect: EINTR ends it
AfterSignal == main

(* The signal is delivered, unless its handler runs (it is in sa_mask).    *)
Deliver ==
  /\ handler = "idle" /\ pending
  /\ pending' = FALSE
  /\ handler' = "test"
  /\ main' = AfterSignal
  /\ UNCHANGED <<messages, waiting, mutex, iovars, num, copies, k, outgoing, taken>>
  /\ UNCHANGED <<arrived, printed, closed>>

WholeBuffer == BufSize                   \* planted defect: the size, not the count
NumToSend == waiting

(* messages_waiting is read before the mutex is taken.                     *)
TestWaiting ==
  /\ handler = "test"
  /\ num' = NumToSend
  /\ handler' = IF waiting = 0 THEN "idle" ELSE "lock"
  /\ UNCHANGED <<messages, waiting, mutex, iovars, pending, copies, k, outgoing, taken, mainvars>>

HandlerLock ==
  /\ handler = "lock" /\ mutex = "nobody"
  /\ mutex' = "handler"
  /\ handler' = "copy"
  /\ UNCHANGED <<messages, waiting, iovars, pending, num, copies, k, outgoing, taken, mainvars>>

(* The loop that copies message i and blanks message 1 (of 0, 1, ...), so  *)
(* that the second one is blank by the time it is copied.                  *)
Copied(n) == IF n = 2 THEN Blank ELSE messages[n]

Kept == waiting                          \* planted defect: no reset
Emptied == 0

CopyAll ==
  /\ handler = "copy"
  /\ copies' = [n \in 1 .. waiting |-> Copied(n)]
  /\ messages' = [messages EXCEPT ![2] = Blank]
  /\ taken' = taken + waiting
  /\ waiting' = Emptied
  /\ handler' = "unlock"
  /\ UNCHANGED <<mutex, iovars, pending, num, k, outgoing, mainvars>>

HandlerUnlock ==
  /\ handler = "unlock"
  /\ mutex' = "nobody"
  /\ k' = 1
  /\ handler' = "send"
  /\ UNCHANGED <<messages, waiting, iovars, pending, num, copies, outgoing, taken, mainvars>>

SendOne ==
  /\ handler = "send" /\ k <= num
  /\ outgoing' = Append(outgoing, copies[k])
  /\ k' = k + 1
  /\ UNCHANGED <<messages, waiting, mutex, iovars, pending, handler, num, copies, taken, mainvars>>

Return ==
  /\ handler = "send" /\ k > num
  /\ copies' = <<>>
  /\ handler' = "idle"
  /\ UNCHANGED <<messages, waiting, mutex, iovars, pending, num, k, outgoing, taken, mainvars>>

-----------------------------------------------------------------------------
(* sender_receiver_fun: select returns when there is something to read,    *)
(* be it the end of the connection.                                        *)
ClientSelect ==
  /\ handler = "idle"
  /\ main = "select" /\ (printed < arrived \/ closed)
  /\ main' = "recv"
  /\ UNCHANGED <<messages, waiting, mutex, iovars, pending, handlervars, outgoing, taken>>
  /\ UNCHANGED <<arrived, printed, closed>>

(* One message is received and printed; at the end of the connection the   *)
(* process exits, with whatever is still in the buffer.                    *)
Recv ==
  /\ handler = "idle"
  /\ main = "recv"
  /\ IF printed < arrived
     THEN printed' = printed + 1 /\ main' = "select"
     ELSE main' = "exited" /\ UNCHANGED printed
  /\ UNCHANGED <<messages, waiting, mutex, iovars, pending, handlervars, outgoing, taken>>
  /\ UNCHANGED <<arrived, closed>>

(* The server sends a message, or closes the connection.                   *)
Arrive ==
  /\ arrived < MaxIncoming /\ ~closed
  /\ arrived' = arrived + 1
  /\ UNCHANGED <<messages, waiting, mutex, iovars, pending, handlervars, outgoing, taken>>
  /\ UNCHANGED <<main, printed, closed>>

CloseConnection ==
  /\ ~closed
  /\ closed' = TRUE
  /\ UNCHANGED <<messages, waiting, mutex, iovars, pending, handlervars, outgoing, taken>>
  /\ UNCHANGED <<main, arrived, printed>>

IoStep == Running /\ (IoLock \/ AppendLine \/ IoUnlock \/ Kill)
HandlerStep == /\ Running
               /\ \/ Deliver \/ TestWaiting \/ HandlerLock \/ CopyAll \/ HandlerUnlock
                  \/ SendOne \/ Return
MainStep == Running /\ (ClientSelect \/ Recv)
Environment == Running /\ (ReadLine \/ Arrive \/ CloseConnection)

ClientNext == IoStep \/ HandlerStep \/ MainStep \/ Environment

ClientSpec == ClientInit /\ [][ClientNext]_clientVars

(* Both threads are scheduled; nobody has to type, to send or to close,    *)
(* and lines and messages come in bounded number.  The handler competes    *)
(* for the mutex with a thread that leaves it alone between two lines.     *)
ClientFairness == WF_clientVars(IoStep) /\ WF_clientVars(HandlerStep) /\ WF_clientVars(MainStep)

-----------------------------------------------------------------------------
ClientTypeOK ==
  /\ messages \in [1 .. BufSize -> 0 .. MaxLines]
  /\ waiting \in 0 .. BufSize
  /\ mutex \in {"io", "handler", "nobody"}
  /\ io \in {"read", "lock", "append", "unlock", "kill", "crashed"}
  /\ line \in 0 .. MaxLines /\ typed \in 0 .. MaxLines
  /\ pending \in BOOLEAN
  /\ handler \in {"idle", "test", "lock", "copy", "unlock", "send"}
  /\ num \in 0 .. BufSize
  /\ k \in 1 .. BufSize + 1
  /\ taken \in 0 .. MaxLines
  /\ main \in {"select", "recv", "exited"}
  /\ printed \in 0 .. arrived /\ arrived \in 0 .. MaxIncoming /\ closed \in BOOLEAN

(* What is sent is sent in the order of typing, and no line goes out twice,*)
(* however the appends and the handler interleave.                         *)
SentInOrder ==
  \A m, n \in DOMAIN outgoing :
    m < n /\ outgoing[m] # Blank /\ outgoing[n] # Blank => outgoing[m] < outgoing[n]

(* The handler never sends a copy it has not made: the number it read      *)
(* without the mutex is not above the number of copies.                    *)
NoUnmadeCopy == handler = "send" => num <= Len(copies)

(* The lines that go out are the lines typed, each once and in order, and  *)
(* no entry goes out that was never copied from the buffer.                *)
ClientSound == ClientTypeOK /\ SentInOrder /\ NoUnmadeCopy

(* "if we got interrupted by signal, it's OK - just signal handler sent    *)
(* message": every line that is typed leaves the buffer, because a signal  *)
(* follows each append and none is lost while the handler runs - unless    *)
(* the buffer overflows first or the connection ends.                      *)
EveryLineIsTaken ==
  (taken < typed) ~> (taken = typed \/ Crashed \/ closed)

(* The other half of that comment: a signal does not keep the main thread  *)
(* from receiving.  What the server sent before it closed is printed.      *)
EveryMessageIsPrinted ==
  (printed < arrived) ~> (printed = arrived \/ Crashed)
=============================================================================
