--------------------------- MODULE MCSmallPrograms --------------------------
(* Model-checking instances of the programs of lab1 to lab5 and of zad2 of *)
(* lab8.  The first state chooses the program; the others stay as they     *)
(* began.                                                                  *)
(*   list:    two lists of up to three nodes, with equal keys among them.  *)
(*   sort:    up to three records.                                         *)
(*   crawl, count: a tree of four directories, two files and a link; one   *)
(*            entry may vanish; an exit status holds two values.           *)
(*   lock:    two users and a file of up to two bytes.                     *)
(*   fork:    up to three children.                                        *)
(*   ping:    all three variants, up to three signals, of which the kernel *)
(*            queues two.                                                  *)
(*   fifo:    two writers of two lines, each up to two cells.              *)
(*   pipe:    up to three entries and pipes of one line.                   *)
(*   signals: three threads and a file of two reads.                       *)
EXTENDS SmallPrograms, TLC

CONSTANTS l1, l2

VARIABLES program,
          heap, listKey, freed, use, stack, before, lost,
          version, permit, limit, crawlGone, path, calls, indentation, opened,
          crawlPc, crawlPrinted,
          options, countGone, countPc, left, num_processes, num_files,
          child_files, status, unreaped, failed

listVars == <<heap, listKey, freed, use, stack, before, lost>>
sortVars == <<io, sortKey, file, pos, sortPc, sortLast, sortCounter, held,
              current, sortA, sortB, saved, broken>>
crawlVars == <<version, permit, limit, crawlGone, path, calls, indentation,
               opened, crawlPc, crawlPrinted>>
countVars == <<options, countGone, countPc, left, num_processes, num_files,
               child_files, status, unreaped, failed>>
lockVars == <<lock, size, lockPc, cmd, lockCounter, fileSize, lockPrinted,
              later, steady>>
forkVars == <<type, forkN, forkMain, made, forkPc, read, own, global_variable,
              forkCounter>>
pingVars == <<variant, pingN, pingPc, stage, pending1, pending2, pingCounter,
              flag, confirmation, pingI, once, unset>>
fifoVars == <<exists, fifo, reader, writer, lines, fifoLast, late>>
pipeVars == <<popen, entries, pipe1, pipe2, writers1, writers2, pipePc, count,
              dirs, gaveUp>>
signalVars == <<test, sig, signalMain, created, running, process, action,
                signalPc, mutex, offset, handling, outcome, empty>>

TwoLists == {l1, l2}
Entry(dir, kind, mode) == [in |-> dir, kind |-> kind, mode |-> mode]
SmallTree ==
  [root |-> Entry("", "dir", {}), d1 |-> Entry("root", "dir", {}),
   d2 |-> Entry("d1", "dir", {}), d3 |-> Entry("root", "dir", {}),
   f1 |-> Entry("d1", "file", {"r"}), f2 |-> Entry("d2", "file", {"r", "w"}),
   l |-> Entry("root", "link", {"w"})]

List == INSTANCE AddressList WITH
  Lists <- TwoLists, MaxNodes <- 3, MaxDepth <- 4, key <- listKey
Crawl == INSTANCE Crawler WITH
  Tree <- SmallTree, Root <- "root", Limits <- {2, 4}, MaxGone <- 1,
  gone <- crawlGone, pc <- crawlPc, printed <- crawlPrinted
Counts == INSTANCE FileCounter WITH
  Tree <- SmallTree, Root <- "root", Byte <- 2, MaxGone <- 1,
  gone <- countGone, pc <- countPc

Programs == {"list", "sort", "crawl", "count", "lock", "fork", "ping", "fifo",
             "pipe", "signals"}

AllInit == /\ program \in Programs
           /\ List!Init /\ Sort!Init /\ Crawl!Init /\ Counts!Init
           /\ Locks!Init /\ Forks!Init /\ Ping!Init /\ Fifos!Init
           /\ Pipe!Init /\ Signals!Init

Runs(p) == program = p /\ UNCHANGED program
AllNext ==
  \/ Runs("list") /\ List!Next
     /\ UNCHANGED <<sortVars, crawlVars, countVars, lockVars, forkVars,
                     pingVars, fifoVars, pipeVars, signalVars>>
  \/ Runs("sort") /\ Sort!Next
     /\ UNCHANGED <<listVars, crawlVars, countVars, lockVars, forkVars,
                     pingVars, fifoVars, pipeVars, signalVars>>
  \/ Runs("crawl") /\ Crawl!Next
     /\ UNCHANGED <<listVars, sortVars, countVars, lockVars, forkVars,
                     pingVars, fifoVars, pipeVars, signalVars>>
  \/ Runs("count") /\ Counts!Next
     /\ UNCHANGED <<listVars, sortVars, crawlVars, lockVars, forkVars,
                     pingVars, fifoVars, pipeVars, signalVars>>
  \/ Runs("lock") /\ Locks!Next
     /\ UNCHANGED <<listVars, sortVars, crawlVars, countVars, forkVars,
                     pingVars, fifoVars, pipeVars, signalVars>>
  \/ Runs("fork") /\ Forks!Next
     /\ UNCHANGED <<listVars, sortVars, crawlVars, countVars, lockVars,
                     pingVars, fifoVars, pipeVars, signalVars>>
  \/ Runs("ping") /\ Ping!Next
     /\ UNCHANGED <<listVars, sortVars, crawlVars, countVars, lockVars,
                     forkVars, fifoVars, pipeVars, signalVars>>
  \/ Runs("fifo") /\ Fifos!Next
     /\ UNCHANGED <<listVars, sortVars, crawlVars, countVars, lockVars,
                     forkVars, pingVars, pipeVars, signalVars>>
  \/ Runs("pipe") /\ Pipe!Next
     /\ UNCHANGED <<listVars, sortVars, crawlVars, countVars, lockVars,
                     forkVars, pingVars, fifoVars, signalVars>>
  \/ Runs("signals") /\ Signals!Next
     /\ UNCHANGED <<listVars, sortVars, crawlVars, countVars, lockVars,
                     forkVars, pingVars, fifoVars, pipeVars>>

allVars == <<program, listVars, sortVars, crawlVars, countVars, lockVars, forkVars,
             pingVars, fifoVars, pipeVars, signalVars>>

(* The fairness of each specification, for the program that was chosen.    *)
AllSpec ==
  /\ AllInit /\ [][AllNext]_allVars
  /\ WF_stack(program = "list" /\ List!NextCall)
  /\ WF_sortVars(program = "sort" /\ Sort!Step)
  /\ WF_countVars(program = "count" /\ \E d \in Counts!Dirs : Counts!Step(d))
  /\ WF_forkVars(program = "fork" /\ Forks!Step)
  /\ WF_signalVars(program = "signals" /\ Signals!Progress)
  /\ WF_pingVars(program = "ping" /\ Ping!Step)
  /\ WF_fifoVars(program = "fifo" /\ Fifos!ReaderStep)
  /\ \A w \in Writers :
       /\ WF_fifoVars(program = "fifo" /\ Fifos!OpenToWrite(w))
       /\ WF_fifoVars(program = "fifo" /\ Fifos!Close(w))
  /\ WF_pipeVars(program = "pipe" /\ Pipe!Next)

(* The properties of the programs in SmallPrograms hold also while another *)
(* program runs.  Address lists: no node is in two lists or freed in one,  *)
(* and the sort runs out of stack for equal keys only.                     *)
ListSound == program = "list" => /\ List!TypeOK /\ List!ListsSound
                                 /\ List!OverflowOnEqualKeys

(* Directory trees: the crawlers list every file that qualifies and        *)
(* nothing else, and a crash has one of two causes; the file counter's sum *)
(* is right modulo a byte and leaves no orphan.                            *)
TreesSound ==
  /\ program = "crawl" => /\ Crawl!TypeOK /\ Crawl!ListedRight
                          /\ Crawl!NothingLeftOut /\ Crawl!CrashesWithCause
  /\ program = "count" => /\ Counts!TypeOK /\ Counts!CountsModuloByte
                          /\ Counts!NoOrphans

(* Every program that can end does, each with the exceptions named there,  *)
(* and a sort that returns has sorted.                                     *)
ProgramsEnd ==
  /\ List!SortsRight
  /\ program = "list" => List!SortReturns
  /\ program = "sort" => Sort!SortEnds
  /\ program = "count" => Counts!RootEnds
  /\ program = "signals" => Signals!SignalIsReported
  /\ program = "ping" => Ping!RoundTripEnds
  /\ program = "fifo" => Fifos!ReaderEnds
  /\ program = "pipe" => Pipe!EveryoneEnds
=============================================================================
