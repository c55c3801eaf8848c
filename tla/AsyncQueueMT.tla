---------------------------- MODULE AsyncQueueMT ----------------------------
(***************************************************************************)
(* dueca/AsyncQueueMT.hxx with its stack of spare elements,                *)
(* dueca/LockFreeLIFO.hxx.  Any number of threads write, one thread reads. *)
(* Every load, store and compare-and-swap on shared memory is a step of    *)
(* its own; elements are numbered in the order in which they were          *)
(* allocated and are recycled through the spares, never freed while the    *)
(* queue lives.                                                            *)
(***************************************************************************)
EXTENDS Integers, Sequences, FiniteSets

CONSTANTS
  Writers,       \* threads that write
  Reader,        \* the one thread that reads
  TagModulus,    \* values of the count in the spare bits of LIFO_element (2^16)
  SizeModulus,   \* values of the unsigned int that size() returns (2^32)
  MaxGets,       \* bound: calls of getSpare()
  Share          \* bound: calls of getSpare() by each writer

ASSUME QueueAssumption ==
  /\ Reader \notin Writers
  /\ TagModulus \in Nat \ {0}
  /\ SizeModulus \in Nat \ {0}
  /\ MaxGets \in Nat
  /\ IsFiniteSet(Writers)
  /\ Share \in [Writers -> 0 .. MaxGets]

Threads == Writers \cup {Reader}
NULL    == 0
Cells   == 1 .. (MaxGets + 1)
Ptr     == Cells \cup {NULL}

\* What is written: the writing thread and the number of its getSpare() call,
\* so that no two writes are alike.
Messages == Writers \X (1 .. MaxGets)
NoData   == <<>>

VARIABLES
  next,       \* Element::next of every element
  data,       \* Element::data
  heap,       \* number of elements allocated so far
  Lf,         \* LockFreeLIFO::Lf, pointer and count
  data_head,  \* AsyncQueueMT::data_head
  data_tail,  \* AsyncQueueMT::data_tail
  entered,    \* AsyncQueueMT::entered
  removed,    \* AsyncQueueMT::removed
  pc,         \* where each thread is
  cell,       \* the element a thread has to itself (newtail, tmphead, cell)
  top,        \* `current`, a thread's copy of Lf
  link,       \* next.head read by pop(), or the count read by push()
  tail,       \* tmptail of a writer
  got,        \* element returned by the reader's last getHead(), or NULL
  gets,       \* bound: calls of getSpare() so far, and of each writer
  line,       \* history: the elements from data_head to data_tail, in order
  spares,     \* history: the elements on the stack, from its top
  pops,       \* history: elements taken from the stack so far
  seen        \* history: what pops was when the thread copied Lf

vars == <<next, data, heap, Lf, data_head, data_tail, entered, removed,
          pc, cell, top, link, tail, got, gets, line, spares, pops, seen>>

queueVars == <<data_head, data_tail, entered, removed, line>>
stackVars == <<Lf, spares, pops>>

Init ==                            \* constructor, init_list
  /\ next = [c \in Cells |-> NULL]
  /\ data = [c \in Cells |-> NoData]
  /\ heap = 1
  /\ Lf = [head |-> NULL, count |-> 0]
  /\ data_head = 1
  /\ data_tail = 1
  /\ entered = 0
  /\ removed = 0
  /\ pc = [t \in Threads |-> "idle"]
  /\ cell = [t \in Threads |-> NULL]
  /\ top = [t \in Threads |-> [head |-> NULL, count |-> 0]]
  /\ link = [t \in Threads |-> 0]
  /\ tail = [t \in Writers |-> NULL]
  /\ got = NULL
  /\ gets = [all |-> 0, of |-> [t \in Writers |-> 0]]
  /\ line = <<1>>
  /\ spares = <<>>
  /\ pops = 0
  /\ seen = [t \in Threads |-> 0]

Places == {"idle", "popLoad", "popNext", "popSwap", "construct", "fill",
           "loadTail", "swapTail", "linkTail", "count", "pushLoad", "pushCount",
           "pushSwap", "countOut"}

Goto(t, place) == pc' = [pc EXCEPT ![t] = place]

-----------------------------------------------------------------------------
(* getSpare(): LockFreeLIFO::pop(), and the allocator when it gives NULL.  *)

GetSpare(w) ==
  /\ pc[w] = "idle"
  /\ gets.all < MaxGets
  /\ gets.of[w] < Share[w]
  /\ gets' = [all |-> gets.all + 1, of |-> [gets.of EXCEPT ![w] = @ + 1]]
  /\ Goto(w, "popLoad")
  /\ UNCHANGED <<next, data, heap, stackVars, cell, top, link, tail, got,
                 queueVars, seen>>

PopLoad(w) ==
  /\ pc[w] = "popLoad"
  /\ top' = [top EXCEPT ![w] = Lf]
  /\ seen' = [seen EXCEPT ![w] = pops]
  /\ IF Lf.head # NULL
     THEN /\ Goto(w, "popNext")
          /\ UNCHANGED <<heap, cell, next>>
     ELSE /\ heap' = heap + 1
          /\ cell' = [cell EXCEPT ![w] = heap + 1]
          /\ next' = [next EXCEPT ![heap + 1] = NULL]
          /\ Goto(w, "fill")
  /\ UNCHANGED <<data, stackVars, link, tail, got, gets, queueVars>>

\* res->next, which another thread may have popped and be using by now
PopNext(w) ==
  /\ pc[w] = "popNext"
  /\ link' = [link EXCEPT ![w] = next[top[w].head]]
  /\ Goto(w, "popSwap")
  /\ UNCHANGED <<next, data, heap, stackVars, cell, top, tail, got, gets,
                 queueVars, seen>>

\* slips: the count is not incremented, or not cut to its width
PopSwapSameCount(w) ==
  /\ pc[w] = "popSwap"
  /\ IF Lf = top[w]
     THEN /\ Lf' = [head |-> link[w], count |-> top[w].count]
          /\ spares' = Tail(spares)
          /\ pops' = pops + 1
          /\ cell' = [cell EXCEPT ![w] = top[w].head]
          /\ Goto(w, "construct")
     ELSE /\ Goto(w, "popLoad")
          /\ UNCHANGED <<stackVars, cell>>
  /\ UNCHANGED <<next, data, heap, top, link, tail, got, gets, queueVars,
                 seen>>
PopSwapWide(w) ==
  /\ pc[w] = "popSwap"
  /\ Lf = top[w]
  /\ Lf' = [head |-> link[w], count |-> top[w].count + 1]
  /\ spares' = Tail(spares)
  /\ pops' = pops + 1
  /\ cell' = [cell EXCEPT ![w] = top[w].head]
  /\ Goto(w, "construct")
  /\ UNCHANGED <<next, data, heap, top, link, tail, got, gets, queueVars,
                 seen>>

PopSwap(w) ==
  /\ pc[w] = "popSwap"
  /\ IF Lf = top[w]
     THEN /\ Lf' = [head |-> link[w], count |-> (top[w].count + 1) % TagModulus]
          /\ spares' = Tail(spares)
          /\ pops' = pops + 1
          /\ cell' = [cell EXCEPT ![w] = top[w].head]
          /\ Goto(w, "construct")
     ELSE /\ Goto(w, "popLoad")
          /\ UNCHANGED <<stackVars, cell>>
  /\ UNCHANGED <<next, data, heap, top, link, tail, got, gets, queueVars,
                 seen>>

\* placement new of the element, next(NULL), data()
Construct(w) ==
  /\ pc[w] = "construct"
  /\ next' = [next EXCEPT ![cell[w]] = NULL]
  /\ data' = [data EXCEPT ![cell[w]] = NoData]
  /\ Goto(w, "fill")
  /\ UNCHANGED <<heap, stackVars, cell, top, link, tail, got, gets,
                 queueVars, seen>>

-----------------------------------------------------------------------------
(* The writer's data goes into the element, then writeTail().              *)

Fill(w) ==
  /\ pc[w] = "fill"
  /\ data' = [data EXCEPT ![cell[w]] = <<w, gets.of[w]>>]
  /\ Goto(w, "loadTail")
  /\ UNCHANGED <<next, heap, stackVars, cell, top, link, tail, got, gets,
                 queueVars, seen>>

LoadTail(w) ==
  /\ pc[w] = "loadTail"
  /\ tail' = [tail EXCEPT ![w] = data_tail]
  /\ Goto(w, "swapTail")
  /\ UNCHANGED <<next, data, heap, stackVars, cell, top, link, got, gets,
                 queueVars, seen>>

\* slip: a store instead of the compare-and-swap
SwapTailStore(w) ==
  /\ pc[w] = "swapTail"
  /\ data_tail' = cell[w]
  /\ line' = Append(line, cell[w])
  /\ Goto(w, "linkTail")
  /\ UNCHANGED <<next, data, heap, stackVars, data_head, entered, removed,
                 cell, top, link, tail, got, gets, seen>>

SwapTail(w) ==
  /\ pc[w] = "swapTail"
  /\ IF data_tail = tail[w]
     THEN /\ data_tail' = cell[w]
          /\ line' = Append(line, cell[w])
          /\ Goto(w, "linkTail")
     ELSE /\ Goto(w, "loadTail")
          /\ UNCHANGED <<data_tail, line>>
  /\ UNCHANGED <<next, data, heap, stackVars, data_head, entered, removed,
                 cell, top, link, tail, got, gets, seen>>

\* slip: links to what is the tail by now
LinkTailNew(w) ==
  /\ pc[w] = "linkTail"
  /\ next' = [next EXCEPT ![data_tail] = cell[w]]
  /\ cell' = [cell EXCEPT ![w] = NULL]
  /\ Goto(w, "count")
  /\ UNCHANGED <<data, heap, stackVars, top, link, tail, got, gets,
                 queueVars, seen>>

LinkTail(w) ==
  /\ pc[w] = "linkTail"
  /\ next' = [next EXCEPT ![tail[w]] = cell[w]]
  /\ cell' = [cell EXCEPT ![w] = NULL]
  /\ Goto(w, "count")
  /\ UNCHANGED <<data, heap, stackVars, top, link, tail, got, gets,
                 queueVars, seen>>

CountEntered(w) ==
  /\ pc[w] = "count"
  /\ entered' = entered + 1
  /\ Goto(w, "idle")
  /\ UNCHANGED <<next, data, heap, stackVars, data_head, data_tail, removed,
                 line, cell, top, link, tail, got, gets, seen>>

-----------------------------------------------------------------------------
(* LockFreeLIFO::push(), by the reader for the old head, or by a writer    *)
(* that hands its element back unused (return_list_elt).                   *)

ReturnElt(w) ==
  /\ pc[w] = "fill"
  /\ Goto(w, "pushLoad")
  /\ UNCHANGED <<next, data, heap, stackVars, cell, top, link, tail, got,
                 gets, queueVars, seen>>

PushLoad(t) ==
  /\ pc[t] = "pushLoad"
  /\ top' = [top EXCEPT ![t] = Lf]
  /\ seen' = [seen EXCEPT ![t] = pops]
  /\ Goto(t, "pushCount")
  /\ UNCHANGED <<next, data, heap, stackVars, cell, link, tail, got, gets,
                 queueVars>>

\* next.d.count is a second load of Lf; cell->next comes from the first one
PushCount(t) ==
  /\ pc[t] = "pushCount"
  /\ link' = [link EXCEPT ![t] = Lf.count]
  /\ next' = [next EXCEPT ![cell[t]] = top[t].head]
  /\ Goto(t, "pushSwap")
  /\ UNCHANGED <<data, heap, stackVars, cell, top, tail, got, gets,
                 queueVars, seen>>

PushSwap(t) ==
  /\ pc[t] = "pushSwap"
  /\ IF Lf = top[t]
     THEN /\ Lf' = [head |-> cell[t], count |-> link[t]]
          /\ spares' = <<cell[t]>> \o spares
          /\ cell' = [cell EXCEPT ![t] = NULL]
          /\ Goto(t, IF t = Reader THEN "countOut" ELSE "idle")
     ELSE /\ Goto(t, "pushLoad")
          /\ UNCHANGED <<Lf, spares, cell>>
  /\ UNCHANGED <<next, data, heap, top, link, tail, got, gets, queueVars,
                 seen, pops>>

-----------------------------------------------------------------------------
(* The reader: getHead().                                                  *)

GetHeadEmpty ==
  /\ pc[Reader] = "idle"
  /\ next[data_head] = NULL
  /\ got' = NULL
  /\ UNCHANGED <<next, data, heap, stackVars, pc, cell, top, link, tail,
                 gets, queueVars, seen>>

\* slip: elements taken out are not counted
CountRemovedNot ==
  /\ pc[Reader] = "countOut"
  /\ Goto(Reader, "idle")
  /\ UNCHANGED <<next, data, heap, stackVars, cell, top, link, tail, got,
                 gets, queueVars, seen>>

GetHead ==
  /\ pc[Reader] = "idle"
  /\ next[data_head] # NULL
  /\ data_head' = next[data_head]
  /\ got' = next[data_head]
  /\ cell' = [cell EXCEPT ![Reader] = data_head]
  /\ line' = Tail(line)
  /\ Goto(Reader, "pushLoad")
  /\ UNCHANGED <<next, data, heap, stackVars, data_tail, entered, removed,
                 top, link, tail, gets, seen>>

CountRemoved ==
  /\ pc[Reader] = "countOut"
  /\ removed' = removed + 1
  /\ Goto(Reader, "idle")
  /\ UNCHANGED <<next, data, heap, stackVars, data_head, data_tail, entered,
                 line, cell, top, link, tail, got, gets, seen>>

-----------------------------------------------------------------------------
WriterStep(w) ==
  \/ GetSpare(w)
  \/ PopLoad(w)
  \/ PopNext(w)
  \/ PopSwap(w)
  \/ Construct(w)
  \/ Fill(w)
  \/ LoadTail(w)
  \/ SwapTail(w)
  \/ LinkTail(w)
  \/ CountEntered(w)
  \/ ReturnElt(w)
  \/ PushLoad(w)
  \/ PushCount(w)
  \/ PushSwap(w)

ReaderStep ==
  \/ GetHeadEmpty
  \/ GetHead
  \/ PushLoad(Reader)
  \/ PushCount(Reader)
  \/ PushSwap(Reader)
  \/ CountRemoved

Next == ReaderStep \/ \E w \in Writers : WriterStep(w)

Spec == Init /\ [][Next]_vars

(* Threads are scheduled: an operation that was begun goes on, and the     *)
(* reader keeps polling.  Nobody is obliged to start a write.              *)
Fairness ==
  /\ \A w \in Writers : WF_vars(pc[w] # "idle" /\ WriterStep(w))
  /\ WF_vars(ReaderStep)

FairSpec == Spec /\ Fairness

-----------------------------------------------------------------------------
(* size(), as an unsigned int: 64-bit entered minus removed, cut down.     *)
Size == (entered - removed) % SizeModulus

InLine == {line[i] : i \in DOMAIN line}
Spares == {spares[i] : i \in DOMAIN spares}

\* Threads with an element that is neither in the queue nor with the spares.
Holders == {t \in Threads : cell[t] # NULL /\ pc[t] # "linkTail"}

-----------------------------------------------------------------------------
\* No element twice.
Distinct(s) == \A i, j \in DOMAIN s : s[i] = s[j] => i = j

\* Lf and the next pointers lead along the spares, to NULL behind the last.
StackLinked ==
  /\ Lf.head = IF spares = <<>> THEN NULL ELSE spares[1]
  /\ \A i \in DOMAIN spares :
       next[spares[i]] = IF i = Len(spares) THEN NULL ELSE spares[i + 1]

(* Every variable stays in the range the declarations of AsyncQueueMT and  *)
(* LockFreeLIFO give it.                                                   *)
TypeOK ==
  /\ next \in [Cells -> Ptr]
  /\ data \in [Cells -> Messages \cup {NoData}]
  /\ heap \in Cells
  /\ Lf \in [head : Ptr, count : 0 .. (TagModulus - 1)]
  /\ data_head \in Cells
  /\ data_tail \in Cells
  /\ entered \in Nat
  /\ removed \in Nat
  /\ pc \in [Threads -> Places]
  /\ cell \in [Threads -> Ptr]
  /\ top \in [Threads -> [head : Ptr, count : 0 .. (TagModulus - 1)]]
  /\ link \in [Threads -> Nat]
  /\ tail \in [Writers -> Ptr]
  /\ got \in Ptr
  /\ gets \in [all : 0 .. MaxGets, of : [Writers -> 0 .. MaxGets]]
  /\ line \in Seq(Cells)
  /\ spares \in Seq(Cells)
  /\ pops \in Nat
  /\ seen \in [Threads -> Nat]

(* Every allocated element is in exactly one place: in the queue, with the *)
(* spares, or with one thread.  It fails when pop() hands one element to   *)
(* two threads or loses the rest of the stack (the ABA problem that the    *)
(* count in LIFO_element is there to prevent), and when getHead() recycles *)
(* an element that a writer between its swap of data_tail and its store to *)
(* tmptail->next still has to store into.                                  *)
OnePlaceEach ==
  /\ StackLinked
  /\ Distinct(line) /\ Distinct(spares)
  /\ \A t, u \in Holders : cell[t] = cell[u] => t = u
  /\ InLine \cap Spares = {}
  /\ \A t \in Holders : cell[t] \notin InLine \cup Spares
  /\ InLine \cup Spares \cup {cell[t] : t \in Holders} = 1 .. heap

(* size() is exact whenever no thread is inside an operation, however many *)
(* operations overlapped before.                                           *)
SizeWhenQuiet ==
  (\A t \in Threads : pc[t] \in {"idle", "popLoad", "fill"})
     => Size = Len(line) - 1

(* The reader finds the messages in the order in which the writers' swaps  *)
(* of data_tail succeeded, each once, with the data that was written; a    *)
(* writer that has not yet linked its element delays what comes after it.  *)
Fifo == INSTANCE AsyncFifo WITH
  queue <- [i \in 1 .. (Len(line) - 1) |-> data[line[i + 1]]],
  shown <- [i \in 1 .. (Len(line) - 1) |-> next[line[i]] # NULL],
  taken <- IF got = NULL THEN <<>> ELSE <<data[got]>>

ImplementsFifo == Fifo!Spec

(* What was put in the queue is read, even when another writer is slow to  *)
(* link the element in front of it: the threads that began a write finish. *)
EverythingRead ==
  \A m \in Messages :
    (\E i \in 2 .. Len(line) : data[line[i]] = m)
      ~> (got # NULL /\ data[got] = m)
=============================================================================
