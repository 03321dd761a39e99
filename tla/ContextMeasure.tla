--------------------------- MODULE ContextMeasure ---------------------------
(***************************************************************************)
(* The measurement of a context switch.  main-from.cc writes the clock and *)
(* a counter into one word of shared memory, over and over; main-to-clear  *)
(* and main-to-set, on the same CPU, read the word, take the difference to *)
(* the clock for a sample if the counter has changed, and yield.  Either   *)
(* may lose the CPU between any two of its steps.                          *)
(*                                                                         *)
(* The counter has 16 bits of the word and the clock shares the word with  *)
(* it.  The writer may be killed, and then leaves the memory; or it may be *)
(* interrupted, and then unlinks it, and the next writer creates another.  *)
(***************************************************************************)
EXTENDS Integers

CONSTANTS
  Counters,      (* 2^16: the counters that fit into a word                *)
  Stamps,        (* 2^48: the clock's values that do                       *)
  Samples,       (* NO_SAMPLES                                             *)
  MaxClock,      (* bounds the clock                                       *)
  MaxSegments    (* bounds how often the memory is created                 *)

ASSUME ContextAssumption ==
  /\ \E bits \in 0..16 : Counters = 2^bits
  /\ Stamps \in Nat \ {0}
  /\ Samples \in Nat /\ MaxClock \in Nat /\ MaxSegments \in Nat

VARIABLES
  clock,         (* what rdtsc() returns next                              *)
  linked,        (* the segment that has the name SHM_NAME, or 0           *)
  segments,      (* how many have been created                             *)
  memory,        (* the word of each segment                               *)
  writer,        (* what the writer does next: "off", "stamp" or "store"   *)
  writerAt,      (* the segment that it is attached to                     *)
  counter,       (* counter                                                *)
  value,         (* tmp and value                                          *)
  reader,        (* what a reader does next: "off", "load", "clock", "test" *)
  readerAt,      (* the segment that it is attached to                     *)
  word,          (* current                                                *)
  now,           (* now                                                    *)
  prevCounter,   (* prev_counter                                           *)
  samples,       (* how many samples it has                                *)
  sample,        (* the sample it has printed last; see TakeSample         *)
  (* History variables:                                                    *)
  writerRan,     (* the clock when the last writer last ran                *)
  gapFrom        (* writerRan when the reader has loaded current           *)

writerVars  == <<writer, writerAt, counter, value>>
readerVars  == <<reader, readerAt, word, now, prevCounter, samples, sample, gapFrom>>
segmentVars == <<linked, segments, memory>>
contextVars == <<clock, segmentVars, writerVars, readerVars, writerRan>>

\* Memory that was just created.  For the properties, a word has the full value
\* of the clock.
Zero == [counter |-> 0, stamp |-> 0, clock |-> 0]

NoSample == [delta |-> 0, clock |-> 0, now |-> 0, gap |-> 0]

ContextIdle ==
  /\ linked = 0
  /\ segments = 0
  /\ memory = [s \in 1..MaxSegments |-> Zero]
  /\ writer = "off"
  /\ writerAt = 0
  /\ counter = 0
  /\ value = Zero
  /\ reader = "off"
  /\ readerAt = 0
  /\ word = Zero
  /\ now = 0
  /\ prevCounter = 0
  /\ samples = 0
  /\ sample = NoSample
  /\ writerRan = 0
  /\ gapFrom = 0

ContextInit == clock = 1 /\ ContextIdle

\* rdtsc() never returns the same value twice.
Rdtsc == clock < MaxClock /\ clock' = clock + 1

-----------------------------------------------------------------------------
(* main-from.cc                                                            *)

\* map_shm(true) opens the segment, or creates one.
StartWriter ==
  /\ writer = "off"
  /\ IF linked # 0
     THEN writerAt' = linked /\ UNCHANGED segmentVars
     ELSE /\ segments < MaxSegments
          /\ segments' = segments + 1
          /\ linked' = segments'
          /\ writerAt' = segments'
          /\ UNCHANGED memory
  /\ writer' = "stamp"
  /\ writerRan' = clock
  /\ UNCHANGED <<clock, counter, value, readerVars>>

\* The bitwise or of what has a place in the word's bits for the counter.
Bit(a, i) == (a \div 2^i) % 2
Or(a, b)  ==
  CHOOSE r \in 0..(Counters - 1) :
    \A i \in {n \in 0..15 : 2^n < Counters} :
      Bit(r, i) = 1 <=> Bit(a, i) = 1 \/ Bit(b, i) = 1

\* rdtsc() | ((counter++) << 48)
Stamp ==
  /\ writer = "stamp"
  /\ Rdtsc
  /\ value' = [counter |-> Or(counter, clock \div Stamps),
               stamp   |-> clock % Stamps,
               clock   |-> clock]
  /\ counter' = (counter + 1) % Counters
  /\ writer' = "store"
  /\ writerRan' = clock'
  /\ UNCHANGED <<segmentVars, writerAt, readerVars>>

Store ==
  /\ writer = "store"
  /\ memory' = [memory EXCEPT ![writerAt] = value]
  /\ value' = Zero
  /\ writer' = "stamp"
  /\ writerRan' = clock
  /\ UNCHANGED <<clock, linked, segments, writerAt, counter, readerVars>>

\* SIGINT: sigint_handler() unlinks the memory.  A killed writer leaves it.
EndWriter ==
  /\ writer # "off"
  /\ linked' \in {linked, 0}
  /\ writer' = "off"
  /\ writerAt' = 0
  /\ counter' = 0
  /\ value' = Zero
  /\ UNCHANGED <<clock, segments, memory, readerVars, writerRan>>

-----------------------------------------------------------------------------
(* main-to-clear.cc and main-to-set.cc                                     *)

\* Faulty variant: the reader starts with a counter that no word has.
StartReaderAny ==
  /\ reader = "off"
  /\ linked # 0
  /\ reader' = "load"
  /\ readerAt' = linked
  /\ prevCounter' = Counters
  /\ samples' = 0
  /\ sample' = NoSample
  /\ UNCHANGED <<clock, segmentVars, writerVars, word, now, gapFrom, writerRan>>

\* map_shm(false) fails if there is no segment.
StartReader ==
  /\ reader = "off"
  /\ linked # 0
  /\ reader' = "load"
  /\ readerAt' = linked
  /\ prevCounter' = 0
  /\ samples' = 0
  /\ sample' = NoSample
  /\ UNCHANGED <<clock, segmentVars, writerVars, word, now, gapFrom, writerRan>>

Load ==
  /\ reader = "load"
  /\ word' = memory[readerAt]
  /\ gapFrom' = writerRan
  /\ reader' = "clock"
  /\ UNCHANGED <<clock, segmentVars, writerVars, readerAt, now, prevCounter,
                 samples, sample, writerRan>>

ReadClock ==
  /\ reader = "clock"
  /\ Rdtsc
  /\ now' = clock
  /\ reader' = "test"
  /\ UNCHANGED <<segmentVars, writerVars, readerAt, word, prevCounter,
                 samples, sample, gapFrom, writerRan>>

\* Faulty variant: the word is read again for the difference.
TakeSampleReread ==
  /\ reader = "test"
  /\ IF word.counter # prevCounter
     THEN /\ sample' = [delta |-> now - memory[readerAt].stamp, gap |-> now - gapFrom,
                        clock |-> word.clock, now |-> now]
          /\ prevCounter' = word.counter
          /\ samples' = samples + 1
     ELSE UNCHANGED <<sample, prevCounter, samples>>
  /\ reader' = IF samples' = Samples THEN "off" ELSE "load"
  /\ word' = Zero /\ now' = 0 /\ gapFrom' = 0
  /\ UNCHANGED <<clock, segmentVars, writerVars, readerAt, writerRan>>

\* A sample, if the counter has changed; then sched_yield(), or the end.
TakeSample ==
  /\ reader = "test"
  /\ IF word.counter # prevCounter
     THEN /\ sample' = [delta |-> now - word.stamp, gap |-> now - gapFrom,
                        clock |-> word.clock, now |-> now]
          /\ prevCounter' = word.counter
          /\ samples' = samples + 1
     ELSE UNCHANGED <<sample, prevCounter, samples>>
  /\ reader' = IF samples' = Samples THEN "off" ELSE "load"
  /\ word' = Zero /\ now' = 0 /\ gapFrom' = 0
  /\ UNCHANGED <<clock, segmentVars, writerVars, readerAt, writerRan>>

\* The reader is interrupted; the memory stays.
EndReader ==
  /\ reader # "off"
  /\ reader' = "off"
  /\ word' = Zero /\ now' = 0 /\ gapFrom' = 0
  /\ UNCHANGED <<clock, segmentVars, writerVars, readerAt, prevCounter,
                 samples, sample, writerRan>>

ContextNext ==
  \/ StartWriter \/ Stamp \/ Store \/ EndWriter
  \/ StartReader \/ Load \/ ReadClock \/ TakeSample \/ EndReader

ContextSpec == ContextInit /\ [][ContextNext]_contextVars

-----------------------------------------------------------------------------
(* Properties.                                                             *)

(***************************************************************************)
(* A reader takes no stamp for two samples, and none from memory that was  *)
(* just created: between two samples the writer has run, whatever the      *)
(* counter has wrapped to and whichever writer has been started or ended.  *)
(***************************************************************************)
OneSamplePerStamp ==
  [][samples' > samples => sample'.clock > sample.clock]_contextVars

(***************************************************************************)
(* A sample is never less than the time from the writer's last step before *)
(* the word was read to the reader's clock.  It is the time from the stamp *)
(* as long as the clock fits into its part of the word, and too much then. *)
(***************************************************************************)
NeverUnderestimates ==
  /\ sample.delta >= sample.gap
  /\ sample.clock < Stamps => sample.delta = sample.now - sample.clock
  /\ sample.clock >= Stamps => sample.delta > sample.now - sample.clock

-----------------------------------------------------------------------------
(* The inductive forms.                                                    *)

\* w is a word that a writer has made, or that of new memory.
IsWord(w) ==
  /\ w = [counter |-> w.counter, stamp |-> w.clock % Stamps, clock |-> w.clock]
  /\ w.clock \in Nat
  /\ w.clock = 0 => w.counter = 0

\* The reader has seen this word or an older one when it took its last sample.
NotBeforeSample(w) ==
  /\ sample.clock <= w.clock
  /\ sample.clock = w.clock => w.counter = prevCounter

\* The memory holds words of the past, and the one in the writer's hands is
\* newer than all of them.
WriterInv ==
  /\ clock \in Nat \ {0} /\ writerRan \in 0..clock
  /\ segments \in 0..MaxSegments /\ linked \in 0..segments
  /\ memory = [s \in 1..MaxSegments |-> memory[s]]
  /\ \A s \in 1..MaxSegments :
       IsWord(memory[s]) /\ memory[s].clock < clock /\ memory[s].clock <= writerRan
  /\ writer # "off" => writerAt \in 1..MaxSegments
  /\ writer = "store" =>
       /\ IsWord(value)
       /\ value.clock < clock
       /\ \A s \in 1..MaxSegments : memory[s].clock < value.clock

\* Neither the memory nor the word that the reader has read is older than its
\* last sample; what it compares with the word is of that sample.
ReaderInv ==
  /\ samples \in Nat /\ now \in Nat /\ gapFrom \in Nat
  /\ sample.clock \in Nat
  /\ reader # "off" => readerAt \in 1..MaxSegments /\ NotBeforeSample(memory[readerAt])
  /\ reader \in {"clock", "test"} =>
       /\ IsWord(word) /\ NotBeforeSample(word)
       /\ word.clock <= gapFrom
       /\ word.clock <= memory[readerAt].clock
       /\ word.clock = memory[readerAt].clock => word.counter = memory[readerAt].counter

ContextInv == WriterInv /\ ReaderInv /\ NeverUnderestimates
=============================================================================
