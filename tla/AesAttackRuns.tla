--------------------------- MODULE AesAttackRuns ---------------------------
(***************************************************************************)
(* The FetchBench AES attack with PreFence: runscript_prefence.py, which   *)
(* builds and runs the attack again and again with new keys and files each *)
(* log under its tag and iteration, and the scripts that read those logs,  *)
(* plot_prefence.py and compute_average_runtime.py.                        *)
(*                                                                         *)
(* The script looks at no command's result.  A build may fail and leave    *)
(* the program of an earlier run; the attack may end early; gzip does not  *)
(* replace an archive that is there; and someone interrupts the script and *)
(* starts it again, with either tag.  The attack itself is external: it    *)
(* prints a summary with a line for each key byte, and in the end the time.*)
(***************************************************************************)
EXTENDS Integers, Sequences, FiniteSets

CONSTANTS
  Iterations,    (* NO_ITERATIONS                                          *)
  MaxRuns,       (* bounds how often the script is started                 *)
  KeyBytes,      (* the key bytes that a summary has                       *)
  Logs           (* what the attack may print: for each summary line the   *)
                 (* matching bits, and the minutes or that it has no end   *)

NoEnd == -1

ASSUME AesAssumption ==
  /\ Iterations \in Nat \ {0}
  /\ KeyBytes \in Nat \ {0}
  /\ \A log \in Logs :
       /\ log.bits \in Seq(0..4) /\ Len(log.bits) <= KeyBytes
       /\ log.minutes \in Nat \/ log.minutes = NoEnd
       /\ log.minutes # NoEnd => Len(log.bits) = KeyBytes

VARIABLES
  runStep,       (* what the script does next; "idle" if it is not running *)
  runNo,         (* how often it was started                               *)
  tag,           (* TAG, which prefence_state.hh is written for            *)
  iteration,     (* iteration                                              *)
  binary,        (* the attack program: the tag it was built for, and      *)
                 (* in which run                                           *)
  outLog,        (* out.log, or NoLog                                      *)
  outGz,         (* out.log.gz, or NoLog                                   *)
  archives,      (* the archives, by tag and iteration, or NoLog           *)
  report         (* what the scripts have found; see MakeReport            *)

aesVars == <<runStep, runNo, tag, iteration, binary, outLog, outGz, archives, report>>

Tags == {"with_prefetch", "without_prefetch"}

NoLog == [log |-> [bits |-> << >>, minutes |-> NoEnd],
          program |-> <<"none", 0>>, run |-> 0, filed |-> 0]

NoReport == [recovered |-> [t \in Tags |-> << >>], minutes |-> [t \in Tags |-> << >>]]

AesIdle ==
  /\ runNo = 0
  /\ tag = "with_prefetch"
  /\ iteration = 0
  /\ binary = NoLog.program
  /\ outLog = NoLog
  /\ outGz = NoLog
  /\ archives = [t \in Tags |-> [i \in 0..Iterations - 1 |-> NoLog]]
  /\ report = NoReport

AesInit == runStep = "idle" /\ AesIdle

-----------------------------------------------------------------------------
(* runscript_prefence.py                                                   *)

\* prefence_state.hh is written for the tag.
StartScript(t) ==
  /\ runStep = "idle"
  /\ runNo < MaxRuns
  /\ runStep' = "build"
  /\ runNo' = runNo + 1
  /\ tag' = t
  /\ iteration' = 0
  /\ UNCHANGED <<binary, outLog, outGz, archives, report>>

\* make fails, and there is another program or none, or it succeeds.
Build ==
  /\ runStep = "build"
  /\ binary' \in {binary, <<tag, runNo>>}
  /\ runStep' = "attack"
  /\ UNCHANGED <<runNo, tag, iteration, outLog, outGz, archives, report>>

\* Without a program, the attack prints nothing.  For the properties, a log is
\* kept with the program and the runs of the script that wrote and filed it.
Output(log) ==
  [log     |-> IF binary = NoLog.program THEN NoLog.log ELSE log,
   program |-> binary, run |-> runNo, filed |-> 0]

\* The attack runs and writes out.log.
Attack ==
  /\ runStep = "attack"
  /\ \E log \in Logs : outLog' = Output(log)
  /\ runStep' = "gzip"
  /\ UNCHANGED <<runNo, tag, iteration, binary, outGz, archives, report>>

\* gzip replaces out.log.gz only if someone tells it to.
Compress ==
  /\ runStep = "gzip"
  /\ \/ outGz' = outLog /\ outLog' = NoLog
     \/ outGz # NoLog /\ UNCHANGED <<outLog, outGz>>
  /\ runStep' = "rename"
  /\ UNCHANGED <<runNo, tag, iteration, binary, archives, report>>

\* Faulty variant: the archive is copied.
FileArchiveCopy ==
  /\ runStep = "rename"
  /\ archives' = [archives EXCEPT ![tag][iteration] = [outGz EXCEPT !.filed = runNo]]
  /\ outGz' = outGz
  /\ IF iteration + 1 < Iterations
     THEN iteration' = iteration + 1 /\ runStep' = "build"
     ELSE iteration' = 0 /\ runStep' = "idle"
  /\ UNCHANGED <<runNo, tag, binary, outLog, report>>

\* The archive gets its name, in place of an archive of an earlier run.
FileArchive ==
  /\ runStep = "rename"
  /\ archives' = [archives EXCEPT ![tag][iteration] = [outGz EXCEPT !.filed = runNo]]
  /\ outGz' = NoLog
  /\ IF iteration + 1 < Iterations
     THEN iteration' = iteration + 1 /\ runStep' = "build"
     ELSE iteration' = 0 /\ runStep' = "idle"
  /\ UNCHANGED <<runNo, tag, binary, outLog, report>>

\* Someone interrupts the script; the attack may have been running.
InterruptScript ==
  /\ runStep \in {"build", "attack", "gzip", "rename"}
  /\ \/ UNCHANGED outLog
     \/ /\ runStep = "attack"
        /\ \E log \in Logs : log.minutes = NoEnd /\
             outLog' = Output(log)
  /\ runStep' = "idle"
  /\ iteration' = 0
  /\ UNCHANGED <<runNo, tag, binary, outGz, archives, report>>

-----------------------------------------------------------------------------
(* The scripts that read the archives.                                     *)

FiledUnder(t) == {i \in DOMAIN archives[t] : archives[t][i] # NoLog}

\* Faulty variant: only the lines that are there are asked for.
RecoveredIfAll(log) ==
  IF \A i \in DOMAIN log.bits : log.bits[i] = 4 THEN 4 * KeyBytes ELSE 0

\* parse_file() of plot_prefence.py: the sum of the matching bits in whatever
\* summary lines there are.
Recovered(log) ==
  LET sum[n \in 0..Len(log.bits)] == IF n = 0 THEN 0 ELSE sum[n - 1] + log.bits[n]
  IN sum[Len(log.bits)]

\* Both scripts read all archives of both tags, and have no means without any.
\* compute_average_runtime.py fails on a log without an end.
MakeReport ==
  /\ runStep = "idle"
  /\ \A t \in Tags : FiledUnder(t) # {}
  /\ LET ended == \A t \in Tags : \A i \in FiledUnder(t) : archives[t][i].log.minutes # NoEnd
     IN report' =
          [recovered |-> [t \in Tags |-> [i \in FiledUnder(t) |-> Recovered(archives[t][i].log)]],
           minutes   |-> [t \in Tags |-> IF ended THEN [i \in FiledUnder(t) |-> archives[t][i].log.minutes]
                                         ELSE << >>]]
  /\ runStep' = "reported"
  /\ UNCHANGED <<runNo, tag, iteration, binary, outLog, outGz, archives>>

AesOver ==
  /\ runStep = "reported" \/ (runStep = "idle" /\ runNo = MaxRuns)
  /\ UNCHANGED aesVars

AesNext ==
  \/ \E t \in Tags : StartScript(t)
  \/ Build \/ Attack \/ Compress \/ FileArchive
  \/ InterruptScript
  \/ MakeReport
  \/ AesOver

AesSpec == AesInit /\ [][AesNext]_aesVars

-----------------------------------------------------------------------------
(* Properties.                                                             *)

(***************************************************************************)
(* An archive holds the log of an attack that was built as its name says,  *)
(* if that run of the script could build it at all.  Only the first        *)
(* archive of a run may be one that an interrupted run has left, perhaps   *)
(* with the other tag; no log is ever filed twice.                         *)
(***************************************************************************)
ArchivesAsNamed ==
  \A t \in Tags : \A i \in FiledUnder(t) :
    LET a == archives[t][i] IN
    /\ a.run = a.filed /\ a.program[2] = a.run => a.program[1] = t
    /\ a.run # a.filed => i = 0 /\ a.run < a.filed

(***************************************************************************)
(* The full recoveries that the plot counts are those of attacks that have *)
(* recovered every byte: a log that was cut short, or one of an attack     *)
(* that could not be built, lowers the mean but never adds a recovery.  The *)
(* average times are those of all archives, or there are none.             *)
(***************************************************************************)
RecoveriesReal ==
  runStep = "reported" =>
    \A t \in Tags : \A i \in DOMAIN report.recovered[t] :
      LET bits == archives[t][i].log.bits
          minutes == report.minutes[t]
      IN
      /\ report.recovered[t][i] <= 4 * KeyBytes
      /\ report.recovered[t][i] = 4 * KeyBytes =>
           Len(bits) = KeyBytes /\ \A n \in DOMAIN bits : bits[n] = 4
      /\ DOMAIN minutes \in {{}, FiledUnder(t)}
      /\ i \in DOMAIN minutes => minutes[i] # NoEnd

-----------------------------------------------------------------------------
(* The inductive forms.                                                    *)

LogRecords ==
  [log : Logs \cup {NoLog.log}, program : (Tags \cup {"none"}) \X Nat, run : Nat, filed : Nat]

AesTypeOK ==
  /\ runNo \in Nat
  /\ tag \in Tags
  /\ iteration \in 0..Iterations - 1
  /\ binary \in (Tags \cup {"none"}) \X Nat
  /\ outLog \in LogRecords /\ outGz \in LogRecords
  /\ archives \in [Tags -> [0..Iterations - 1 -> LogRecords]]

\* A program that this run of the script has built is built for its tag.
BuiltAsNamed(programBuilt) ==
  /\ programBuilt[2] <= runNo
  /\ programBuilt[2] = runNo /\ runNo > 0 => programBuilt[1] = tag

\* So are the programs behind the logs; only the first round of a run finds a
\* log that an earlier run has left.
AesInv ==
  /\ AesTypeOK
  /\ runStep \in {"build", "attack", "gzip", "rename"} => runNo > 0
  /\ BuiltAsNamed(binary)
  /\ outLog.run <= runNo /\ (outLog.run = runNo => BuiltAsNamed(outLog.program))
  /\ outGz.run <= runNo /\ (outGz.run = runNo => BuiltAsNamed(outGz.program))
  /\ runStep \in {"build", "attack", "gzip"} /\ iteration > 0 => outGz = NoLog
  /\ runStep = "gzip" => outLog.run = runNo
  /\ runStep = "rename" /\ iteration > 0 => outGz.run = runNo
  /\ ArchivesAsNamed
=============================================================================
