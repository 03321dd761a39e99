-------------------------- MODULE MeasurementLogs --------------------------
(***************************************************************************)
(* Programs that measure with the flag set and clear, and the scripts that *)
(* draw what they have printed: victim-bn (with and without COUNT_MISSES), *)
(* the measurement of the system call, and the two readers of the context  *)
(* switch measurement.  A program prints one line for each repetition, to  *)
(* a file and hence through a buffer, which is lost if it is killed: then  *)
(* the file ends anywhere, also within a number.                           *)
(*                                                                         *)
(* A line is the sequence of its numbers.  Numbers have two digits where   *)
(* it matters whether the last one is cut short.                           *)
(***************************************************************************)
EXTENDS Integers, Sequences, Lists

CONSTANTS
  Reps,          (* NO_REPETITIONS, NO_SAMPLES                             *)
  TimePairs,     (* the pairs of times that a repetition may measure;      *)
                 (* numbers of two digits                                  *)
  Misses         (* the numbers of cache misses that may be counted        *)

ASSUME LogAssumption ==
  /\ Reps \in Nat \ {0}
  /\ TimePairs \subseteq (10..99) \X (10..99)
  /\ Misses \subseteq Nat

VARIABLES
  program,       (* which program runs                                     *)
  patched,       (* the kernel has the PreFence patch                      *)
  inherited,     (* the program was started with the flag set, by pfdisset *)
  logPhase,      (* "measuring", "ended", "killed"; then "drawn" or        *)
                 (* "AssertionError"                                       *)
  bit,           (* the program's flag                                     *)
  printed,       (* the lines it has printed; see PrintLine                *)
  written,       (* how much of them the file has; see FileLines           *)
  script,        (* which script has read the file                         *)
  series         (* the numbers that the script draws                      *)

logVars == <<program, patched, inherited, logPhase, bit, printed, written,
             script, series>>

Victims     == {"victim", "victim_count"}
Readers     == {"to_clear", "to_set"}
LogPrograms == Victims \cup Readers \cup {"syscall"}

ScriptsFor(p) == IF p \in Victims THEN {"openssl", "misses", "time_compute"} ELSE {"plot"}

NoSeries == [set |-> << >>, clear |-> << >>]

LogIdle ==
  /\ program = "victim"
  /\ patched = TRUE
  /\ inherited = FALSE
  /\ bit = FALSE
  /\ printed = << >>
  /\ written = 0
  /\ script = "none"
  /\ series = NoSeries

\* A flag is only inherited where there is one.
LogInit ==
  /\ program \in LogPrograms
  /\ patched \in BOOLEAN
  /\ inherited \in {FALSE, patched}
  /\ logPhase = "measuring"
  /\ bit = inherited
  /\ printed = << >>
  /\ written = 0
  /\ script = "none"
  /\ series = NoSeries

-----------------------------------------------------------------------------
(* The programs.                                                           *)

\* exit() writes the buffer.
ExitAfter(lines) ==
  /\ logPhase' = "ended"
  /\ written' = 4 * Len(lines)

\* For the properties, a line is kept with the flag as it was while the first
\* and the second of its times were measured, or as the call has left it.
PrintLine(nums, flags) ==
  /\ printed' = Append(printed, [nums |-> nums, flags |-> flags])
  /\ UNCHANGED <<logPhase, written>>

NumberOf(b) == IF b THEN 1 ELSE 0

\* What victim-bn prints for the misses without COUNT_MISSES.
Placeholder == -1

MissesOf(p) == IF p = "victim_count" THEN Misses ELSE {Placeholder}

\* Faulty variant: the flag is set once before the loop over the repetitions.
VictimBracketOnce ==
  LET countermeasure == Len(printed) >= Reps
      during == IF countermeasure THEN Len(printed) = Reps ELSE bit
  IN IF countermeasure /\ ~patched THEN ExitAfter(printed) /\ UNCHANGED <<bit, printed>>
     ELSE \E misses \in MissesOf(program), pair \in TimePairs :
       /\ PrintLine(<<NumberOf(countermeasure), misses>> \o pair, <<during, during>>)
       /\ bit' = IF countermeasure THEN FALSE ELSE bit

\* One repetition of the loops over use_countermeasure and repetition.  Each
\* repetition with the countermeasure sets the flag and clears it.
VictimRepetition ==
  LET countermeasure == Len(printed) >= Reps
      during == countermeasure \/ bit
  IN IF countermeasure /\ ~patched THEN ExitAfter(printed) /\ UNCHANGED <<bit, printed>>
     ELSE \E misses \in MissesOf(program), pair \in TimePairs :
       /\ PrintLine(<<NumberOf(countermeasure), misses>> \o pair, <<during, during>>)
       /\ bit' = IF countermeasure THEN FALSE ELSE bit

\* One sample of the system call: the second call sets the flag again.
SyscallSample ==
  IF ~patched THEN ExitAfter(printed) /\ UNCHANGED <<bit, printed>>
  ELSE \E pair \in TimePairs :
    /\ PrintLine(pair, <<TRUE, TRUE>>)
    /\ bit' = TRUE

\* main-to-set sets the flag before its first sample.  A new sample is one with
\* another counter; the counter is that of the process it is switched from.
ReaderSample ==
  IF program = "to_set" /\ ~patched THEN ExitAfter(printed) /\ UNCHANGED <<bit, printed>>
  ELSE LET flag == program = "to_set" \/ bit IN
    \E pair \in TimePairs :
      /\ PrintLine(<<Len(printed) + 1, pair[2]>>, <<flag, flag>>)
      /\ bit' = flag

LinesOf(p) == IF p \in Victims THEN 2 * Reps ELSE Reps

Repetition ==
  /\ logPhase = "measuring"
  /\ Len(printed) < LinesOf(program)
  /\ \/ program \in Victims /\ VictimRepetition
     \/ program = "syscall" /\ SyscallSample
     \/ program \in Readers /\ ReaderSample
  /\ UNCHANGED <<program, patched, inherited, script, series>>

End ==
  /\ logPhase = "measuring"
  /\ Len(printed) = LinesOf(program)
  /\ ExitAfter(printed)
  /\ UNCHANGED <<program, patched, inherited, bit, printed, script, series>>

\* The program is killed, and what is in its buffer is lost; or it is interrupted.
\* The readers of the context switch measurement handle that and exit, but from
\* a handler, maybe within printf(): then the file may have part of the line too.
KillProgram ==
  /\ logPhase = "measuring"
  /\ logPhase' = "killed"
  /\ written' \in 0..4 * Len(printed)
  /\ UNCHANGED <<program, patched, inherited, bit, printed, script, series>>

-----------------------------------------------------------------------------
(* The scripts.                                                            *)

\* The numbers that can be read in the last line of a file, by how much of it
\* there is: some of it; part of the last number; all but the newline.
Cut(nums, part) ==
  CASE part = 2 -> <<[nums EXCEPT ![Len(nums)] = @ \div 10]>>
    [] part = 3 -> <<nums>>
    [] OTHER    -> << >>

\* The lines of the file that have the form of a measurement.
FileLines ==
  LET whole == written \div 4
  IN [i \in 1..whole |-> printed[i].nums] \o
       (IF written % 4 = 0 THEN << >> ELSE Cut(printed[whole + 1].nums, written % 4))

\* The regular expressions: that of the script for misses allows no minus sign.
Matches(s, nums) == s = "misses" => nums[2] >= 0

Matching(s, lines) == Kept(lines, {i \in DOMAIN lines : Matches(s, lines[i])})

Select(lines, number) ==
  LET chosen == Kept(lines, {i \in DOMAIN lines : lines[i][1] = number})
  IN [i \in DOMAIN chosen |-> Tail(chosen[i])]

Column(lines, n) == [i \in DOMAIN lines |-> <<lines[i][n]>>]

\* Faulty variant: the columns and the flag's values are mixed up.
ParsedSwapped(lines) ==
  CASE program \in Victims   -> [set |-> Select(lines, 0), clear |-> Select(lines, 1)]
    [] program = "syscall"   -> [set |-> Column(lines, 2), clear |-> Column(lines, 1)]
    [] program = "to_set"    -> [set |-> Column(lines, 1), clear |-> << >>]
    [] program = "to_clear"  -> [set |-> << >>, clear |-> Column(lines, 1)]

\* The series that a script draws, as lists of the numbers of a repetition.
Parsed(lines) ==
  CASE program \in Victims   -> [set |-> Select(lines, 1), clear |-> Select(lines, 0)]
    [] program = "syscall"   -> [set |-> Column(lines, 1), clear |-> Column(lines, 2)]
    [] program = "to_set"    -> [set |-> Column(lines, 2), clear |-> << >>]
    [] program = "to_clear"  -> [set |-> << >>, clear |-> Column(lines, 2)]

\* Faulty variant: a script insists on one series only.
DrawLogEither(s) ==
  /\ logPhase \in {"ended", "killed"}
  /\ script' = s
  /\ LET parsed == Parsed(Matching(s, FileLines)) IN
     IF s # "plot" /\ parsed = NoSeries
     THEN logPhase' = "AssertionError" /\ UNCHANGED series
     ELSE logPhase' = "drawn" /\ series' = parsed
  /\ UNCHANGED <<program, patched, inherited, bit, printed, written>>

\* The scripts for victim-bn insist on both series.
DrawLog(s) ==
  /\ logPhase \in {"ended", "killed"}
  /\ script' = s
  /\ LET parsed == Parsed(Matching(s, FileLines)) IN
     IF s # "plot" /\ (parsed.set = << >> \/ parsed.clear = << >>)
     THEN logPhase' = "AssertionError" /\ UNCHANGED series
     ELSE logPhase' = "drawn" /\ series' = parsed
  /\ UNCHANGED <<program, patched, inherited, bit, printed, written>>

LogOver == logPhase \in {"drawn", "AssertionError"} /\ UNCHANGED logVars

LogNext ==
  \/ Repetition \/ End \/ KillProgram
  \/ \E s \in ScriptsFor(program) : DrawLog(s)
  \/ LogOver

LogSpec == LogInit /\ [][LogNext]_logVars

-----------------------------------------------------------------------------
(* Properties.                                                             *)

\* The file is whole: the program was not killed.
WholeLog == written = 4 * Len(printed)

\* What the program has measured for a series.
Measured(name) ==
  LET nums == [i \in DOMAIN printed |-> printed[i].nums]
  IN CASE program \in Victims -> Select(nums, NumberOf(name = "set"))
       [] program = "syscall" -> Column(nums, IF name = "set" THEN 1 ELSE 2)
       [] OTHER               -> IF (program = "to_set") = (name = "set")
                                 THEN Column(nums, 2) ELSE << >>

(***************************************************************************)
(* A script draws the measured numbers in their order, all of them if the  *)
(* program has ended by itself; in a file that was cut, only the very last *)
(* number may be a wrong one, and is too small then.  The histograms of    *)
(* the misses never show the placeholder of a victim-bn that does not      *)
(* count them.                                                             *)
(***************************************************************************)
DrawnAsMeasured ==
  logPhase = "drawn" =>
    \A name \in {"set", "clear"} :
      LET drawn == series[name]
          last  == Len(drawn)
      IN /\ last <= Len(Measured(name))
         /\ WholeLog => drawn = Measured(name)
         /\ \A i \in 1..last : \A n \in DOMAIN drawn[i] :
              \/ drawn[i][n] = Measured(name)[i][n]
              \/ i = last /\ n = Len(drawn[i]) /\ drawn[i][n] < Measured(name)[i][n]
         /\ script = "misses" => \A i \in 1..last : drawn[i][1] \in Misses

(***************************************************************************)
(* A log of victim-bn that a script accepts has the whole clear series,    *)
(* each number of it right, and at least one repetition with the           *)
(* countermeasure, so the kernel has the patch: the clear series is        *)
(* measured first, and the scripts insist on both.                         *)
(***************************************************************************)
AcceptedRunWhole ==
  logPhase = "drawn" /\ program \in Victims =>
    /\ patched
    /\ Len(series.clear) = Reps
    /\ series.clear = Measured("clear")

(***************************************************************************)
(* Whatever is measured for "set" is measured with the flag set, in every  *)
(* repetition.  What is measured for "clear", by victim-bn or by a reader, *)
(* is measured with the flag clear, unless the program was started with    *)
(* the flag set; then no repetition is.                                    *)
(***************************************************************************)
SeriesAsNamed ==
  \A i \in DOMAIN printed :
    LET flag == printed[i].flags[1] IN
    CASE program \in Victims    -> flag = (printed[i].nums[1] = 1 \/ inherited)
      [] program = "to_clear"   -> flag = inherited
      [] OTHER                  -> flag

(***************************************************************************)
(* The times that the script labels "clear" are those of a call that       *)
(* clears the flag (before_clear and after_clear).                         *)
(***************************************************************************)
ClearSeriesClears ==
  logPhase = "drawn" /\ program = "syscall" =>
    \A i \in DOMAIN series.clear : ~printed[i].flags[2]

-----------------------------------------------------------------------------
(* The inductive forms: the program has its flag as it was started with    *)
(* until it changes it, victim-bn until its repetitions with the           *)
(* countermeasure; and the lines have their form.                          *)

LogInv ==
  /\ program \in LogPrograms
  /\ inherited \in BOOLEAN /\ bit \in BOOLEAN
  /\ printed \in Seq([nums : Seq(Int), flags : BOOLEAN \X BOOLEAN])
  /\ program \in Victims /\ Len(printed) <= Reps => bit = inherited
  /\ program = "to_clear" => bit = inherited
  /\ SeriesAsNamed

\* The last number of a line has two digits; victim-bn has reached the
\* repetitions with the countermeasure only where there is one.
LineFormed(i) ==
  LET nums == printed[i].nums IN
  /\ Len(nums) = IF program \in Victims THEN 4 ELSE 2
  /\ nums[Len(nums)] \in 10..99
  /\ program \in Victims =>
       /\ nums[1] = NumberOf(i > Reps)
       /\ nums[2] \in MissesOf(program)
       /\ i > Reps => patched

FileInv ==
  /\ written \in 0..4 * Len(printed)
  /\ \A i \in DOMAIN printed : LineFormed(i)

LogsInv == LogInv /\ FileInv /\ DrawnAsMeasured /\ AcceptedRunWhole
=============================================================================
