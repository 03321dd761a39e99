------------------------------ MODULE SpecPlot ------------------------------
(***************************************************************************)
(* plot_spec.py, which plot_intel.py and plot_rpi4.py call with the result *)
(* files of three configurations.  It reads each file line by line, keeps  *)
(* the rows between two markers and stops at the score; then it groups the *)
(* run times by benchmark and draws one bar for each benchmark and         *)
(* configuration, with the median of three runs and whiskers to the        *)
(* others.  The colours of the bars are those of a list of labels that is  *)
(* filled on the way; barh() starts the list again when it is used up.     *)
(*                                                                         *)
(* A line is a record of its kind and, for a row of a table, benchmark and *)
(* run time.  The rates are treated like the times, and are not drawn.     *)
(***************************************************************************)
EXTENDS Integers, Sequences, FiniteSets, Lists

CONSTANTS
  Csvs,          (* csvfilepaths: labels, each with a colour of its own,   *)
                 (* in order                                               *)
  CsvContents    (* what a file may hold: sequences of lines               *)

LineKinds == {"start", "end", "score", "header", "row", "blank", "other"}
CsvLines  == [kind : LineKinds, name : STRING, time : Int]

\* The time of a run that has failed: an empty cell, which Decimal() refuses.
NoTime == -1

\* Line i of a file is in its full results table, or the marker before it.
InTable(content, i) ==
  \E s \in 1..i : content[s].kind = "start" /\ \A j \in s..i : content[j].kind # "end"

\* A results file as SPEC writes it, or the part of one that was cut: the two
\* markers and the score come once and in this order, the table has a header
\* and then rows, and what follows the table repeats some of these.
CsvFormed(content) ==
  LET marks == <<"start", "end", "score">> IN
  /\ content \in Seq(CsvLines)
  /\ \A i, j \in DOMAIN content, k, l \in 1..3 :
       i < j /\ content[i].kind = marks[k] /\ content[j].kind = marks[l] => k < l
  /\ \A i \in DOMAIN content :
       LET heads == {h \in 1..i - 1 : InTable(content, h) /\ content[h].kind = "header"} IN
       /\ InTable(content, i) => content[i].kind \in {"start", "header", "row", "blank"}
       /\ content[i].kind = "row" =>
            \E j \in DOMAIN content : /\ InTable(content, j) /\ content[j].kind = "row"
                                     /\ content[j].name = content[i].name
       /\ InTable(content, i) /\ content[i].kind = "header" => heads = {}
       /\ content[i].kind = "end" \/ (InTable(content, i) /\ content[i].kind = "row") =>
            heads # {}

ASSUME CsvAssumption ==
  /\ Csvs \in Seq(STRING)
  /\ Csvs # << >>
  /\ \A content \in CsvContents : CsvFormed(content)

VARIABLES
  specPhase,     (* "open", "lines", "group", "bars", "shown", or the      *)
                 (* exception that has ended the script                    *)
  csv,           (* the position of the file that is read                  *)
  lineNo,        (* the next line of it                                    *)
  collecting,    (* collecting                                             *)
  resultLines,   (* result_lines                                           *)
  tables,        (* data: per file read, its rows                          *)
  names,         (* the keys of benchmark_data_agg, in insertion order     *)
  ybar,          (* yval_current, negated                                  *)
  bars,          (* the bars: benchmark, label, place and times            *)
  tickAt,        (* yticks, one for each benchmark                         *)
  barLabels,     (* csvfile_labels                                         *)
  contents       (* history: the contents of the files                     *)

specVars == <<specPhase, csv, lineNo, collecting, resultLines, tables, names,
              ybar, bars, tickAt, barLabels, contents>>

Members(s) == {s[i] : i \in DOMAIN s}

SpecIdle ==
  /\ csv = 1
  /\ lineNo = 1
  /\ collecting = FALSE
  /\ resultLines = << >>
  /\ tables = << >>
  /\ names = << >>
  /\ ybar = 1
  /\ bars = << >>
  /\ tickAt = << >>
  /\ barLabels = << >>
  /\ contents = << >>

SpecInit == specPhase = "open" /\ SpecIdle

-----------------------------------------------------------------------------
(* Reading.                                                                *)

OpenCsv(content) ==
  /\ specPhase = "open"
  /\ specPhase' = "lines"
  /\ contents' = Append(contents, content)
  /\ lineNo' = 1
  /\ collecting' = FALSE
  /\ resultLines' = << >>
  /\ UNCHANGED <<csv, tables, names, ybar, bars, tickAt, barLabels>>

Line == contents[csv][lineNo]

EndWith(exception) == specPhase' = exception /\ UNCHANGED <<csv, tables>>

\* The first row that was collected holds the headers; the others are parsed
\* before the score is looked at.
CloseCsv(score) ==
  /\ IF resultLines = << >> THEN EndWith("IndexError")
     ELSE IF \E row \in Members(Tail(resultLines)) : row.time = NoTime
     THEN EndWith("InvalidOperation")
     ELSE IF ~score THEN EndWith("Exception")
     ELSE /\ tables' = Append(tables, Tail(resultLines))
          /\ csv' = csv + 1
          /\ specPhase' = IF csv < Len(Csvs) THEN "open" ELSE "group"
  /\ UNCHANGED <<lineNo, collecting, resultLines>>

\* Faulty variant: only the start of the table is recognised.
TakeLineToEnd ==
  /\ collecting' = (collecting \/ Line.kind = "start")
  /\ resultLines' = IF collecting /\ Line.kind # "blank"
                    THEN Append(resultLines, Line) ELSE resultLines

\* What a line does to collecting and to result_lines.
TakeLine ==
  /\ collecting' = CASE ~collecting /\ Line.kind = "start" -> TRUE
                     [] collecting /\ Line.kind = "end"    -> FALSE
                     [] OTHER                              -> collecting
  /\ resultLines' = IF collecting /\ Line.kind \notin {"end", "blank"}
                    THEN Append(resultLines, Line) ELSE resultLines

ReadLine ==
  /\ specPhase = "lines"
  /\ IF lineNo > Len(contents[csv])
     THEN CloseCsv(FALSE)
     ELSE IF ~collecting /\ Line.kind = "score"
     THEN CloseCsv(TRUE)
     ELSE TakeLine /\ lineNo' = lineNo + 1 /\ UNCHANGED <<specPhase, csv, tables>>
  /\ UNCHANGED <<names, ybar, bars, tickAt, barLabels, contents>>

-----------------------------------------------------------------------------
(* Grouping.                                                               *)

\* The values of a sequence in the order of their first occurrence.
Distinct(s) ==
  Kept(s, {i \in DOMAIN s : \A j \in 1..(i - 1) : s[j] # s[i]})

Benchmarks(table) == [i \in DOMAIN table |-> table[i].name]

Group ==
  /\ specPhase = "group"
  /\ LET rows[i \in 0..Len(tables)] ==
           IF i = 0 THEN << >> ELSE rows[i - 1] \o Benchmarks(tables[i])
     IN names' = Distinct(rows[Len(tables)])
  /\ specPhase' = "bars"
  /\ UNCHANGED <<csv, lineNo, collecting, resultLines, tables, ybar, bars,
                 tickAt, barLabels, contents>>

\* The labels that have a benchmark, in the order of the files.
LabelsOf(name) ==
  Kept([i \in DOMAIN tables |-> i],
       {i \in DOMAIN tables : name \in Members(Benchmarks(tables[i]))})

RowsOf(i, name) == Kept(tables[i], {k \in DOMAIN tables[i] : tables[i][k].name = name})

\* The times of a benchmark in a configuration, in the order of the runs.
RunTimes(i, name) ==
  LET rows == RowsOf(i, name) IN [k \in DOMAIN rows |-> rows[k].time]

\* Faulty variant: they stay in that order.
TimesUnsorted(i, name) == RunTimes(i, name)

\* They are sorted.
Times(i, name) ==
  LET times == RunTimes(i, name)
  IN [n \in DOMAIN times |-> times[Order(times)[n]]]

-----------------------------------------------------------------------------
(* Drawing.                                                                *)

\* Faulty variant: one label too many is taken.
NewLabelsOneMore(labels) ==
  SubSeq(labels \o labels, 1, Len(labels) + 1 - Len(barLabels))

\* The labels that the loop over a benchmark's bars appends, one by one as
\* long as the list is shorter than the benchmark's.
NewLabels(labels) == SubSeq(labels, 1, Len(labels) - Len(barLabels))

\* The bars of the next benchmark.
AddBars ==
  /\ specPhase = "bars"
  /\ names # << >>
  /\ LET name == Head(names)
         labels == LabelsOf(name)
         place(idx) == ybar + 10 * (idx - 1)
     IN IF \E i \in Members(labels) : Len(Times(i, name)) # 3
        THEN specPhase' = "AssertionError" /\ UNCHANGED <<names, ybar, bars, tickAt, barLabels>>
        ELSE /\ barLabels' = barLabels \o NewLabels(labels)
             /\ bars' = bars \o
                  [idx \in DOMAIN labels |->
                     [name |-> name, label |-> labels[idx], y |-> place(idx),
                      times |-> Times(labels[idx], name)]]
             /\ tickAt' = Append(tickAt,
                  [name |-> name, y |-> place(Len(labels) \div 2 + 1)])
             /\ ybar' = place(Len(labels) + 1) + 2
             /\ names' = Tail(names)
             /\ UNCHANGED specPhase
  /\ UNCHANGED <<csv, lineNo, collecting, resultLines, tables, contents>>

\* The limits of the axis are those of the first and the last bar.
Show ==
  /\ specPhase = "bars"
  /\ names = << >>
  /\ specPhase' = IF bars = << >> THEN "IndexError" ELSE "shown"
  /\ UNCHANGED <<csv, lineNo, collecting, resultLines, tables, names, ybar,
                 bars, tickAt, barLabels, contents>>

\* barh() uses the colours of csvfile_labels again and again.
ColourOf(i) == Csvs[barLabels[((i - 1) % Len(barLabels)) + 1]]

Failures == {"IndexError", "InvalidOperation", "Exception", "AssertionError"}

SpecOver ==
  /\ specPhase \in {"shown"} \cup Failures
  /\ UNCHANGED specVars

SpecNext ==
  \/ \E content \in CsvContents : OpenCsv(content)
  \/ ReadLine
  \/ Group
  \/ AddBars
  \/ Show
  \/ SpecOver

CsvSpec == SpecInit /\ [][SpecNext]_specVars

-----------------------------------------------------------------------------
(* Properties.                                                             *)

\* The run times of a benchmark in the full results table of a file: the rows
\* after the first start marker and before the end marker that follows it.
FullTable(content, name) ==
  LET start == CHOOSE i \in DOMAIN content : content[i].kind = "start"
      end   == CHOOSE i \in DOMAIN content : content[i].kind = "end"
  IN {i \in start..end : content[i].kind = "row" /\ content[i].name = name}

NamesIn(content) == {content[i].name : i \in {i \in DOMAIN content : content[i].kind = "row"}}

\* A file of a run in which every benchmark was run three times to the end.
WholeFile(content) ==
  /\ \A kind \in {"start", "end", "score"} : \E i \in DOMAIN content : content[i].kind = kind
  /\ \A name \in NamesIn(content) :
       /\ Cardinality(FullTable(content, name)) = 3
       /\ \A i \in FullTable(content, name) : content[i].time # NoTime

(***************************************************************************)
(* A figure is drawn exactly if every file is whole and not all of them    *)
(* are empty: the table of selected results, which repeats some rows, is   *)
(* not taken for part of the full one, and a run that was cut short or has *)
(* failed is never drawn.                                                  *)
(***************************************************************************)
WholeFilesDrawn ==
  /\ specPhase = "shown" => \A i \in DOMAIN contents : WholeFile(contents[i])
  /\ specPhase \in Failures =>
       \/ \E i \in DOMAIN contents : ~WholeFile(contents[i])
       \/ \A i \in DOMAIN contents : NamesIn(contents[i]) = {}

(***************************************************************************)
(* A bar ends at the median of the three run times of its benchmark in its *)
(* file's full table, and its whiskers at the least and the greatest.      *)
(***************************************************************************)
BarsShowRuns ==
  \A n \in DOMAIN bars :
    LET content == contents[bars[n].label]
        runs == FullTable(content, bars[n].name)
        t == bars[n].times
    IN /\ {content[i].time : i \in runs} = Members(t)
       /\ \A i \in runs : t[1] <= content[i].time /\ content[i].time <= t[3]
       /\ Cardinality({i \in runs : content[i].time <= t[2]}) >= 2
       /\ Cardinality({i \in runs : content[i].time >= t[2]}) >= 2

SameBenchmarks ==
  \A i, j \in DOMAIN contents : NamesIn(contents[i]) = NamesIn(contents[j])

(***************************************************************************)
(* If all files have the same benchmarks, in whatever order, each bar has  *)
(* the colour of its configuration, the legend names every configuration   *)
(* once, and each benchmark's tick is at one of its own bars.              *)
(***************************************************************************)
BarsRecognisable ==
  specPhase = "shown" /\ SameBenchmarks =>
    /\ \A n \in DOMAIN bars : ColourOf(n) = Csvs[bars[n].label]
    /\ bars # << >> => barLabels = [i \in DOMAIN Csvs |-> i]
    /\ \A k \in DOMAIN tickAt : \E n \in DOMAIN bars :
         bars[n].name = tickAt[k].name /\ bars[n].y = tickAt[k].y

-----------------------------------------------------------------------------
(* The inductive forms.                                                    *)

RowPlaces(content) ==
  {i \in DOMAIN content : InTable(content, i) /\ content[i].kind = "row"}

\* The lines of a file that are collected: the header, if it is there, and rows.
TablePlaces(content) ==
  {i \in DOMAIN content : InTable(content, i) /\ content[i].kind \in {"header", "row"}}

\* A bar, and the tick of a benchmark.
Bars  == [name : STRING, label : Nat, y : Int, times : Seq(Int)]
Ticks == [name : STRING, y : Int]

BarsTyped ==
  /\ names \in Seq(STRING)
  /\ ybar \in Int
  /\ bars \in Seq(Bars)
  /\ tickAt \in Seq(Ticks)
  /\ barLabels \in Seq(Nat)

SpecTypeOK ==
  /\ specPhase \in {"open", "lines", "group", "bars", "shown"} \cup Failures
  /\ contents \in Seq(CsvContents)
  /\ tables \in Seq(Seq(CsvLines)) /\ Len(tables) <= Len(contents)
  /\ BarsTyped
  /\ csv \in Nat \ {0}
  /\ specPhase = "open"  => csv <= Len(Csvs) /\ Len(contents) = csv - 1 /\ Len(tables) = csv - 1
  /\ specPhase = "lines" => csv <= Len(Csvs) /\ Len(contents) = csv /\ Len(tables) = csv - 1
  /\ specPhase \in {"group", "bars", "shown"} =>
       Len(contents) = Len(Csvs) /\ Len(tables) = Len(Csvs)
  /\ specPhase \in {"open", "lines", "group"} =>
       names = << >> /\ bars = << >> /\ barLabels = << >> /\ tickAt = << >>

Ended(content) ==
  \A kind \in {"start", "end", "score"} : \E i \in DOMAIN content : content[i].kind = kind

\* What has been read of a file, and of the files before it.
LinesRead ==
  specPhase = "lines" =>
    LET content == contents[csv]
        seen    == 1..(lineNo - 1)
    IN /\ lineNo \in 1..(Len(content) + 1)
       /\ collecting = InTable(content, lineNo - 1)
       /\ resultLines = Kept(content, TablePlaces(content) \cap seen)
       /\ \A i \in seen : content[i].kind # "score"

\* No run in the table of a file has failed.
Finished(content) == \A i \in RowPlaces(content) : content[i].time # NoTime

TablesRead ==
  \A i \in DOMAIN tables :
    /\ Ended(contents[i]) /\ Finished(contents[i])
    /\ tables[i] = Kept(contents[i], RowPlaces(contents[i]))

\* A benchmark of a table that is not in names any more has been drawn.
BarsDrawn ==
  /\ \A n \in DOMAIN bars :
       LET i == bars[n].label IN
       /\ i \in DOMAIN tables
       /\ Len(RowsOf(i, bars[n].name)) = 3
       /\ bars[n].times = Times(i, bars[n].name)
  /\ specPhase \in {"bars", "shown"} =>
       \A i \in DOMAIN tables :
         /\ \A name \in Members(Benchmarks(tables[i])) \ Members(names) :
              Len(RowsOf(i, name)) = 3
         /\ bars = << >> => Members(Benchmarks(tables[i])) \subseteq Members(names)
  /\ specPhase = "shown" => names = << >> /\ bars # << >>

NamesKnown ==
  specPhase = "bars" =>
    Members(names) \subseteq UNION {Members(Benchmarks(tables[i])) : i \in DOMAIN tables}

\* With the same benchmarks everywhere, each has one bar per file, in order.
BarsInTurn ==
  specPhase \in {"bars", "shown"} /\ SameBenchmarks =>
    /\ barLabels = IF bars = << >> THEN << >> ELSE [i \in DOMAIN Csvs |-> i]
    /\ Len(bars) % Len(Csvs) = 0
    /\ \A n \in DOMAIN bars : bars[n].label = ((n - 1) % Len(Csvs)) + 1
    /\ \A k \in DOMAIN tickAt : \E n \in DOMAIN bars :
         bars[n].name = tickAt[k].name /\ bars[n].y = tickAt[k].y

SpecInv ==
  /\ SpecTypeOK
  /\ LinesRead
  /\ TablesRead
  /\ BarsDrawn
  /\ NamesKnown
  /\ BarsInTurn
  /\ WholeFilesDrawn
=============================================================================
