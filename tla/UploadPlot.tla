----------------------------- MODULE UploadPlot -----------------------------
(***************************************************************************)
(* plot-lighttpd-upload.py, which draws the upload times of the results    *)
(* files of LighttpdBenchmark.  For each series it reads the files in the  *)
(* order in which glob() yields them and collects the times by file size;  *)
(* then it relates all times to the medians of the reference series, in    *)
(* place and series by series, the reference first; then it draws a box    *)
(* for each size and a line through the medians.                           *)
(*                                                                         *)
(* The files' contents are chosen as they are read.  Times are rationals,  *)
(* as pairs of a numerator and a positive denominator.                     *)
(***************************************************************************)
EXTENDS Integers, Sequences, FiniteSets, Lists

CONSTANTS
  Labels,        (* the labels of series_meta in order, REFERENCE_LABEL first *)
  Contents,      (* what a results file may hold: sequences of datapoints,   *)
                 (* records of a dataset, a file size x and a time y         *)
  Dataset,       (* DATASET                                                  *)
  MaxFiles       (* per series, bounds the number of its files               *)

\* A results file has a positive time for each upload, and a dataset one file
\* of each size.
ASSUME PlotAssumption ==
  /\ Labels \in Seq(STRING)
  /\ Labels # << >>
  /\ \A k, l \in DOMAIN Labels : Labels[k] = Labels[l] => k = l
  /\ \A content \in Contents :
       /\ content \in Seq([dataset : STRING, x : Nat, y : Nat \ {0}])
       /\ \A i, j \in DOMAIN content :
            /\ content[i].dataset = Dataset /\ content[j].dataset = Dataset
            /\ content[i].x = content[j].x
            => i = j

VARIABLES
  plotPhase,     (* "read", "relate", "draw", "drawn", or the exception that *)
                 (* has ended the script                                     *)
  figure,        (* FIGURE_TYPE                                              *)
  current,       (* the position of the series that the phase has come to    *)
  sizes,         (* per series, the keys of its buckets, in insertion order  *)
  buckets,       (* per series and size, the times                           *)
  medians,       (* reference_medians                                        *)
  lines,         (* per series, the points of its line                       *)
  xvals,         (* xvals, which keeps the last series' sizes for the ticks  *)
  filesRead      (* history: per series, the contents of its files           *)

plotVars == <<plotPhase, figure, current, sizes, buckets, medians, lines, xvals, filesRead>>

Series    == DOMAIN Labels
Reference == 1

FigureTypes == {"ABSOLUTE_RUNTIME", "ABSOLUTE_RUNTIME_DIFFERENCE",
                "RELATIVE_RUNTIME_DIFFERENCE", "RELATIVE_PERFORMANCE_DIFFERENCE"}

Elements(s) == {s[i] : i \in DOMAIN s}

PlotIdle ==
  /\ figure = "ABSOLUTE_RUNTIME"
  /\ current = 1
  /\ sizes = [k \in Series |-> << >>]
  /\ buckets = [k \in Series |-> << >>]
  /\ medians = << >>
  /\ lines = [k \in Series |-> << >>]
  /\ xvals = << >>
  /\ filesRead = [k \in Series |-> << >>]

PlotInit == plotPhase = "read" /\ PlotIdle

-----------------------------------------------------------------------------
(* Rationals.                                                              *)

Minus(a, b)   == <<a[1] * b[2] - b[1] * a[2], a[2] * b[2]>>
Divided(a, b) == <<a[1] * b[2], a[2] * b[1]>>     \* for b > 0
Inverted(a)   == <<a[2], a[1]>>                   \* for a > 0
Mean(a, b)    == <<a[1] * b[2] + b[1] * a[2], 2 * a[2] * b[2]>>
Less(a, b)    == a[1] * b[2] < b[1] * a[2]
Same(a, b)    == a[1] * b[2] = b[1] * a[2]

\* sorted(s)[k]
Sorted(s, k) ==
  LET below(v) == Cardinality({i \in DOMAIN s : Less(s[i], v)})
      upTo(v)  == Cardinality({i \in DOMAIN s : ~Less(v, s[i])})
  IN CHOOSE v \in Elements(s) : below(v) <= k /\ k < upTo(v)

\* reference_medians takes the upper of two middle values, boxplot() their mean.
UpperMedian(s) == Sorted(s, Len(s) \div 2)
BoxMedian(s)   == Mean(Sorted(s, (Len(s) - 1) \div 2), Sorted(s, Len(s) \div 2))

-----------------------------------------------------------------------------
(* Reading.                                                                *)

InDataset(content) ==
  Kept(content, {i \in DOMAIN content : content[i].dataset = Dataset})

\* Faulty variant: the points are left in the order of the results file.
PointsUnsorted(content) == InDataset(content)

\* read_json_logfiles(): the points of the dataset, sorted by size.
Points(content) ==
  LET chosen == InDataset(content)
      order  == Order([i \in DOMAIN chosen |-> chosen[i].x])
  IN [i \in DOMAIN chosen |-> chosen[order[i]]]

\* The points of a file are added to the buckets of series k.
AddPoints(k, content) ==
  LET points == Points(content)
      xs     == [i \in DOMAIN points |-> points[i].x]
      new    == Kept(xs, {i \in DOMAIN points : xs[i] \notin Elements(sizes[k])})
      values(x) == Kept([i \in DOMAIN points |-> <<points[i].y, 1>>],
                        {i \in DOMAIN points : xs[i] = x})
      old(x) == IF x \in DOMAIN buckets[k] THEN buckets[k][x] ELSE << >>
  IN /\ sizes' = [sizes EXCEPT ![k] = @ \o new]
     /\ buckets' = [buckets EXCEPT ![k] =
          [x \in Elements(sizes[k]) \cup Elements(new) |-> old(x) \o values(x)]]

\* The next file that glob() yields for the current series.
ReadFile(content) ==
  /\ plotPhase = "read"
  /\ Len(filesRead[current]) < MaxFiles[current]
  /\ AddPoints(current, content)
  /\ filesRead' = [filesRead EXCEPT ![current] = Append(@, content)]
  /\ UNCHANGED <<plotPhase, figure, current, medians, lines, xvals>>

\* The phase goes on with the next series, or the next phase begins.
NextSeries(phase) ==
  IF current < Len(Labels)
  THEN current' = current + 1 /\ UNCHANGED plotPhase
  ELSE current' = 1 /\ plotPhase' = phase

\* The last file of a series has been read.  After the last series, the
\* reference medians are computed unless the figure shows absolute times.
SeriesRead ==
  /\ plotPhase = "read"
  /\ \E type \in FigureTypes :
       LET relative == current = Len(Labels) /\ type # "ABSOLUTE_RUNTIME" IN
       /\ current < Len(Labels) => type = figure
       /\ figure' = type
       /\ NextSeries(IF relative THEN "relate" ELSE "draw")
       /\ medians' = IF relative
                     THEN [x \in DOMAIN buckets[Reference] |->
                             UpperMedian(buckets[Reference][x])]
                     ELSE medians
  /\ UNCHANGED <<sizes, buckets, lines, xvals, filesRead>>

-----------------------------------------------------------------------------
(* Relating.                                                               *)

Related(y, median) ==
  CASE figure = "RELATIVE_RUNTIME_DIFFERENCE"     -> Divided(y, median)
    [] figure = "RELATIVE_PERFORMANCE_DIFFERENCE" -> Inverted(Divided(y, median))
    [] OTHER                                      -> Minus(y, median)

\* Faulty variant: the medians are those of the reference series as it is now.
RelateAllToCurrent(k) ==
  buckets' = [buckets EXCEPT ![k] =
    [x \in DOMAIN @ |->
      [i \in DOMAIN buckets[k][x] |->
        Related(buckets[k][x][i], UpperMedian(buckets[Reference][x]))]]]

\* All times of series k are replaced.
RelateAll(k) ==
  buckets' = [buckets EXCEPT ![k] =
    [x \in DOMAIN @ |->
      [i \in DOMAIN buckets[k][x] |-> Related(buckets[k][x][i], medians[x])]]]

\* The script ends if the reference series lacks a size.
Relate ==
  /\ plotPhase = "relate"
  /\ IF DOMAIN buckets[current] \subseteq DOMAIN medians
     THEN RelateAll(current) /\ NextSeries("draw")
     ELSE plotPhase' = "KeyError" /\ UNCHANGED <<current, buckets>>
  /\ UNCHANGED <<figure, sizes, medians, lines, xvals, filesRead>>

-----------------------------------------------------------------------------
(* Drawing.                                                                *)

\* The boxes and the line of a series, for which boxplot() wants one box at least;
\* in the end the ticks are set to xvals.
Draw ==
  /\ plotPhase = "draw"
  /\ xvals' = sizes[current]
  /\ IF sizes[current] = << >>
     THEN plotPhase' = "ValueError" /\ UNCHANGED <<current, lines>>
     ELSE /\ lines' = [lines EXCEPT ![current] =
               [i \in DOMAIN sizes[current] |->
                 <<sizes[current][i], BoxMedian(buckets[current][sizes[current][i]])>>]]
          /\ NextSeries("drawn")
  /\ UNCHANGED <<figure, sizes, buckets, medians, filesRead>>

Exceptions == {"KeyError", "ValueError"}

PlotOver == plotPhase \in {"drawn"} \cup Exceptions /\ UNCHANGED plotVars

PlotNext ==
  \/ \E content \in Contents : ReadFile(content)
  \/ SeriesRead
  \/ Relate
  \/ Draw
  \/ PlotOver

PlotSpec == PlotInit /\ [][PlotNext]_plotVars

-----------------------------------------------------------------------------
(* Properties.                                                             *)

PlotTypeOK ==
  /\ plotPhase \in {"read", "relate", "draw", "drawn"} \cup Exceptions
  /\ figure \in FigureTypes
  /\ current \in Series
  /\ \A k \in Series :
       /\ DOMAIN buckets[k] = Elements(sizes[k])
       /\ \A x \in DOMAIN buckets[k] : buckets[k][x] # << >>
       /\ Cardinality(Elements(sizes[k])) = Len(sizes[k])

\* The places of the datapoints for series k and size x: file and position.
Places(k, x) ==
  UNION {{<<i, j>> : j \in {j \in DOMAIN filesRead[k][i] :
                             /\ filesRead[k][i][j].dataset = Dataset
                             /\ filesRead[k][i][j].x = x}} : i \in DOMAIN filesRead[k]}

TimeAt(k, place) == filesRead[k][place[1]][place[2]].y

\* The upper median of the reference times for size x.
MeasuredMedian(x) ==
  LET P == Places(Reference, x)
      below(v) == Cardinality({p \in P : TimeAt(Reference, p) < v})
      upTo(v)  == Cardinality({p \in P : TimeAt(Reference, p) <= v})
      half     == Cardinality(P) \div 2
  IN CHOOSE v \in {TimeAt(Reference, p) : p \in P} : below(v) <= half /\ half < upTo(v)

\* What a figure shows for the time y of size x.
Shown(y, x) ==
  LET m == MeasuredMedian(x) IN
  CASE figure = "ABSOLUTE_RUNTIME"               -> <<y, 1>>
    [] figure = "ABSOLUTE_RUNTIME_DIFFERENCE"    -> <<y - m, 1>>
    [] figure = "RELATIVE_RUNTIME_DIFFERENCE"    -> <<y, m>>
    [] figure = "RELATIVE_PERFORMANCE_DIFFERENCE" -> <<m, y>>

Values(k) == UNION {Elements(buckets[k][x]) : x \in DOMAIN buckets[k]}

(***************************************************************************)
(* The boxes of a series show each time of the dataset in its files, once, *)
(* related to the reference median of its size as measured: the reference  *)
(* series, which is replaced first, does not change what the others are    *)
(* related to, and the order in which glob() yields the files is without   *)
(* effect.                                                                 *)
(***************************************************************************)
FigureShowsFiles ==
  plotPhase \in {"draw", "drawn"} =>
    \A k \in Series :
      /\ \A x \in Elements(sizes[k]), v \in Values(k) :
           Cardinality({i \in DOMAIN buckets[k][x] : Same(buckets[k][x][i], v)})
             = Cardinality({p \in Places(k, x) : Same(Shown(TimeAt(k, p), x), v)})
      /\ \A i \in DOMAIN filesRead[k] : \A j \in DOMAIN filesRead[k][i] :
           filesRead[k][i][j].dataset = Dataset =>
             LET x == filesRead[k][i][j].x IN
             x \in DOMAIN buckets[k] /\ Len(buckets[k][x]) = Cardinality(Places(k, x))

SizesIn(content) == {content[i].x : i \in {i \in DOMAIN content : content[i].dataset = Dataset}}

(***************************************************************************)
(* In the relative figures the reference line is at 1 where there is an    *)
(* odd number of measurements.  Where there is an even number, as in 300   *)
(* repetitions, it may be better than 1 but never worse, as the times are  *)
(* related to the upper median and drawn with the mean of both.            *)
(* If every results file covers the same sizes, each line runs from the    *)
(* smallest size to the largest, and each of its points has a tick,        *)
(* although the ticks are those of the last series.                        *)
(***************************************************************************)
LinesRight ==
  plotPhase = "drawn" =>
    LET all == UNION {{SizesIn(filesRead[k][i]) : i \in DOMAIN filesRead[k]} : k \in Series}
    IN /\ \A i \in DOMAIN lines[Reference] :
            LET x == lines[Reference][i][1]
                y == lines[Reference][i][2]
                odd == Cardinality(Places(Reference, x)) % 2 = 1
            IN /\ figure = "RELATIVE_PERFORMANCE_DIFFERENCE" =>
                    ~Less(y, <<1, 1>>) /\ (odd => Same(y, <<1, 1>>))
               /\ figure = "RELATIVE_RUNTIME_DIFFERENCE" =>
                    ~Less(<<1, 1>>, y) /\ (odd => Same(y, <<1, 1>>))
       /\ Cardinality(all) = 1 =>
            \A k \in Series :
              /\ \A i, j \in DOMAIN lines[k] : i < j => lines[k][i][1] < lines[k][j][1]
              /\ \A i \in DOMAIN lines[k] : lines[k][i][1] \in Elements(xvals)

-----------------------------------------------------------------------------
(* The inductive forms.                                                    *)

Rationals == Int \X Int

PlotTyped ==
  /\ PlotTypeOK
  /\ filesRead \in [Series -> Seq(Contents)]
  /\ sizes \in [Series -> Seq(Nat)]
  /\ DOMAIN buckets = Series /\ DOMAIN lines = Series
  /\ \A k \in Series : buckets[k] \in [Elements(sizes[k]) -> Seq(Rationals)]
  /\ plotPhase = "relate" => figure # "ABSOLUTE_RUNTIME"

\* A bucket for each size that occurs; in the order of the sizes if all files
\* have the same ones.
SizesRead ==
  \A k \in Series :
    /\ Elements(sizes[k]) = UNION {SizesIn(filesRead[k][i]) : i \in DOMAIN filesRead[k]}
    /\ (\A i, j \in DOMAIN filesRead[k] : SizesIn(filesRead[k][i]) = SizesIn(filesRead[k][j])) =>
         \A i, j \in DOMAIN sizes[k] : i < j => sizes[k][i] < sizes[k][j]

\* The series whose times have been replaced, if they are.
IsRelated(k) ==
  plotPhase \in {"draw", "drawn"} \/ (plotPhase = "relate" /\ k < current)

\* What series k has for the datapoint at p: its time, related if they are.
Held(k, x, p) ==
  IF IsRelated(k) THEN Shown(TimeAt(k, p), x) ELSE <<TimeAt(k, p), 1>>

\* A bucket has one time for each datapoint.
TimesOnce ==
  plotPhase \notin Exceptions =>
    \A k \in Series : \A x \in Elements(sizes[k]) :
      \E place \in [DOMAIN buckets[k][x] -> Places(k, x)] :
        /\ \A i, j \in DOMAIN buckets[k][x] : place[i] = place[j] => i = j
        /\ \A p \in Places(k, x) : \E i \in DOMAIN buckets[k][x] : place[i] = p
        /\ \A i \in DOMAIN buckets[k][x] :
             buckets[k][x][i] = Held(k, x, place[i])

MediansMeasured ==
  plotPhase = "relate" =>
    medians = [x \in Elements(sizes[Reference]) |-> <<MeasuredMedian(x), 1>>]

LinesDrawn ==
  /\ plotPhase \in {"draw", "drawn"} => \A k \in Series : k < current \/ plotPhase = "drawn" =>
       /\ sizes[k] # << >>
       /\ lines[k] = [i \in DOMAIN sizes[k] |->
                       <<sizes[k][i], BoxMedian(buckets[k][sizes[k][i]])>>]
  /\ plotPhase = "drawn" => xvals = sizes[Len(Labels)]

PlotInv ==
  /\ PlotTyped
  /\ SizesRead
  /\ TimesOnce
  /\ MediansMeasured
  /\ LinesDrawn
=============================================================================
