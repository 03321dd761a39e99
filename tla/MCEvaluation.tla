---------------------------- MODULE MCEvaluation ----------------------------
(* The boot stub, the repository's test and the programs of the evaluation, *)
(* on small inputs.  They share nothing, so each behaviour is one of a     *)
(* single experiment, and the other programs are not started.              *)
EXTENDS Evaluation, TLC

CONSTANTS cpu0, cpu1, cpu2, core0, core1, rival

VARIABLE experiment

\* CPU 1 is a hyperthread of CPU 0's core, CPU 2 has a core of its own.
MixedCoreOf == cpu0 :> core0 @@ cpu1 :> core0 @@ cpu2 :> core1

\* Rounds of two configurations.
TestRounds == <<"pf_enabled", "prefence_app">>

\* Results files of two sizes, with times 1 and 2, sorted and not.
Datapoint(d, x, y) == [dataset |-> d, x |-> x, y |-> y]
TestContents ==
  {<<Datapoint("16M", 1, 1), Datapoint("log2", 1, 5)>>,
   <<Datapoint("16M", 1, 2), Datapoint("log2", 1, 5)>>,
   <<Datapoint("16M", 1, 2), Datapoint("log2", 1, 5), Datapoint("16M", 2, 3)>>,
   <<Datapoint("16M", 2, 3), Datapoint("log2", 1, 5), Datapoint("16M", 1, 1)>>}
TestLabels == <<"disabled", "app">>
TestMaxFiles == <<3, 1>>

\* SPEC results: whole ones with the benchmarks in different orders, one
\* benchmark only, too few runs, one that failed, none, and files that were cut.
Of(kind) == <<[kind |-> kind, name |-> "", time |-> 0]>>
Runs(name, times3) == [i \in DOMAIN times3 |-> [kind |-> "row", name |-> name, time |-> times3[i]]]
Csv(rows, selected, tail) ==
  Of("other") \o Of("start") \o Of("blank") \o Of("header") \o rows \o Of("blank")
    \o Of("end") \o Of("header") \o selected \o tail
Scored == Of("score") \o Of("other")
TestCsvs == <<"orange", "blue", "green">>
TestCsvContents ==
  {Csv(Runs("gcc", <<5, 9, 7>>) \o Runs("mcf", <<4, 4, 2>>), Runs("gcc", <<7>>), Scored),
   Csv(Runs("mcf", <<3, 2, 1>>) \o Runs("gcc", <<6, 6, 8>>), Runs("mcf", <<2>>), Scored),
   Csv(Runs("gcc", <<9, 8, 5>>), Runs("gcc", <<8>>), Scored),
   Csv(Runs("mcf", <<1, 3, 2>>), Runs("mcf", <<2>>), Scored),
   Csv(Runs("mcf", <<1, 3, 2>>), Runs("mcf", <<2>>), << >>),
   Csv(Runs("gcc", <<2, 1>>), Runs("gcc", <<2>>), Scored),
   Csv(Runs("mcf", <<1, NoTime, 2>>), Runs("mcf", <<2>>), Scored),
   Csv(<< >>, << >>, Scored),
   Of("other") \o Of("start") \o Of("blank") \o Of("header") \o Runs("gcc", <<5, 9, 7>>),
   Of("other") \o Of("score")}

\* Two repetitions with different times.
TestTimePairs == {<<12, 25>>, <<31, 14>>}

\* A log that was cut, a full recovery and another.
TestLogs ==
  {[bits |-> <<4>>, minutes |-> NoEnd],
   [bits |-> <<4, 4>>, minutes |-> 12],
   [bits |-> <<3, 4>>, minutes |-> 12]}

Experiments == {"userspace-test", "benchmark", "plot-lighttpd-upload", "plot_spec",
                "logs", "aes", "context-measure", "boot"}

\* The test program before it is started.
TestIdle ==
  /\ flag = [t \in Tasks \cup {Idle} |-> FALSE]
  /\ running = [c \in Cpus |-> Idle]
  /\ disabled = [k \in Cores |-> {}]
  /\ booted = TRUE
  /\ at = [p \in Processes |-> 1]
  /\ cpu = [p \in Processes |-> CpuInitial]
  /\ outcome = [p \in Processes |-> "none"]
  /\ online = Cpus
  /\ affinity = [p \in Processes |-> online]
  /\ otherBits = {}
  /\ observed = {}
  /\ company = [p \in Processes |-> FALSE]

\* benchmark.sh is never started.
BenchmarkOff == BenchmarkInit /\ uploads = {}

\* No core is started.
BootOff ==
  /\ stage = [c \in BootCores |-> "off"]
  /\ event = [c \in BootCores |-> FALSE]
  /\ BootIdle

MCInit ==
  /\ experiment \in Experiments
  /\ IF experiment = "userspace-test" THEN TestInit ELSE TestIdle
  /\ IF experiment = "benchmark" THEN BenchmarkInit ELSE BenchmarkOff
  /\ IF experiment = "plot-lighttpd-upload" THEN PlotInit ELSE plotPhase = "drawn" /\ PlotIdle
  /\ IF experiment = "plot_spec" THEN SpecInit ELSE specPhase = "off" /\ SpecIdle
  /\ IF experiment = "logs" THEN LogInit ELSE logPhase = "off" /\ LogIdle
  /\ IF experiment = "aes" THEN AesInit ELSE runStep = "off" /\ AesIdle
  /\ IF experiment = "context-measure" THEN ContextInit ELSE clock = 0 /\ ContextIdle
  /\ IF experiment = "boot" THEN BootInit ELSE BootOff

MCNext ==
  /\ UNCHANGED experiment
  /\ \/ /\ experiment = "userspace-test"
        /\ TestNext
        /\ UNCHANGED <<benchmarkVars, plotVars, specVars, logVars, aesVars,
                       contextVars, bootVars>>
     \/ /\ experiment = "benchmark"
        /\ BenchmarkNext
        /\ UNCHANGED <<allVars, plotVars, specVars, logVars, aesVars,
                       contextVars, bootVars>>
     \/ /\ experiment = "plot-lighttpd-upload"
        /\ PlotNext
        /\ UNCHANGED <<allVars, benchmarkVars, specVars, logVars, aesVars,
                       contextVars, bootVars>>
     \/ /\ experiment = "plot_spec"
        /\ SpecNext
        /\ UNCHANGED <<allVars, benchmarkVars, plotVars, logVars, aesVars,
                       contextVars, bootVars>>
     \/ /\ experiment = "logs"
        /\ LogNext
        /\ UNCHANGED <<allVars, benchmarkVars, plotVars, specVars, aesVars,
                       contextVars, bootVars>>
     \/ /\ experiment = "aes"
        /\ AesNext
        /\ UNCHANGED <<allVars, benchmarkVars, plotVars, specVars, logVars,
                       contextVars, bootVars>>
     \/ /\ experiment = "context-measure"
        /\ ContextNext
        /\ UNCHANGED <<allVars, benchmarkVars, plotVars, specVars, logVars,
                       aesVars, bootVars>>
     \/ /\ experiment = "boot"
        /\ BootNext
        /\ UNCHANGED <<allVars, benchmarkVars, plotVars, specVars, logVars,
                       aesVars, contextVars>>

mcVars == <<experiment, allVars, benchmarkVars, plotVars, specVars, logVars, aesVars,
            contextVars, bootVars>>

MCSpec ==
  MCInit /\ [][MCNext]_mcVars /\ TestFairness /\ BenchmarkFairness /\ BootFairness
=============================================================================
