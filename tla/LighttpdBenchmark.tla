------------------------- MODULE LighttpdBenchmark -------------------------
(***************************************************************************)
(* The measurement of evaluation/6_6_lighttpd/data.  For each round,       *)
(* benchmark.sh starts lighttpd in the round's configuration in the        *)
(* background, sleeps for three seconds, runs benchmark.py and kills       *)
(* lighttpd by name.  benchmark.py uploads each file once, removes it from *)
(* the server before and after, and writes a results file that is named    *)
(* for the configuration.  Nothing tells the client which server answers:  *)
(* that is whichever process holds port 8443.                              *)
(*                                                                         *)
(* Sleeping orders nothing, so servers start and end at any time.  They    *)
(* crash, connections break, and someone interrupts the scripts and starts *)
(* them again.  Each request is worked on by a php-cgi process of its own, *)
(* which may outlive the client and the server that it was sent to.  No    *)
(* request has a timeout: the client waits for a server as long as that    *)
(* takes.                                                                  *)
(***************************************************************************)
EXTENDS Integers, FiniteSets, Sequences

CONSTANTS
  Rounds,        (* the configurations of the successive rounds            *)
  Files,         (* UPLOAD_FILE_PATHS                                      *)
  Total,         (* Retry(total): how often a request is tried again       *)
  MaxSessions,   (* bounds how often benchmark.sh is started               *)
  MaxLate        (* bounds how many requests outlive their client at once  *)

ASSUME BenchmarkAssumption ==
  /\ Rounds \in Seq(STRING)
  /\ Rounds # << >>
  /\ Total \in Nat
  /\ MaxSessions \in Nat \ {0}
  /\ MaxLate \in Nat

VARIABLES
  shell,         (* what benchmark.sh does: "idle" if it is not running    *)
  session,       (* how often it has been started                          *)
  round,         (* its position in Rounds                                 *)
  server,        (* the state of each lighttpd process                     *)
  uploads,       (* the files in uploads/, which outlive servers           *)
  late,          (* the requests that are worked on with no client waiting *)
  step,          (* what benchmark.py does next                            *)
  file,          (* the file it is uploading                               *)
  todo,          (* the files it has not come to yet                       *)
  left,          (* how often its request may still be tried again         *)
  times,         (* experiment_results; see Entry                          *)
  results,       (* the results files; see Complete                        *)
  (* History variables:                                                    *)
  kept,          (* files whose last removal failed, or that a request of  *)
                 (* an earlier session has stored since                    *)
  clean          (* no lighttpd was left when the session began            *)

shellVars     == <<shell, session, round, clean>>
clientVars    == <<step, file, todo, left, times>>
benchmarkVars == <<shellVars, server, uploads, late, clientVars, results, kept>>

\* The process that round r of session s starts.
Servers == (1..MaxSessions) \X (1..Len(Rounds))

ConfigOf(p) == Rounds[p[2]]

In(states) == {p \in Servers : server[p] \in states}

\* The process that listens on port 8443, or has not given the port up yet.
PortHolders == In({"serving", "dying"})

Alive == In({"starting", "serving", "dying"})

NoFile == "none"

BenchmarkInit ==
  /\ shell = "idle"
  /\ session = 0
  /\ round = 1
  /\ server = [p \in Servers |-> "none"]
  /\ uploads \in SUBSET Files
  /\ late = {}
  /\ step = "next"
  /\ file = NoFile
  /\ todo = {}
  /\ left = 0
  /\ times = {}
  /\ results = {}
  /\ kept = {}
  /\ clean = TRUE

-----------------------------------------------------------------------------
(* benchmark.sh                                                            *)

StartSession ==
  /\ shell = "idle"
  /\ session < MaxSessions
  /\ shell' = "round"
  /\ session' = session + 1
  /\ round' = 1
  /\ clean' = (Alive = {})
  /\ UNCHANGED <<server, uploads, late, clientVars, results, kept>>

\* run-<config>.sh in the background, then benchmark.py.
StartRound ==
  /\ shell = "round"
  /\ shell' = "client"
  /\ server' = [server EXCEPT ![<<session, round>>] = "starting"]
  /\ step' = "next"
  /\ file' = NoFile
  /\ todo' = Files
  /\ left' = 0
  /\ times' = {}
  /\ UNCHANGED <<session, round, clean, uploads, late, results, kept>>

\* "set -e": benchmark.sh exits, with the server still running.
Abort ==
  /\ shell' = "idle"
  /\ step' = "next"
  /\ file' = NoFile
  /\ todo' = {}
  /\ left' = 0
  /\ times' = {}
  /\ UNCHANGED <<session, round, clean>>

NextRound ==
  /\ IF round < Len(Rounds)
     THEN shell' = "round" /\ round' = round + 1
     ELSE shell' = "idle" /\ UNCHANGED round
  /\ UNCHANGED <<session, clean, clientVars>>

\* Faulty variant: the signal only reaches the script that started lighttpd.
KillAllWrapper ==
  /\ shell = "killall"
  /\ NextRound
  /\ UNCHANGED <<server, uploads, late, results, kept>>

\* killall lighttpd: a process that has not executed lighttpd yet has another
\* name.  killall fails if there is no process of the name.
KillAll ==
  /\ shell = "killall"
  /\ \E named \in SUBSET In({"starting"}) :
       LET killed == named \cup PortHolders IN
       /\ server' = [p \in Servers |->
            IF p \in named THEN "gone" ELSE IF p \in killed THEN "dying" ELSE server[p]]
       /\ IF killed = {} THEN Abort ELSE NextRound
  /\ UNCHANGED <<uploads, late, results, kept>>

ClientRuns(s) == shell = "client" /\ step = s

Requesting == \E s \in {"before", "post", "after"} : ClientRuns(s)

\* What the client waits for.
Request ==
  [script |-> IF step = "post" THEN "upload.php" ELSE "remove.php",
   file |-> file, session |-> session]

\* A server has got the client's request, or not, as the client stops waiting.
LeaveRequest ==
  \/ UNCHANGED late
  \/ /\ Requesting
     /\ PortHolders # {}
     /\ Cardinality(late) < MaxLate
     /\ late' = late \cup {Request}

\* Someone ends the scripts at any point; servers in the background survive.
Interrupt ==
  /\ shell # "idle"
  /\ LeaveRequest
  /\ Abort
  /\ UNCHANGED <<server, uploads, results, kept>>

-----------------------------------------------------------------------------
(* lighttpd                                                                *)

ServerTo(p, state) ==
  /\ server' = [server EXCEPT ![p] = state]
  /\ UNCHANGED <<shellVars, uploads, late, clientVars, results, kept>>

\* bind() fails, and lighttpd exits, if the address is in use.
Bind(p) ==
  /\ server[p] = "starting"
  /\ ServerTo(p, IF PortHolders = {} THEN "serving" ELSE "gone")

\* A process that was killed ends, or a server crashes or fails to start.
EndServer(p) ==
  /\ server[p] \in {"starting", "serving", "dying"}
  /\ ServerTo(p, "gone")

-----------------------------------------------------------------------------
(* benchmark.py: upload() and the loop around it                           *)

To(s) == step' = s /\ left' = Total

\* The next file, in whatever order glob() found them.
NextFile ==
  /\ ClientRuns("next")
  /\ \E f \in todo :
       /\ file' = f
       /\ todo' = todo \ {f}
  /\ To("before")
  /\ UNCHANGED <<shellVars, server, uploads, late, times, results, kept>>

\* After the last file the results are written, and benchmark.py ends.
WriteResults ==
  /\ ClientRuns("next")
  /\ todo = {}
  /\ results' = results \cup {[round |-> round, clean |-> clean, times |-> times]}
  /\ shell' = "killall"
  /\ UNCHANGED <<session, round, clean, server, uploads, late, clientVars, kept>>

\* remove.php unlinks the file, or fails to.
Remove ==
  /\ uploads' \in {uploads, uploads \ {file}}
  /\ kept' = (kept \ {file}) \cup (uploads' \cap {file})

\* upload.php refuses a file that exists, stores it, or fails to.
StoreFile == uploads' \in {uploads, uploads \cup {file}} /\ UNCHANGED kept

\* A removal is answered: whatever the answer, the client goes on.
Removed ==
  /\ \/ ClientRuns("before") /\ To("post")
     \/ ClientRuns("after") /\ To("next")
  /\ In({"serving"}) # {}
  /\ Remove
  /\ UNCHANGED <<shellVars, server, late, file, todo, times, results>>

\* What benchmark.py keeps of an upload, and, for the properties, the server
\* that answered it and whether it has stored the file.
Entry(p, stored) == [file |-> file, server |-> p, stored |-> stored]

\* Faulty variant: the status is not looked at.
UploadAnsweredAnyhow ==
  /\ ClientRuns("post")
  /\ \E p \in In({"serving"}) :
       /\ StoreFile
       /\ times' = times \cup {Entry(p, uploads' # uploads)}
       /\ To("after")
  /\ UNCHANGED <<shellVars, server, late, file, todo, results>>

\* The upload is answered; unless the status is 200, the client exits.
UploadAnswered ==
  /\ ClientRuns("post")
  /\ \E p \in In({"serving"}) :
       /\ StoreFile
       /\ IF uploads' # uploads
          THEN times' = times \cup {Entry(p, TRUE)} /\ To("after")
          ELSE times' = times /\ To(IF file \in uploads THEN "refused" ELSE "failed")
  /\ UNCHANGED <<shellVars, server, late, file, todo, results>>

ExitFailure ==
  /\ ClientRuns("refused") \/ ClientRuns("failed")
  /\ Abort
  /\ UNCHANGED <<server, uploads, late, results, kept>>

\* Faulty variant: the request is tried again for as long as it takes.
TryAgainForever ==
  /\ UNCHANGED <<shellVars, clientVars>>

\* urllib3 tries the request again, or gives up, and the exception ends the client.
TryAgain ==
  IF left > 0
  THEN left' = left - 1 /\ UNCHANGED <<shellVars, step, file, todo, times>>
  ELSE Abort

\* Nobody listens: any request may be tried again.
NotConnected ==
  /\ Requesting
  /\ In({"serving"}) = {}
  /\ TryAgain
  /\ UNCHANGED <<server, uploads, late, results, kept>>

\* Faulty variant: allowed_methods={'POST'}, as in the line commented out.
ConnectionBreaksAllowPost ==
  /\ Requesting
  /\ PortHolders # {}
  /\ LeaveRequest
  /\ TryAgain
  /\ UNCHANGED <<server, uploads, results, kept>>

\* The connection breaks when the request has been sent; it is processed later
\* (ServeLate), if at all.  By default POST is not among the methods that are
\* sent again.
ConnectionBreaks ==
  /\ Requesting
  /\ PortHolders # {}
  /\ LeaveRequest
  /\ IF step = "post" THEN Abort ELSE TryAgain
  /\ UNCHANGED <<server, uploads, results, kept>>

\* A request is processed when its client has gone, or ends with no effect:
\* upload.php stores the file, remove.php unlinks it.
ServeLate(r) ==
  /\ late' = late \ {r}
  /\ uploads' \in {uploads, IF r.script = "upload.php" THEN uploads \cup {r.file}
                                                     ELSE uploads \ {r.file}}
  /\ kept' = IF r.session # session THEN kept \cup (uploads' \ uploads) ELSE kept
  /\ UNCHANGED <<shellVars, server, clientVars, results>>

-----------------------------------------------------------------------------
ShellStep  == StartRound \/ KillAll

\* What benchmark.py does without an answer; it notices soon if nobody has the port.
OwnStep ==
  \/ NextFile \/ WriteResults \/ ExitFailure
  \/ PortHolders = {} /\ NotConnected

ClientStep == OwnStep \/ Removed \/ UploadAnswered \/ NotConnected \/ ConnectionBreaks

\* Nobody starts benchmark.sh any more.
BenchmarkOver ==
  /\ shell = "idle"
  /\ session = MaxSessions
  /\ UNCHANGED benchmarkVars

BenchmarkNext ==
  \/ StartSession
  \/ ShellStep
  \/ ClientStep
  \/ Interrupt
  \/ \E p \in Servers : Bind(p) \/ EndServer(p)
  \/ \E r \in late : ServeLate(r)
  \/ BenchmarkOver

BenchmarkSpec == BenchmarkInit /\ [][BenchmarkNext]_benchmarkVars

\* The scripts run on; servers start, answer and end when they like, or never.
BenchmarkFairness == WF_benchmarkVars(ShellStep) /\ WF_benchmarkVars(OwnStep)

-----------------------------------------------------------------------------
(* Properties.                                                             *)

Entries == [file : Files, server : Servers, stored : BOOLEAN]

Requests ==
  [script : {"upload.php", "remove.php"}, file : Files, session : 0..MaxSessions]

BenchmarkTypeOK ==
  /\ shell \in {"idle", "round", "client", "killall"}
  /\ session \in 0..MaxSessions
  /\ round \in 1..Len(Rounds)
  /\ server \in [Servers -> {"none", "starting", "serving", "dying", "gone"}]
  /\ uploads \in SUBSET Files
  /\ late \in SUBSET Requests
  /\ step \in {"next", "before", "post", "after", "refused", "failed"}
  /\ file \in Files \cup {NoFile}
  /\ todo \in SUBSET Files
  /\ left \in 0..Total
  /\ times \in SUBSET Entries
  /\ results \in SUBSET [round : 1..Len(Rounds), clean : BOOLEAN, times : SUBSET Entries]
  /\ kept \in SUBSET Files
  /\ clean \in BOOLEAN

(***************************************************************************)
(* Every time in a results file was measured on a server in the            *)
(* configuration that the file is named for, if no lighttpd was left when  *)
(* benchmark.sh was started: late servers, crashes, broken connections and *)
(* processes that killall misses do not mix the rounds of a session up.    *)
(* After an aborted session, the server that it has left is measured       *)
(* instead.                                                                *)
(***************************************************************************)
ResultsAsNamed ==
  \A res \in results : res.clean =>
    \A t \in res.times : ConfigOf(t.server) = Rounds[res.round]

(***************************************************************************)
(* The server refuses an upload because the file exists only if the        *)
(* removal before it has failed, or if a request of an aborted session was *)
(* processed since: never because the upload was sent twice or because     *)
(* another round was cut short.  A round that ends leaves no other files   *)
(* on the server, whatever it has found.                                   *)
(***************************************************************************)
OnlyKeptFilesStay ==
  /\ shell = "client" /\ step = "refused" => file \in kept
  /\ shell = "killall" => uploads \subseteq kept

(***************************************************************************)
(* A results file has one time for each file, and each is that of an       *)
(* upload that the server has stored.                                      *)
(***************************************************************************)
ResultsComplete ==
  \A res \in results :
    /\ \A f \in Files : \E t \in res.times : t.file = f
    /\ \A t, u \in res.times : t.file = u.file => t = u
    /\ \A t \in res.times : t.stored

(***************************************************************************)
(* benchmark.sh ends whenever it was started, whatever servers and         *)
(* connections do, unless a server that has the port leaves a request      *)
(* without an answer for ever: nothing else, not even a server that never  *)
(* starts, makes the scripts wait.                                         *)
(***************************************************************************)
SessionEnds == []<>(shell = "idle") \/ <>[](Requesting /\ PortHolders # {})

-----------------------------------------------------------------------------
(* Why ResultsAsNamed holds: in a clean session, only the current round's  *)
(* server can serve, as that of the round before served until it was       *)
(* killed.                                                                 *)

\* The server that the current round starts.
Mine == <<session, round>>

Measuring == shell \in {"client", "killall"}

OthersNeverServe ==
  clean /\ Files # {} =>
    \A p \in Servers \ {Mine} : server[p] \notin {"starting", "serving"}

TimesAreMine == clean /\ Measuring => \A t \in times : t.server = Mine

MeasuredHasStarted ==
  clean /\ Measuring /\ times # {} => server[Mine] # "starting"

\* The client has a time after its first upload, and so at its end.
HasMeasured ==
  /\ shell = "client" /\ step = "next" => todo = Files \/ times # {}
  /\ shell = "client" /\ step = "after" => times # {}
  /\ shell = "killall" => Files = {} \/ times # {}

FileChosen == shell = "client" /\ step # "next" => file \in Files

BenchmarkInv ==
  /\ BenchmarkTypeOK
  /\ FileChosen
  /\ OthersNeverServe
  /\ TimesAreMine
  /\ MeasuredHasStarted
  /\ HasMeasured
  /\ ResultsAsNamed

-----------------------------------------------------------------------------
(* Why OnlyKeptFilesStay and ResultsComplete hold: the client's place in   *)
(* its loop says which files can be on the server, and which have a time.  *)

\* A session ends when its upload gets no answer: of its own requests, only
\* removals are late.
OwnRemovals ==
  \A r \in late :
    /\ r.session <= session
    /\ shell # "idle" /\ r.session = session => r.script = "remove.php"

UploadsInHand ==
  /\ shell = "client" =>
       /\ step # "next" => file \notin todo
       /\ step \in {"next", "post"} => uploads \subseteq kept \cup todo
       /\ step \in {"before", "after"} => uploads \subseteq kept \cup todo \cup {file}
  /\ OnlyKeptFilesStay

\* The files the client is done with, as far as times go.
Timed == IF step \in {"next", "after"} THEN Files \ todo ELSE Files \ (todo \cup {file})

TimesComplete ==
  /\ shell = "client" =>
       /\ \A f \in Files : f \in Timed <=> \E t \in times : t.file = f
       /\ \A t, u \in times : t.file = u.file => t = u
       /\ \A t \in times : t.stored
  /\ ResultsComplete
=============================================================================
