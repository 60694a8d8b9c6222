------------------------------ MODULE Pipeline ------------------------------
(***************************************************************************)
(* The stages of run.sh over the files on disk, through invocations with   *)
(* any --force, --output and set of machines, each of which may fail, be   *)
(* interrupted, or end with the machine (a crash) at any point.            *)
(*                                                                         *)
(* A file is known by the capture it comes from (0: there is none) and by  *)
(* whether it is whole: written to its end, from whole files.  How the     *)
(* capture itself works is in Capture, the host's part in HostStage.       *)
(***************************************************************************)
EXTENDS Naturals, FiniteSets

CONSTANTS
  Dirs, Default,  \* output directories; the one named after the workload
  Arches,         \* machines to simulate
  Words,          \* what may follow --force
  MaxCaptures, MaxFaults

ASSUME DirsAssumption == Default \in Dirs
ASSUME WordsAssumption == Words \subseteq SUBSET {"all", "capture", "host", "decode", "sim"}
ASSUME BoundsAssumption == MaxCaptures \in Nat /\ MaxFaults \in Nat

VARIABLES
  stage,    \* where the invocation is, or "idle"
  dir, force, todo, arch,   \* its OUTPUT_DIR, FORCE_*, and machines left
  asked,    \* the machines of the last invocation
  exit,     \* how the last one ended
  made,     \* directories that exist
  trace, guest, host, decoded,   \* files, by directory
  analysis, \* Results/<name>/analysis_<arch>.txt, by directory name
  decoder,  \* raw2trace outlives its script: alone, or sharing its file
  captures, faults,
  hurt,     \* some invocation was cut or failed while it wrote in place
  overlaps  \* directories where a decode was forced over a running one

invocation == <<stage, dir, force, todo, arch, asked, exit>>
files == <<made, trace, guest, host, decoded, analysis>>
history == <<captures, faults, hurt, overlaps>>
vars == <<invocation, files, decoder, history>>

File(c, w) == [cap |-> c, whole |-> w]
NoFile == File(0, FALSE)
Partial(f) == File(f.cap, FALSE)
Exists(f) == f.cap # 0

\* The decoded trace also has a footer or not; a result also depends on the
\* host's table.
Decode(c, w, f) == [cap |-> c, whole |-> w, footer |-> f]
NoDecode == Decode(0, FALSE, FALSE)
Result(c, h, w) == [cap |-> c, host |-> h, whole |-> w]
NoArch == "none"
NoResult == Result(0, 0, FALSE)

\* What the words after --force ask for.
Forced(words) ==
  (IF "all" \in words THEN {"capture", "host", "decode", "sim"} ELSE {})
    \cup (IF "capture" \in words THEN {"capture", "host", "decode"} ELSE {})
    \cup (words \cap {"host", "decode", "sim"})

Init ==
  /\ stage = "idle" /\ dir = Default /\ force = {} /\ todo = {} /\ arch = NoArch
  /\ asked = {} /\ exit = "none"
  /\ made = {}
  /\ trace = [d \in Dirs |-> NoFile] /\ guest = [d \in Dirs |-> NoFile]
  /\ host = [d \in Dirs |-> NoFile] /\ decoded = [d \in Dirs |-> NoDecode]
  /\ analysis = [d \in Dirs |-> [a \in Arches |-> NoResult]]
  /\ decoder = [d \in Dirs |-> "none"]
  /\ captures = 0 /\ faults = 0 /\ hurt = FALSE /\ overlaps = {}

Go(a, b) == stage = a /\ stage' = b
Exit(how) == stage' = "idle" /\ exit' = how /\ force' = {} /\ todo' = {} /\ arch' = NoArch
Same == UNCHANGED <<dir, force, todo, arch, asked, exit>>

\* A command line.  The bound on captures is on what it may lead to.
Invoke(d, words, machines) ==
  /\ Go("idle", "capture")
  /\ dir' = d /\ force' = Forced(words) /\ todo' = machines /\ asked' = machines /\ exit' = "none"
  /\ ("capture" \in force' \/ d \notin made) => captures < MaxCaptures
  /\ UNCHANGED <<arch, files, decoder, history>>

-----------------------------------------------------------------------------
(* Stages 2 and 3: the capture.                                            *)

Captured == Exists(trace[dir]) /\ Exists(guest[dir]) /\ "capture" \notin force

CaptureSkip ==
  /\ Captured /\ Go("capture", "host")
  /\ Same /\ UNCHANGED <<files, decoder, history>>

\* A directory that looks incomplete is left alone.
CaptureRefuse ==
  /\ stage = "capture" /\ ~Captured /\ dir \in made /\ "capture" \notin force
  /\ Exit("stopped")
  /\ UNCHANGED <<dir, asked, files, decoder, history>>

\* Mutant: an incomplete directory is captured anew.
MayCaptureAny == ~Captured

MayCapture == ~Captured /\ (dir \in made => "capture" \in force)

\* Mutant: only the capture itself is removed.
ClearedCapture ==
  /\ trace' = [trace EXCEPT ![dir] = NoFile] /\ guest' = [guest EXCEPT ![dir] = NoFile]
  /\ UNCHANGED <<host, decoded, decoder>>

\* rm -rf of the output directory; a decoder goes on with a file that has no
\* name any more.
Cleared ==
  /\ trace' = [trace EXCEPT ![dir] = NoFile] /\ guest' = [guest EXCEPT ![dir] = NoFile]
  /\ host' = [host EXCEPT ![dir] = NoFile] /\ decoded' = [decoded EXCEPT ![dir] = NoDecode]
  /\ decoder' = [decoder EXCEPT ![dir] = "none"]

CaptureStart ==
  /\ MayCapture /\ Go("capture", "launch")
  /\ Cleared /\ made' = made \cup {dir}
  /\ captures' = captures + 1
  /\ Same /\ UNCHANGED <<analysis, faults, hurt, overlaps>>

Record ==
  /\ Go("launch", "dump")
  /\ trace' = [trace EXCEPT ![dir] = File(captures, FALSE)]
  /\ Same /\ UNCHANGED <<made, guest, host, decoded, analysis, decoder, history>>

\* convert_dump writes pt_dump.guest in place.
ConvertDump ==
  /\ Go("dump", "convert")
  /\ guest' = [guest EXCEPT ![dir] = File(captures, FALSE)]
  /\ Same /\ UNCHANGED <<made, trace, host, decoded, analysis, decoder, history>>
Dumped ==
  /\ Go("convert", "finish")
  /\ guest' = [guest EXCEPT ![dir].whole = TRUE]
  /\ Same /\ UNCHANGED <<made, trace, host, decoded, analysis, decoder, history>>

CaptureEnd ==
  /\ Go("finish", "host")
  /\ trace' = [trace EXCEPT ![dir].whole = TRUE]
  /\ Same /\ UNCHANGED <<made, guest, host, decoded, analysis, decoder, history>>

-----------------------------------------------------------------------------
(* Stage 4: the host's table.                                              *)

HostSkip ==
  /\ Exists(host[dir]) /\ "host" \notin force /\ Go("host", "decode")
  /\ Same /\ UNCHANGED <<files, decoder, history>>

\* Upload and translation, which leave nothing in the output directory.
HostStart ==
  /\ ~Exists(host[dir]) \/ "host" \in force
  /\ Go("host", "translate")
  /\ host' = [host EXCEPT ![dir] = NoFile]
  /\ Same /\ UNCHANGED <<made, trace, guest, decoded, analysis, decoder, history>>

\* scp writes pt_dump.host in place.
Fetch ==
  /\ Go("translate", "fetch")
  /\ host' = [host EXCEPT ![dir] = Partial(guest[dir])]
  /\ Same /\ UNCHANGED <<made, trace, guest, decoded, analysis, decoder, history>>
Fetched ==
  /\ Go("fetch", "decode")
  /\ host' = [host EXCEPT ![dir] = guest[dir]]
  /\ Same /\ UNCHANGED <<made, trace, guest, decoded, analysis, decoder, history>>

-----------------------------------------------------------------------------
(* convert_trace.sh.                                                       *)

\* Mutant: any file that is there is taken.
CompleteAny(f) == Exists(f)

\* trace_is_complete: the last record is a footer.
Complete(f) == Exists(f) /\ f.footer

DecodeSkip ==
  /\ Complete(decoded[dir]) /\ "decode" \notin force /\ Go("decode", "sim")
  /\ Same /\ UNCHANGED <<files, decoder, history>>

\* Mutant: an incomplete decode is an error.
MayDecodeFresh == "decode" \in force \/ ~Exists(decoded[dir])

MayDecode == "decode" \in force \/ ~Complete(decoded[dir])

\* An incomplete file is removed, one to be redone by force is not: raw2trace
\* then truncates it, and one that was left running writes into it, too.
DecodeStart ==
  /\ MayDecode /\ Go("decode", "decoding")
  /\ decoded' = [decoded EXCEPT ![dir] = Decode(trace[dir].cap, FALSE, FALSE)]
  /\ decoder' = [decoder EXCEPT ![dir] =
                   IF "decode" \in force /\ @ # "none" THEN "shares" ELSE "none"]
  /\ overlaps' = IF decoder'[dir] = "shares" THEN overlaps \cup {dir} ELSE overlaps
  /\ Same /\ UNCHANGED <<made, trace, guest, host, analysis, captures, faults, hurt>>

\* The last writer of every byte is this one, or wrote the same.
Decoded ==
  /\ Go("decoding", "sim")
  /\ decoded' = [decoded EXCEPT ![dir] = Decode(trace[dir].cap, trace[dir].whole, TRUE)]
  /\ decoder' = [decoder EXCEPT ![dir] = "none"]
  /\ Same /\ UNCHANGED <<made, trace, guest, host, analysis, history>>

\* raw2trace may not accept a trace that was cut short.
DecodeError ==
  /\ stage = "decoding" /\ ~trace[dir].whole
  /\ Exit("stopped")
  /\ decoded' = [decoded EXCEPT ![dir] = NoDecode]
  /\ decoder' = [decoder EXCEPT ![dir] = "none"]
  /\ UNCHANGED <<dir, asked, made, trace, guest, host, analysis, history>>

\* A raw2trace whose script was interrupted gets to its end.  One that shared
\* its file has written the end of it, not what was truncated; of two that
\* were left, the later one has written all.
DecoderEnds(d, later) ==
  /\ decoder[d] = "both" \/ (decoder[d] = "alone" /\ later) \/ (decoder[d] = "shares" /\ ~later)
  /\ decoded' = [decoded EXCEPT ![d].footer = TRUE, ![d].whole = trace[d].whole /\ later]
  /\ decoder' = [decoder EXCEPT ![d] = IF @ = "both" /\ ~later THEN "alone" ELSE "none"]
  /\ UNCHANGED <<invocation, made, trace, guest, host, analysis, history>>

-----------------------------------------------------------------------------
(* Stage 5 and Simulator/_simulate.sh.  run.sh looks at the results of the *)
(* workload; the simulator's script names them after the directory.        *)

\* Mutant: a finished simulation is never repeated.
SimulatedAlready(a) == Exists(analysis[Default][a])

Simulated(a) == Exists(analysis[Default][a]) /\ "sim" \notin force

SimSkip(a) ==
  /\ stage = "sim" /\ a \in todo /\ Simulated(a)
  /\ todo' = todo \ {a}
  /\ UNCHANGED <<stage, dir, force, arch, asked, exit, files, decoder, history>>

\* Mutant: the result's file is opened before the simulation.
SimStartOpen(a) ==
  /\ a \in todo /\ ~Simulated(a) /\ Go("sim", "simulating")
  /\ arch' = a /\ todo' = todo \ {a}
  /\ analysis' = [analysis EXCEPT ![dir][a] = Result(decoded[dir].cap, host[dir].cap, FALSE)]
  /\ UNCHANGED <<dir, force, asked, exit, made, trace, guest, host, decoded, decoder, history>>

SimStart(a) ==
  /\ a \in todo /\ ~Simulated(a) /\ Go("sim", "simulating")
  /\ arch' = a /\ todo' = todo \ {a}
  /\ analysis' = [analysis EXCEPT ![Default][a] = NoResult]
  /\ UNCHANGED <<dir, force, asked, exit, made, trace, guest, host, decoded, decoder, history>>

Analyse ==
  /\ Go("simulating", "analysis")
  /\ analysis' = [analysis EXCEPT ![dir][arch] = Result(decoded[dir].cap, host[dir].cap, FALSE)]
  /\ Same /\ UNCHANGED <<made, trace, guest, host, decoded, decoder, history>>
Analysed ==
  /\ Go("analysis", "sim")
  /\ analysis' = [analysis EXCEPT ![dir][arch].whole =
                    decoded[dir].whole /\ guest[dir].whole /\ host[dir].whole]
  /\ arch' = NoArch
  /\ UNCHANGED <<dir, force, todo, asked, exit, made, trace, guest, host, decoded, decoder, history>>

Finish ==
  /\ stage = "sim" /\ todo = {}
  /\ Exit("complete")
  /\ UNCHANGED <<dir, asked, files, decoder, history>>

-----------------------------------------------------------------------------
(* What can go wrong in a stage.                                           *)

\* Stages that write a file later invocations take as it is.
InPlace == {"convert", "finish", "fetch", "analysis"}

Fault ==
  /\ faults < MaxFaults /\ faults' = faults + 1
  /\ stage # "idle" /\ hurt' = (hurt \/ stage \in InPlace)

\* The command a stage runs fails.  A conversion that fails has removed its
\* file, one that cannot start (no space) only an incomplete file; a log
\* without statistics removes the result and is no failure.
Fail ==
  /\ Fault
  /\ stage \in {"launch", "dump", "convert", "finish", "translate", "fetch", "decode", "decoding",
                "simulating", "analysis"}
  /\ IF stage = "analysis"
       THEN /\ stage' = "sim" /\ arch' = NoArch /\ UNCHANGED <<exit, force, todo>>
            /\ analysis' = [analysis EXCEPT ![dir][arch] = NoResult]
       ELSE Exit("stopped") /\ UNCHANGED analysis
  /\ stage = "decode" => MayDecode
  /\ IF stage = "decoding" \/ (stage = "decode" /\ "decode" \notin force)
       THEN /\ decoded' = [decoded EXCEPT ![dir] = NoDecode]
            /\ decoder' = [decoder EXCEPT ![dir] = "none"]
       ELSE UNCHANGED <<decoded, decoder>>
  /\ UNCHANGED <<dir, asked, made, trace, guest, host, captures, overlaps>>

\* Ctrl-C: convert_trace.sh has no trap, and its raw2trace ignores the signal.
Interrupt ==
  /\ Fault /\ Exit("stopped")
  /\ decoder' = [decoder EXCEPT ![dir] =
                   IF stage # "decoding" THEN @ ELSE IF @ = "none" THEN "alone" ELSE "both"]
  /\ UNCHANGED <<dir, asked, files, captures, overlaps>>

Crash ==
  /\ Fault /\ Exit("stopped")
  /\ decoder' = [d \in Dirs |-> "none"]
  /\ UNCHANGED <<dir, asked, files, captures, overlaps>>

Step ==
  \/ CaptureSkip \/ CaptureRefuse \/ CaptureStart \/ Record \/ ConvertDump \/ Dumped \/ CaptureEnd
  \/ HostSkip \/ HostStart \/ Fetch \/ Fetched
  \/ DecodeSkip \/ DecodeStart \/ Decoded \/ DecodeError
  \/ \E a \in Arches : SimSkip(a) \/ SimStart(a)
  \/ Analyse \/ Analysed \/ Finish

Next ==
  \/ \E d \in Dirs, words \in Words, machines \in SUBSET Arches \ {{}} : Invoke(d, words, machines)
  \/ Step
  \/ \E d \in Dirs, later \in BOOLEAN : DecoderEnds(d, later)
  \/ Fail \/ Interrupt \/ Crash

\* A script runs its next command, and the commands end.
Spec == Init /\ [][Next]_vars /\ WF_vars(Step)

-----------------------------------------------------------------------------
\* Where an invocation is, and that --force capture entails the stages after.
TypeOK ==
  /\ stage \in {"idle", "capture", "launch", "dump", "convert", "finish", "host", "translate",
                "fetch", "decode", "decoding", "sim", "simulating", "analysis"}
  /\ dir \in Dirs /\ todo \subseteq Arches /\ arch \in Arches \cup {NoArch}
  /\ "capture" \in force => {"host", "decode"} \subseteq force
  /\ \A d \in Dirs : decoder[d] \in {"none", "alone", "shares", "both"}

\* The files of a directory are all of one capture: what is derived from a
\* capture goes with it (rm -rf, stage 2).
SameCapture ==
  \A d \in Dirs : {guest[d].cap, host[d].cap, decoded[d].cap} \subseteq {0, trace[d].cap}

\* What a step may do to a capture.
KeepsCapture ==
  \A d \in Dirs :
    (\/ Exists(trace[d]) /\ trace'[d].cap # trace[d].cap
     \/ Exists(guest[d]) /\ guest'[d].cap # guest[d].cap)
      => d = dir /\ "capture" \in force

\* "Nothing is deleted unless --force capture asked for it", neither a trace
\* nor its page table (stage 2).
NothingLost == [][KeepsCapture]_vars

\* What a simulation replays is the whole decode of the directory's trace,
\* however earlier decodes were cut: unless the trace was itself cut short, or
\* a decode was forced over one still running.
ReplaysWhole ==
  stage = "simulating" =>
    \/ decoded[dir].whole /\ decoded[dir].footer
    \/ ~trace[dir].whole
    \/ dir \in overlaps

\* A run that was cut or failed can simply be repeated, where "simply" is: it
\* was not while it finished the trace or wrote pt_dump.guest, pt_dump.host or
\* the analysis in place, and no decode was forced over one still running.
\* A result that is then there is from whole files.
RepeatIsSafe ==
  exit = "complete" /\ ~hurt /\ overlaps = {} =>
    \A a \in asked : Exists(analysis[Default][a]) => analysis[Default][a].whole

\* A completed run into the workload's own directory that was to simulate
\* again has results of the capture that is there, or (the log had no
\* statistics) none.
ForcedIsCurrent ==
  [][exit' = "complete" /\ exit # "complete" /\ "sim" \in force /\ dir = Default =>
       \A a \in asked : LET r == analysis[Default][a]
                        IN  Exists(r) => r.cap = trace[Default].cap /\ r.host = trace[Default].cap]_vars

\* Once nothing fails any more, a run over a complete capture completes,
\* whatever earlier runs have left.
CaptureCompletes ==
  faults = MaxFaults /\ stage = "capture" /\ trace[dir].whole /\ guest[dir].whole
    ~> exit = "complete"
=============================================================================
