--------------------------- MODULE PipelineProofs ---------------------------
(***************************************************************************)
(* For any directories, machines, words after --force and number of        *)
(* captures and faults: the files of a directory are of one capture, a     *)
(* capture is removed only when that was asked for, and what a completed   *)
(* run leaves is whole and current.  RInv relates the decoders still       *)
(* running, the faults met so far and the files they may have cut short.   *)
(***************************************************************************)
EXTENDS Pipeline, TLAPS

Files == [cap : Nat, whole : BOOLEAN]
Decodes == [cap : Nat, whole : BOOLEAN, footer : BOOLEAN]

Types ==
  /\ trace \in [Dirs -> Files] /\ guest \in [Dirs -> Files] /\ host \in [Dirs -> Files]
  /\ decoded \in [Dirs -> Decodes]
  /\ captures \in Nat /\ made \subseteq Dirs
  /\ decoder \in [Dirs -> {"none", "alone", "shares", "both"}]

\* What a capture under way has made so far; a trace is in a directory.
Progress ==
  /\ \A d \in Dirs : Exists(trace[d]) => d \in made
  /\ stage = "launch" => {trace[dir].cap, guest[dir].cap, host[dir].cap, decoded[dir].cap} = {0}
                         /\ dir \in made
  /\ stage = "dump" => trace[dir].cap = captures /\ guest[dir].cap = 0

IInv == Types /\ TypeOK /\ Progress /\ SameCapture

-----------------------------------------------------------------------------
\* Nothing is on disk.
LEMMA InitOK == Init => IInv
  <1> SUFFICES ASSUME Init PROVE IInv
    OBVIOUS
  <1>1. NoFile \in Files /\ NoFile.cap = 0 /\ NoDecode \in Decodes /\ NoDecode.cap = 0
    BY DEF NoFile, File, Files, NoDecode, Decode, Decodes
  <1>2. Types
    BY <1>1 DEF Init, Types
  <1>3. TypeOK
    BY DirsAssumption DEF Init, TypeOK
  <1>4. Progress
    BY <1>1 DEF Init, Progress, Exists
  <1>5. SameCapture
    BY <1>1 DEF Init, SameCapture
  <1> QED BY <1>2, <1>3, <1>4, <1>5 DEF IInv

\* Every step leaves the invocation well-formed.
LEMMA TypeStep == IInv /\ Next => TypeOK'
  <1> SUFFICES ASSUME IInv, Next PROVE TypeOK'
    OBVIOUS
  <1> USE DEF IInv
  <1>1. ASSUME NEW d \in Dirs, NEW words \in Words, NEW machines \in SUBSET Arches \ {{}},
               Invoke(d, words, machines)
        PROVE  TypeOK'
    <2>1. "capture" \in Forced(words) => {"host", "decode"} \subseteq Forced(words)
      BY WordsAssumption DEF Forced
    <2> QED BY <1>1, <2>1 DEF Invoke, Go, TypeOK
  <1>2. CASE CaptureSkip \/ CaptureRefuse \/ CaptureStart
    BY <1>2 DEF CaptureSkip, CaptureRefuse, CaptureStart, Cleared, Go, Same, Exit, TypeOK, Types
  <1>3. CASE Record \/ ConvertDump \/ Dumped \/ CaptureEnd
    BY <1>3 DEF Record, ConvertDump, Dumped, CaptureEnd, Go, Same, TypeOK
  <1>4. CASE HostSkip \/ HostStart \/ Fetch \/ Fetched
    BY <1>4 DEF HostSkip, HostStart, Fetch, Fetched, Go, Same, TypeOK
  <1>5. CASE DecodeSkip \/ DecodeStart \/ Decoded \/ DecodeError
    BY <1>5 DEF DecodeSkip, DecodeStart, Decoded, DecodeError, Go, Same, Exit, TypeOK, Types
  <1>6. ASSUME NEW a \in Arches, SimSkip(a) \/ SimStart(a) PROVE TypeOK'
    BY <1>6 DEF SimSkip, SimStart, Go, TypeOK
  <1>7. CASE Analyse \/ Analysed \/ Finish
    BY <1>7 DEF Analyse, Analysed, Finish, Go, Same, Exit, TypeOK
  <1>8. ASSUME NEW d \in Dirs, NEW later \in BOOLEAN, DecoderEnds(d, later) PROVE TypeOK'
    BY <1>8 DEF DecoderEnds, invocation, TypeOK, Types
  <1>9. CASE Fail
    BY <1>9 DEF Fail, Fault, Exit, TypeOK, Types
  <1>10. CASE Interrupt \/ Crash
    BY <1>10 DEF Interrupt, Crash, Fault, Exit, TypeOK, Types
  <1> QED BY <1>1, <1>2, <1>3, <1>4, <1>5, <1>6, <1>7, <1>8, <1>9, <1>10 DEF Next, Step

\* Steps that touch no file of a directory.
LEMMA QuietOK ==
  ASSUME IInv, TypeOK', decoder' \in [Dirs -> {"none", "alone", "shares", "both"}],
         UNCHANGED <<made, trace, guest, host, decoded, captures>>,
         stage' \notin {"launch", "dump"}
  PROVE  IInv' /\ KeepsCapture
  BY DEF IInv, Types, Progress, SameCapture, KeepsCapture

\* A new capture begins with an empty directory.
LEMMA CaptureStartOK == ASSUME IInv, TypeOK', CaptureStart PROVE IInv' /\ KeepsCapture
  <1> USE DEF IInv
  <1>1. dir \in Dirs /\ dir' = dir /\ stage' = "launch" /\ made' = made \cup {dir} /\ captures' = captures + 1
    BY DEF CaptureStart, Go, Same, TypeOK
  <1>2. NoFile \in Files /\ NoFile.cap = 0 /\ NoDecode \in Decodes /\ NoDecode.cap = 0
    BY DEF NoFile, File, Files, NoDecode, Decode, Decodes
  <1>3. /\ trace' = [trace EXCEPT ![dir] = NoFile] /\ guest' = [guest EXCEPT ![dir] = NoFile]
        /\ host' = [host EXCEPT ![dir] = NoFile] /\ decoded' = [decoded EXCEPT ![dir] = NoDecode]
        /\ decoder' = [decoder EXCEPT ![dir] = "none"]
    BY DEF CaptureStart, Cleared
  <1>4. Types'
    BY <1>1, <1>2, <1>3 DEF Types
  <1>5. Progress'
    BY <1>1, <1>2, <1>3 DEF Progress, Types, Exists
  <1>6. SameCapture'
    BY <1>1, <1>2, <1>3 DEF SameCapture, Types
  <1>7. KeepsCapture
    <2>1. dir \in made => "capture" \in force
      BY DEF CaptureStart, MayCapture
    <2>2. Exists(trace[dir]) \/ Exists(guest[dir]) => dir \in made
      BY <1>1 DEF Progress, SameCapture, Exists
    <2>3. \A d \in Dirs : d # dir => trace'[d] = trace[d] /\ guest'[d] = guest[d]
      BY <1>1, <1>3 DEF Types
    <2> QED BY <2>1, <2>2, <2>3 DEF KeepsCapture
  <1> QED BY <1>4, <1>5, <1>6, <1>7

\* The trace is the first file of a capture.
LEMMA RecordOK == ASSUME IInv, TypeOK', Record PROVE IInv' /\ KeepsCapture
  <1> USE DEF IInv
  <1>1. /\ dir \in Dirs /\ dir' = dir /\ stage = "launch" /\ stage' = "dump"
        /\ trace' = [trace EXCEPT ![dir] = File(captures, FALSE)]
        /\ UNCHANGED <<made, guest, host, decoded, decoder, captures>>
    BY DEF Record, Go, Same, TypeOK, history
  <1>2. trace[dir].cap = 0 /\ guest[dir].cap = 0 /\ host[dir].cap = 0 /\ decoded[dir].cap = 0 /\ dir \in made
    BY <1>1 DEF Progress
  <1>3. File(captures, FALSE) \in Files /\ File(captures, FALSE).cap = captures
    BY DEF File, Files, Types
  <1>4. Types'
    BY <1>1, <1>3, Zenon DEF Types
  <1>5. Progress'
    BY <1>1, <1>2, <1>3, Zenon DEF Progress, Types, Exists
  <1>6. SameCapture'
    BY <1>1, <1>2, Zenon DEF SameCapture, Types
  <1>7. KeepsCapture
    BY <1>1, <1>2, Zenon DEF KeepsCapture, Types, Exists
  <1> QED BY <1>4, <1>5, <1>6, <1>7

\* The guest table is of the capture under way.
LEMMA ConvertDumpOK == ASSUME IInv, TypeOK', ConvertDump PROVE IInv' /\ KeepsCapture
  <1> USE DEF IInv
  <1>1. /\ dir \in Dirs /\ stage = "dump" /\ stage' = "convert"
        /\ guest' = [guest EXCEPT ![dir] = File(captures, FALSE)]
        /\ UNCHANGED <<made, trace, host, decoded, decoder, captures>>
    BY DEF ConvertDump, Go, TypeOK, history
  <1>2. trace[dir].cap = captures /\ guest[dir].cap = 0
    BY <1>1 DEF Progress
  <1>3. File(captures, FALSE) \in Files /\ File(captures, FALSE).cap = captures
    BY DEF File, Files, Types
  <1>4. Types'
    BY <1>1, <1>3, Zenon DEF Types
  <1>5. Progress'
    BY <1>1 DEF Progress
  <1>6. SameCapture'
    BY <1>1, <1>2, <1>3, Zenon DEF SameCapture, Types
  <1>7. KeepsCapture
    BY <1>1, <1>2, Zenon DEF KeepsCapture, Types, Exists
  <1> QED BY <1>4, <1>5, <1>6, <1>7

\* Steps that complete a file of the capture.
LEMMA CompleteOK == ASSUME IInv, TypeOK', Dumped \/ CaptureEnd PROVE IInv' /\ KeepsCapture
  <1> USE DEF IInv
  <1>1. /\ dir \in Dirs /\ stage' \notin {"launch", "dump"}
        /\ UNCHANGED <<made, host, decoded, decoder, captures>>
    BY DEF Dumped, CaptureEnd, Go, TypeOK, history
  <1>2. /\ trace' \in [Dirs -> Files] /\ guest' \in [Dirs -> Files]
        /\ \A d \in Dirs : trace'[d].cap = trace[d].cap /\ guest'[d].cap = guest[d].cap
    <2>1. ASSUME NEW f \in Files
          PROVE  [f EXCEPT !.whole = TRUE] \in Files /\ [f EXCEPT !.whole = TRUE].cap = f.cap
      BY Zenon DEF Files
    <2>2. trace \in [Dirs -> Files] /\ guest \in [Dirs -> Files]
      BY DEF Types
    <2>3. CASE Dumped
      <3>1. trace' = trace /\ guest' = [guest EXCEPT ![dir] = [@ EXCEPT !.whole = TRUE]]
        BY <2>3 DEF Dumped
      <3> QED BY ONLY <1>1, <2>1, <2>2, <3>1
    <2>4. CASE CaptureEnd
      <3>1. guest' = guest /\ trace' = [trace EXCEPT ![dir] = [@ EXCEPT !.whole = TRUE]]
        BY <2>4 DEF CaptureEnd
      <3> QED BY ONLY <1>1, <2>1, <2>2, <3>1
    <2> QED BY <2>3, <2>4
  <1>3. Types' /\ Progress' /\ SameCapture'
    BY <1>1, <1>2, Zenon DEF Types, Progress, SameCapture, Exists
  <1>4. KeepsCapture
    BY <1>2 DEF KeepsCapture
  <1> QED BY <1>3, <1>4

\* Steps that change the host's table or the decoded trace of a directory.
LEMMA DerivedOK ==
  ASSUME IInv, TypeOK', NEW d \in Dirs, NEW h \in Files, NEW e \in Decodes,
         UNCHANGED <<made, trace, guest, captures>>,
         host' = [host EXCEPT ![d] = h], decoded' = [decoded EXCEPT ![d] = e],
         decoder' \in [Dirs -> {"none", "alone", "shares", "both"}],
         h.cap \in {0, trace[d].cap}, e.cap \in {0, trace[d].cap},
         stage' \in {"launch", "dump"} => /\ stage' = stage /\ dir' = dir
                                          /\ h.cap = host[d].cap /\ e.cap = decoded[d].cap
  PROVE  IInv' /\ KeepsCapture
  <1> USE DEF IInv
  <1>1. Types'
    BY Zenon DEF Types
  <1>2. \A c \in Dirs : /\ host'[c].cap = IF c = d THEN h.cap ELSE host[c].cap
                        /\ decoded'[c].cap = IF c = d THEN e.cap ELSE decoded[c].cap
    BY DEF Types
  <1>3. SameCapture'
    BY <1>2 DEF SameCapture
  <1>4. Progress'
    <2>1. dir \in Dirs
      BY DEF TypeOK
    <2> QED BY <1>2, <2>1, Zenon DEF Progress
  <1>5. KeepsCapture
    BY DEF KeepsCapture
  <1> QED BY <1>1, <1>3, <1>4, <1>5

\* The host's table is of the capture the guest's is of.
LEMMA HostOK == ASSUME IInv, TypeOK', HostStart \/ Fetch \/ Fetched PROVE IInv' /\ KeepsCapture
  <1> USE DEF IInv
  <1>1. /\ dir \in Dirs /\ stage' \notin {"launch", "dump"}
        /\ UNCHANGED <<made, trace, guest, decoded, decoder, captures>>
    BY DEF HostStart, Fetch, Fetched, Go, TypeOK, history
  <1>2. \E h \in Files : h.cap \in {0, trace[dir].cap} /\ host' = [host EXCEPT ![dir] = h]
    <2>1. NoFile \in Files /\ NoFile.cap = 0
      BY DEF NoFile, File, Files
    <2>2. guest[dir] \in Files /\ guest[dir].cap \in {0, trace[dir].cap}
      BY <1>1 DEF Types, SameCapture
    <2>3. Partial(guest[dir]) \in Files /\ Partial(guest[dir]).cap = guest[dir].cap
      BY <2>2 DEF Partial, File, Files
    <2> QED BY <2>1, <2>2, <2>3 DEF HostStart, Fetch, Fetched
  <1>3. decoded[dir] \in Decodes /\ decoded' = [decoded EXCEPT ![dir] = decoded[dir]]
        /\ decoded[dir].cap \in {0, trace[dir].cap}
    BY <1>1 DEF Types, SameCapture
  <1>4. decoder' \in [Dirs -> {"none", "alone", "shares", "both"}]
    BY <1>1 DEF Types
  <1> QED BY <1>1, <1>2, <1>3, <1>4, DerivedOK, Zenon

\* Steps that write or remove the decoded trace of the directory.
LEMMA DecodeOK ==
  ASSUME IInv, TypeOK', DecodeStart \/ Decoded \/ DecodeError PROVE IInv' /\ KeepsCapture
  <1> USE DEF IInv
  <1>1. /\ dir \in Dirs /\ stage' \notin {"launch", "dump"}
        /\ UNCHANGED <<made, trace, guest, host, captures>>
    BY DEF DecodeStart, Decoded, DecodeError, Go, Exit, TypeOK, history
  <1>2. trace[dir].cap \in Nat /\ trace[dir].whole \in BOOLEAN
    BY <1>1 DEF Types, Files
  <1>3. \E e \in Decodes : e.cap \in {0, trace[dir].cap} /\ decoded' = [decoded EXCEPT ![dir] = e]
    <2>1. NoDecode \in Decodes /\ NoDecode.cap = 0
      BY DEF NoDecode, Decode, Decodes
    <2>2. \A w, f \in BOOLEAN : /\ Decode(trace[dir].cap, w, f) \in Decodes
                               /\ Decode(trace[dir].cap, w, f).cap = trace[dir].cap
      BY <1>2 DEF Decode, Decodes
    <2> QED BY <1>2, <2>1, <2>2, Zenon DEF DecodeStart, Decoded, DecodeError
  <1>4. host[dir] \in Files /\ host' = [host EXCEPT ![dir] = host[dir]]
        /\ host[dir].cap \in {0, trace[dir].cap}
    BY <1>1 DEF Types, SameCapture
  <1>5. decoder' \in [Dirs -> {"none", "alone", "shares", "both"}]
    BY <1>1, Zenon DEF DecodeStart, Decoded, DecodeError, Types
  <1> QED BY <1>1, <1>3, <1>4, <1>5, DerivedOK, Zenon

\* A decoder that was left running writes a decode of the trace that is there.
LEMMA DecoderEndsOK ==
  ASSUME IInv, TypeOK', NEW d \in Dirs, NEW later \in BOOLEAN, DecoderEnds(d, later)
  PROVE  IInv' /\ KeepsCapture
  <1> USE DEF IInv
  <1>1. UNCHANGED <<stage, dir, made, trace, guest, host, captures>>
    BY DEF DecoderEnds, invocation, history
  <1>2. decoded[d] \in Decodes /\ trace[d].whole \in BOOLEAN
    BY DEF Types, Files
  <1> DEFINE e == [decoded[d] EXCEPT !.footer = TRUE, !.whole = trace[d].whole /\ later]
  <1>3. e \in Decodes /\ e.cap = decoded[d].cap
    BY <1>2, Zenon DEF Decodes
  <1>4. decoded' = [decoded EXCEPT ![d] = e]
    BY <1>2, Zenon DEF DecoderEnds, Types, Decodes
  <1>5. e.cap \in {0, trace[d].cap}
    BY <1>3 DEF SameCapture
  <1>6. host[d] \in Files /\ host' = [host EXCEPT ![d] = host[d]] /\ host[d].cap \in {0, trace[d].cap}
    BY <1>1 DEF Types, SameCapture
  <1>7. decoder' \in [Dirs -> {"none", "alone", "shares", "both"}]
    BY DEF DecoderEnds, Types
  <1> HIDE DEF e
  <1> QED BY <1>1, <1>3, <1>4, <1>5, <1>6, <1>7, DerivedOK, Zenon

\* A failure removes at most what is derived from a capture.
LEMMA FailOK == ASSUME IInv, TypeOK', Fail PROVE IInv' /\ KeepsCapture
  <1> USE DEF IInv
  <1>1. /\ dir \in Dirs /\ stage' \notin {"launch", "dump"}
        /\ UNCHANGED <<made, trace, guest, host, captures>>
    BY DEF Fail, Exit, TypeOK
  <1>2. \E e \in Decodes : e.cap \in {0, trace[dir].cap} /\ decoded' = [decoded EXCEPT ![dir] = e]
    <2>1. NoDecode \in Decodes /\ NoDecode.cap = 0
      BY DEF NoDecode, Decode, Decodes
    <2>2. decoded[dir] \in Decodes /\ decoded[dir].cap \in {0, trace[dir].cap}
          /\ decoded = [decoded EXCEPT ![dir] = decoded[dir]]
      BY <1>1 DEF Types, SameCapture
    <2>3. decoded' = decoded \/ decoded' = [decoded EXCEPT ![dir] = NoDecode]
      BY DEF Fail
    <2> QED BY <2>1, <2>2, <2>3
  <1>3. host[dir] \in Files /\ host' = [host EXCEPT ![dir] = host[dir]]
        /\ host[dir].cap \in {0, trace[dir].cap}
    BY <1>1 DEF Types, SameCapture
  <1>4. decoder' \in [Dirs -> {"none", "alone", "shares", "both"}]
    BY <1>1 DEF Fail, Types
  <1> QED BY <1>1, <1>2, <1>3, <1>4, DerivedOK, Zenon

-----------------------------------------------------------------------------
\* Every step keeps the invariant, and captures.
LEMMA NextOK == ASSUME IInv, Next PROVE IInv' /\ KeepsCapture
  <1>0. TypeOK'
    BY TypeStep
  <1>1. ASSUME NEW d \in Dirs, NEW words \in Words, NEW machines \in SUBSET Arches \ {{}},
               Invoke(d, words, machines)
        PROVE  IInv' /\ KeepsCapture
    BY <1>0, <1>1, QuietOK DEF Invoke, Go, files, history, IInv, Types
  <1>2. CASE CaptureSkip \/ CaptureRefuse \/ HostSkip \/ DecodeSkip
    BY <1>0, <1>2, QuietOK DEF CaptureSkip, CaptureRefuse, HostSkip, DecodeSkip, Go, Exit, files,
                               history, IInv, Types
  <1>3. CASE CaptureStart \/ Record \/ ConvertDump \/ Dumped \/ CaptureEnd
    BY <1>0, <1>3, CaptureStartOK, RecordOK, ConvertDumpOK, CompleteOK
  <1>4. CASE HostStart \/ Fetch \/ Fetched
    BY <1>0, <1>4, HostOK
  <1>5. CASE DecodeStart \/ Decoded \/ DecodeError
    BY <1>0, <1>5, DecodeOK
  <1>6. ASSUME NEW a \in Arches, SimSkip(a) \/ SimStart(a) PROVE IInv' /\ KeepsCapture
    BY <1>0, <1>6, QuietOK DEF SimSkip, SimStart, Go, files, history, IInv, Types
  <1>7. CASE Analyse \/ Analysed \/ Finish
    BY <1>0, <1>7, QuietOK DEF Analyse, Analysed, Finish, Go, Exit, files, history, IInv, Types
  <1>8. ASSUME NEW d \in Dirs, NEW later \in BOOLEAN, DecoderEnds(d, later)
        PROVE  IInv' /\ KeepsCapture
    BY <1>0, <1>8, DecoderEndsOK
  <1>9. CASE Fail
    BY <1>0, <1>9, FailOK
  <1>10. CASE Interrupt \/ Crash
    <2>1. decoder' \in [Dirs -> {"none", "alone", "shares", "both"}]
      BY <1>10 DEF Interrupt, Crash, IInv, Types
    <2> QED BY <1>0, <1>10, <2>1, QuietOK DEF Interrupt, Crash, Exit, files
  <1> QED BY <1>1, <1>2, <1>3, <1>4, <1>5, <1>6, <1>7, <1>8, <1>9, <1>10 DEF Next, Step

-----------------------------------------------------------------------------
(* What a simulation finds.                                                *)

Results == [cap : Nat, host : Nat, whole : BOOLEAN]
Capturing == {"launch", "dump", "convert", "finish"}
Simulating == {"sim", "simulating", "analysis"}
Deriving == {"host", "translate", "fetch", "decode", "decoding"}

ResultTypes ==
  /\ analysis \in [Dirs -> [Arches -> Results]]
  /\ asked \subseteq Arches
  /\ stage \in {"simulating", "analysis"} => arch \in Arches
  /\ hurt \in BOOLEAN

\* The files a stage can count on.
Present ==
  /\ stage \in Capturing => captures # 0
  /\ stage \in ({"dump", "convert", "finish"} \cup Deriving) \cup Simulating => Exists(trace[dir])
  /\ stage \in ({"convert", "finish"} \cup Deriving) \cup Simulating => Exists(guest[dir])
  /\ stage \in {"decode", "decoding"} \cup Simulating => Exists(host[dir])

\* A decode that has its footer is of the trace as it is now, whole or not.
Decoding ==
  /\ stage \in Capturing => decoded[dir] = NoDecode /\ decoder[dir] = "none"
  /\ stage = "decoding" => decoder[dir] \in {"none", "shares"}
  /\ stage \in Simulating => Complete(decoded[dir])
  /\ \A d \in Dirs :
       /\ decoder[d] \in {"shares", "both"} => d \in overlaps
       /\ decoded[d].footer => d \in overlaps \/ decoded[d].whole = trace[d].whole

\* Types of the results.
LEMMA ResultTypesStep == ASSUME IInv, ResultTypes, Next PROVE ResultTypes'
  <1> USE DEF ResultTypes
  <1>1. ASSUME NEW d \in Dirs, NEW words \in Words, NEW machines \in SUBSET Arches \ {{}},
               Invoke(d, words, machines)
        PROVE  ResultTypes'
    BY <1>1 DEF Invoke, Go, files, history
  <1>2. CASE CaptureSkip \/ CaptureRefuse \/ CaptureStart
    BY <1>2 DEF CaptureSkip, CaptureRefuse, CaptureStart, Go, Same, Exit, files, history
  <1>3. CASE Record \/ ConvertDump \/ Dumped \/ CaptureEnd
    BY <1>3 DEF Record, ConvertDump, Dumped, CaptureEnd, Go, Same, history
  <1>4. CASE HostSkip \/ HostStart \/ Fetch \/ Fetched
    BY <1>4 DEF HostSkip, HostStart, Fetch, Fetched, Go, Same, files, history
  <1>5. CASE DecodeSkip \/ DecodeStart \/ Decoded \/ DecodeError
    BY <1>5 DEF DecodeSkip, DecodeStart, Decoded, DecodeError, Go, Same, Exit, files, history
  <1>6. ASSUME NEW a \in Arches, SimSkip(a) PROVE ResultTypes'
    BY <1>6 DEF SimSkip, files, history
  <1>7. ASSUME NEW a \in Arches, SimStart(a) PROVE ResultTypes'
    <2>1. NoResult \in Results
      BY DEF NoResult, Result, Results
    <2>2. Default \in Dirs
      BY DirsAssumption
    <2> QED BY <1>7, <2>1, <2>2 DEF SimStart, Go, history
  <1>8. CASE Analyse
    <2>1. dir \in Dirs /\ arch \in Arches
      BY <1>8 DEF Analyse, Go, IInv, TypeOK
    <2>2. Result(decoded[dir].cap, host[dir].cap, FALSE) \in Results
      BY <2>1 DEF IInv, Types, Files, Decodes, Result, Results
    <2> QED BY <1>8, <2>1, <2>2, Zenon DEF Analyse, Go, Same, history
  <1>9. CASE Analysed
    <2>1. dir \in Dirs /\ arch \in Arches
      BY <1>9 DEF Analysed, Go, IInv, TypeOK
    <2> DEFINE w == decoded[dir].whole /\ guest[dir].whole /\ host[dir].whole
    <2>2. w \in BOOLEAN
      OBVIOUS
    <2>3. analysis' = [analysis EXCEPT ![dir][arch].whole = w]
      BY <1>9 DEF Analysed
    <2> HIDE DEF w
    <2>4. analysis' \in [Dirs -> [Arches -> Results]]
      BY <2>1, <2>2, <2>3 DEF Results
    <2> QED BY <1>9, <2>4 DEF Analysed, Go, history
  <1>10. CASE Finish
    BY <1>10 DEF Finish, Exit, files, history
  <1>11. ASSUME NEW d \in Dirs, NEW later \in BOOLEAN, DecoderEnds(d, later) PROVE ResultTypes'
    BY <1>11 DEF DecoderEnds, invocation, history
  <1>12. CASE Fail
    <2>1. NoResult \in Results
      BY DEF NoResult, Result, Results
    <2>2. dir \in Dirs
      BY DEF IInv, TypeOK
    <2>3. stage' \notin {"simulating", "analysis"} /\ hurt' \in BOOLEAN /\ asked' = asked
      BY <1>12 DEF Fail, Fault, Exit
    <2>4. analysis' \in [Dirs -> [Arches -> Results]]
      BY <1>12, <2>1, <2>2 DEF Fail
    <2> QED BY <2>3, <2>4
  <1>13. CASE Interrupt \/ Crash
    BY <1>13, Zenon DEF Interrupt, Crash, Fault, Exit, files
  <1> QED BY <1>1, <1>2, <1>3, <1>4, <1>5, <1>6, <1>7, <1>8, <1>9, <1>10, <1>11, <1>12, <1>13
          DEF Next, Step

\* The stages leave the files the later ones count on.
LEMMA PresentStep == ASSUME IInv, Present, Next PROVE Present'
  <1> USE DEF IInv, Present, Capturing, Simulating, Deriving
  <1>0. dir \in Dirs
    BY DEF TypeOK
  <1>1. ASSUME NEW d \in Dirs, NEW words \in Words, NEW machines \in SUBSET Arches \ {{}},
               Invoke(d, words, machines)
        PROVE  Present'
    BY <1>1 DEF Invoke, Go
  <1>2. CASE CaptureSkip \/ CaptureRefuse
    BY <1>2 DEF CaptureSkip, CaptureRefuse, Captured, Go, Same, Exit, files, history
  <1>3. CASE CaptureStart
    BY <1>3 DEF CaptureStart, Go, Same, Types
  <1>4. CASE Record
    <2>1. trace'[dir].cap = captures
      BY <1>0, <1>4 DEF Record, File, Types
    <2> QED BY <1>4, <2>1, Zenon DEF Record, Go, Same, history, Exists
  <1>5. CASE ConvertDump
    <2>1. guest'[dir].cap = captures
      BY <1>0, <1>5 DEF ConvertDump, File, Types
    <2> QED BY <1>5, <2>1, Zenon DEF ConvertDump, Go, Same, history, Exists
  <1>6. CASE Dumped \/ CaptureEnd
    <2>1. guest'[dir].cap = guest[dir].cap /\ trace'[dir].cap = trace[dir].cap
      BY <1>0, <1>6 DEF Dumped, CaptureEnd, Types, Files
    <2> QED BY <1>6, <2>1 DEF Dumped, CaptureEnd, Go, Same, history, Exists
  <1>7. CASE HostSkip \/ HostStart \/ Fetch
    BY <1>7 DEF HostSkip, HostStart, Fetch, Go, Same, files, history
  <1>8. CASE Fetched
    BY <1>0, <1>8 DEF Fetched, Go, Same, history, Types
  <1>9. CASE DecodeSkip \/ DecodeStart \/ Decoded \/ DecodeError
    BY <1>9 DEF DecodeSkip, DecodeStart, Decoded, DecodeError, Go, Same, Exit, files, history
  <1>10. ASSUME NEW a \in Arches, SimSkip(a) \/ SimStart(a) PROVE Present'
    BY <1>10 DEF SimSkip, SimStart, Go, files, history
  <1>11. CASE Analyse \/ Analysed \/ Finish
    BY <1>11 DEF Analyse, Analysed, Finish, Go, Same, Exit, files, history
  <1>12. ASSUME NEW d \in Dirs, NEW later \in BOOLEAN, DecoderEnds(d, later) PROVE Present'
    BY <1>12 DEF DecoderEnds, invocation, history
  <1>13. CASE Fail
    BY <1>13 DEF Fail, Exit
  <1>14. CASE Interrupt \/ Crash
    BY <1>14 DEF Interrupt, Crash, Exit, files
  <1> QED BY <1>1, <1>2, <1>3, <1>4, <1>5, <1>6, <1>7, <1>8, <1>9, <1>10, <1>11, <1>12, <1>13,
             <1>14 DEF Next, Step

\* Steps after which decodes and traces are what they were.
LEMMA DecodingQuiet ==
  ASSUME Decoding, UNCHANGED <<decoded, trace, overlaps, decoder>>,
         \/ dir' = dir /\ stage \in Capturing /\ stage' \in Capturing
         \/ dir' = dir /\ stage \in Simulating /\ stage' \in Simulating
         \/ stage' \notin (Capturing \cup Simulating) \cup {"decoding"}
  PROVE  Decoding'
  BY DEF Decoding, Capturing, Simulating, Complete, Exists

\* Only a decode of all of the trace, or one that shared its file, has a footer.
LEMMA DecodingStep == ASSUME IInv, Present, Decoding, Next PROVE Decoding'
  <1> USE DEF IInv, Capturing, Simulating, Deriving
  <1>0. dir \in Dirs /\ decoder \in [Dirs -> {"none", "alone", "shares", "both"}]
        /\ decoded \in [Dirs -> Decodes] /\ trace \in [Dirs -> Files]
    BY DEF TypeOK, Types
  <1>1. ASSUME NEW d \in Dirs, NEW words \in Words, NEW machines \in SUBSET Arches \ {{}},
               Invoke(d, words, machines)
        PROVE  Decoding'
    BY <1>1, DecodingQuiet DEF Invoke, Go, files, history
  <1>2. CASE CaptureSkip \/ CaptureRefuse \/ ConvertDump \/ Dumped
    BY <1>2, DecodingQuiet DEF CaptureSkip, CaptureRefuse, ConvertDump, Dumped, Go, Same, Exit,
                               files, history
  <1>3. CASE CaptureStart
    <2>1. NoDecode.footer = FALSE
      BY DEF NoDecode, Decode
    <2> QED BY <1>0, <1>3, <2>1 DEF CaptureStart, Cleared, Go, Same, Decoding
  <1>4. CASE Record \/ CaptureEnd
    <2>1. NoDecode.footer = FALSE
      BY DEF NoDecode, Decode
    <2>2. \A d \in Dirs : d = dir \/ trace'[d] = trace[d]
      BY <1>0, <1>4, Zenon DEF Record, CaptureEnd
    <2>3. decoded[dir] = NoDecode /\ decoder[dir] = "none"
      BY <1>4, Zenon DEF Record, CaptureEnd, Go, Decoding
    <2> QED BY <1>0, <1>4, <2>1, <2>2, <2>3 DEF Record, CaptureEnd, Go, Same, Decoding, history
  <1>5. CASE HostSkip \/ HostStart \/ Fetch \/ Fetched
    BY <1>5, DecodingQuiet DEF HostSkip, HostStart, Fetch, Fetched, Go, Same, files, history
  <1>6. CASE DecodeSkip
    BY <1>6 DEF DecodeSkip, Go, Same, files, history, Decoding
  <1>7. CASE DecodeStart
    <2> DEFINE e == Decode(trace[dir].cap, FALSE, FALSE)
    <2>1. e.footer = FALSE
      BY DEF Decode
    <2>2. decoded' = [decoded EXCEPT ![dir] = e] /\ trace' = trace
      BY <1>7 DEF DecodeStart
    <2> HIDE DEF e
    <2>3. decoder'[dir] \in {"none", "shares"} /\ \A d \in Dirs : d = dir \/ decoder'[d] = decoder[d]
      BY <1>0, <1>7 DEF DecodeStart
    <2>4. overlaps \subseteq overlaps' /\ (decoder'[dir] = "shares" => dir \in overlaps')
      BY <1>0, <1>7 DEF DecodeStart
    <2> QED BY <1>0, <1>7, <2>1, <2>2, <2>3, <2>4, Zenon DEF DecodeStart, Go, Same, Decoding
  <1>8. CASE Decoded
    <2> DEFINE e == Decode(trace[dir].cap, trace[dir].whole, TRUE)
    <2>1. e.footer = TRUE /\ e.whole = trace[dir].whole /\ e.cap = trace[dir].cap
      BY DEF Decode
    <2>2. decoded' = [decoded EXCEPT ![dir] = e] /\ trace' = trace
          /\ decoder' = [decoder EXCEPT ![dir] = "none"]
      BY <1>8 DEF Decoded
    <2>3. Exists(trace[dir])
      BY <1>8 DEF Decoded, Go, Present
    <2> HIDE DEF e
    <2> QED BY <1>0, <1>8, <2>1, <2>2, <2>3, Zenon DEF Decoded, Go, Same, Decoding, history, Complete, Exists
  <1>9. CASE DecodeError
    <2>1. NoDecode.footer = FALSE
      BY DEF NoDecode, Decode
    <2> QED BY <1>0, <1>9, <2>1 DEF DecodeError, Exit, Decoding, history
  <1>10. ASSUME NEW a \in Arches, SimSkip(a) \/ SimStart(a) PROVE Decoding'
    BY <1>10, DecodingQuiet DEF SimSkip, SimStart, Go, files, history
  <1>11. CASE Analyse \/ Analysed \/ Finish
    BY <1>11, DecodingQuiet DEF Analyse, Analysed, Finish, Go, Same, Exit, files, history
  <1>12. ASSUME NEW d \in Dirs, NEW later \in BOOLEAN, DecoderEnds(d, later) PROVE Decoding'
    <2> DEFINE e == [decoded[d] EXCEPT !.footer = TRUE, !.whole = trace[d].whole /\ later]
    <2>1. decoded[d] \in Decodes /\ trace[d] \in Files
      BY <1>0
    <2>2. decoded' = [decoded EXCEPT ![d] = e]
      BY <1>12, <2>1, Zenon DEF DecoderEnds, Types, Decodes
    <2>3. e.cap = decoded[d].cap /\ e.footer /\ (e.whole <=> trace[d].whole /\ later)
      BY <2>1, Zenon DEF Decodes
    <2> HIDE DEF e
    <2>4. decoder[d] # "none" /\ (~later => d \in overlaps)
      BY <1>12 DEF DecoderEnds, Decoding
    <2>5. e.whole \in BOOLEAN /\ trace[d].whole \in BOOLEAN
      BY <2>1 DEF Files, e
    <2>6. \A c \in Dirs : decoded'[c] = IF c = d THEN e ELSE decoded[c]
      BY <1>0, <2>2
    <2>7. \A c \in Dirs : decoder'[c] \in {"shares", "both"} => c \in overlaps
      BY <1>0, <1>12 DEF DecoderEnds, Decoding
    <2>8. UNCHANGED <<stage, dir, trace, overlaps>>
      BY <1>12 DEF DecoderEnds, invocation, history
    <2>9. stage \in Capturing => d # dir
      BY <2>4 DEF Decoding
    <2>10. stage \in Capturing => decoder'[dir] = "none"
      BY <1>0, <1>12, <2>9 DEF DecoderEnds, Decoding
    <2>11. stage = "decoding" => decoder'[dir] \in {"none", "shares"}
      BY <1>0, <1>12 DEF DecoderEnds, Decoding
    <2>12. stage \in Simulating => Complete(decoded'[dir])
      BY <1>0, <2>3, <2>6 DEF Decoding, Complete, Exists
    <2>13. e.footer => d \in overlaps \/ e.whole = trace[d].whole
      BY <2>3, <2>4, <2>5
    <2> QED BY <1>0, <2>6, <2>7, <2>8, <2>9, <2>10, <2>11, <2>12, <2>13 DEF Decoding
  <1>13. CASE Fail
    <2>1. NoDecode.footer = FALSE
      BY DEF NoDecode, Decode
    <2>2. /\ stage' \notin Capturing \cup {"decoding"} /\ trace' = trace /\ overlaps' = overlaps
          /\ stage' \in Simulating => stage = "analysis" /\ dir' = dir /\ decoded' = decoded
      BY <1>13 DEF Fail, Exit
    <2>3. \A d \in Dirs : /\ decoded'[d] = decoded[d] \/ decoded'[d] = NoDecode
                          /\ decoder'[d] = decoder[d] \/ decoder'[d] = "none"
      BY <1>0, <1>13 DEF Fail
    <2>4. \A d \in Dirs :
            /\ decoder'[d] \in {"shares", "both"} => d \in overlaps'
            /\ decoded'[d].footer => d \in overlaps' \/ decoded'[d].whole = trace'[d].whole
      BY <2>1, <2>2, <2>3 DEF Decoding
    <2>5. stage' \in Simulating => Complete(decoded'[dir'])
      BY <2>2 DEF Decoding
    <2> QED BY <2>2, <2>4, <2>5 DEF Decoding
  <1>14. CASE Interrupt
    <2>1. \A d \in Dirs :
            \/ decoder'[d] = decoder[d] \/ decoder'[d] = "alone"
            \/ decoder'[d] = "both" /\ d = dir /\ stage = "decoding" /\ decoder[d] # "none"
      BY <1>0, <1>14 DEF Interrupt
    <2>2. \A d \in Dirs : decoder'[d] \in {"shares", "both"} => d \in overlaps
      BY <2>1 DEF Decoding
    <2> QED BY <1>14, <2>2 DEF Interrupt, Exit, files, Decoding
  <1>15. CASE Crash
    BY <1>15 DEF Crash, Exit, files, Decoding
  <1> QED BY <1>1, <1>2, <1>3, <1>4, <1>5, <1>6, <1>7, <1>8, <1>9, <1>10, <1>11, <1>12, <1>13,
             <1>14, <1>15 DEF Next, Step

-----------------------------------------------------------------------------
(* What an invocation that was not hurt leaves.                            *)

\* A file that is there is whole, but for the one that is being written.
WholeFiles ==
  ~hurt => \A d \in Dirs :
    /\ Exists(guest[d]) => guest[d].whole \/ (d = dir /\ stage = "convert")
    /\ Exists(guest[d]) => trace[d].whole \/ (d = dir /\ stage \in {"convert", "finish"})
    /\ Exists(host[d]) => host[d].whole \/ (d = dir /\ stage = "fetch")
WholeResults ==
  ~hurt /\ overlaps = {} => \A a \in Arches :
    Exists(analysis[Default][a]) =>
      analysis[Default][a].whole \/ (stage = "analysis" /\ dir = Default /\ a = arch)

\* Steps that write no file a later invocation takes as it is.
LEMMA WholeFilesQuiet ==
  ASSUME WholeFiles, UNCHANGED <<trace, guest, host>>, hurt' = hurt, stage \notin InPlace
  PROVE  WholeFiles'
  BY DEF WholeFiles, InPlace, Exists

\* A file is written to its end before the next stage, or the run was hurt.
LEMMA WholeFilesStep == ASSUME IInv, Present, WholeFiles, Next PROVE WholeFiles'
  <1> USE DEF IInv, InPlace
  <1>0. dir \in Dirs /\ trace \in [Dirs -> Files] /\ guest \in [Dirs -> Files]
        /\ host \in [Dirs -> Files]
    BY DEF TypeOK, Types
  <1>1. ASSUME NEW d \in Dirs, NEW words \in Words, NEW machines \in SUBSET Arches \ {{}},
               Invoke(d, words, machines)
        PROVE  WholeFiles'
    BY <1>1, WholeFilesQuiet DEF Invoke, Go, files, history
  <1>2. CASE CaptureSkip \/ CaptureRefuse \/ HostSkip
    BY <1>2, WholeFilesQuiet DEF CaptureSkip, CaptureRefuse, HostSkip, Go, files, history
  <1>3. CASE CaptureStart
    <2>1. NoFile.cap = 0
      BY DEF NoFile, File
    <2> QED BY <1>0, <1>3, <2>1 DEF CaptureStart, Cleared, Go, Same, WholeFiles, Exists
  <1>4. CASE Record
    <2>1. guest[dir].cap = 0
      BY <1>4 DEF Record, Go, Progress
    <2>2. \A d \in Dirs : d = dir \/ trace'[d] = trace[d]
      BY <1>0, <1>4, Zenon DEF Record
    <2> QED BY <1>4, <2>1, <2>2, Zenon DEF Record, Go, Same, history, WholeFiles, Exists
  <1>5. CASE ConvertDump
    <2>1. \A d \in Dirs : d = dir \/ guest'[d] = guest[d]
      BY <1>0, <1>5, Zenon DEF ConvertDump
    <2> QED BY <1>5, <2>1, Zenon DEF ConvertDump, Go, Same, history, WholeFiles, Exists
  <1>6. CASE Dumped
    <2>1. guest'[dir].whole /\ \A d \in Dirs : d = dir \/ guest'[d] = guest[d]
      BY <1>0, <1>6 DEF Dumped, Files
    <2> QED BY <1>6, <2>1 DEF Dumped, Go, Same, history, WholeFiles, Exists
  <1>7. CASE CaptureEnd
    <2>1. trace'[dir].whole /\ \A d \in Dirs : d = dir \/ trace'[d] = trace[d]
      BY <1>0, <1>7 DEF CaptureEnd, Files
    <2> QED BY <1>7, <2>1 DEF CaptureEnd, Go, Same, history, WholeFiles, Exists
  <1>8. CASE HostStart
    <2>1. NoFile.cap = 0
      BY DEF NoFile, File
    <2> QED BY <1>0, <1>8, <2>1 DEF HostStart, Go, Same, history, WholeFiles, Exists
  <1>9. CASE Fetch
    <2>1. \A d \in Dirs : d = dir \/ host'[d] = host[d]
      BY <1>0, <1>9 DEF Fetch
    <2> QED BY <1>9, <2>1 DEF Fetch, Go, Same, history, WholeFiles, Exists
  <1>10. CASE Fetched
    <2>1. host'[dir] = guest[dir] /\ \A d \in Dirs : d = dir \/ host'[d] = host[d]
      BY <1>0, <1>10 DEF Fetched
    <2> QED BY <1>10, <2>1 DEF Fetched, Go, Same, history, WholeFiles, Exists
  <1>11. CASE DecodeSkip \/ DecodeStart \/ Decoded \/ DecodeError
    BY <1>11, WholeFilesQuiet DEF DecodeSkip, DecodeStart, Decoded, DecodeError, Go, files, history
  <1>12. ASSUME NEW a \in Arches, SimSkip(a) \/ SimStart(a) PROVE WholeFiles'
    BY <1>12, WholeFilesQuiet DEF SimSkip, SimStart, Go, files, history
  <1>13. CASE Analyse \/ Finish
    BY <1>13, WholeFilesQuiet, Zenon DEF Analyse, Finish, Go, files, history
  <1>14. CASE Analysed
    BY <1>14 DEF Analysed, Go, history, WholeFiles, Exists
  <1>15. ASSUME NEW d \in Dirs, NEW later \in BOOLEAN, DecoderEnds(d, later) PROVE WholeFiles'
    BY <1>15 DEF DecoderEnds, invocation, history, WholeFiles, Exists
  <1>16. CASE Fail
    BY <1>16, WholeFilesQuiet DEF Fail, Fault, WholeFiles
  <1>17. CASE Interrupt \/ Crash
    BY <1>17, WholeFilesQuiet DEF Interrupt, Crash, Fault, files, WholeFiles
  <1> QED BY <1>1, <1>2, <1>3, <1>4, <1>5, <1>6, <1>7, <1>8, <1>9, <1>10, <1>11, <1>12, <1>13,
             <1>14, <1>15, <1>16, <1>17 DEF Next, Step

\* Steps that write no result.
LEMMA WholeResultsQuiet ==
  ASSUME WholeResults, UNCHANGED <<analysis, hurt, arch>>, overlaps \subseteq overlaps',
         stage # "analysis" \/ UNCHANGED <<stage, dir>>
  PROVE  WholeResults'
  BY DEF WholeResults, Exists

\* A result is whole when the files it is from are.
LEMMA WholeResultsStep ==
  ASSUME IInv, ResultTypes, Present, Decoding, WholeFiles, WholeResults, Next PROVE WholeResults'
  <1> USE DEF IInv, InPlace
  <1>0. dir \in Dirs /\ Default \in Dirs /\ analysis \in [Dirs -> [Arches -> Results]]
    BY DirsAssumption DEF TypeOK, ResultTypes
  <1>1. ASSUME NEW d \in Dirs, NEW words \in Words, NEW machines \in SUBSET Arches \ {{}},
               Invoke(d, words, machines)
        PROVE  WholeResults'
    BY <1>1, WholeResultsQuiet DEF Invoke, Go, files, history
  <1>2. CASE CaptureSkip \/ CaptureStart \/ Record \/ ConvertDump \/ Dumped \/ CaptureEnd
    BY <1>2, WholeResultsQuiet DEF CaptureSkip, CaptureStart, Record, ConvertDump, Dumped,
                                   CaptureEnd, Go, Same, files, history
  <1>3. CASE HostSkip \/ HostStart \/ Fetch \/ Fetched
    BY <1>3, WholeResultsQuiet DEF HostSkip, HostStart, Fetch, Fetched, Go, Same, files, history
  <1>4. CASE DecodeSkip \/ DecodeStart \/ Decoded
    BY <1>4, WholeResultsQuiet DEF DecodeSkip, DecodeStart, Decoded, Go, Same, files, history
  <1>5. CASE CaptureRefuse \/ DecodeError \/ Finish
    BY <1>5 DEF CaptureRefuse, DecodeError, Finish, Exit, files, history, WholeResults, Exists
  <1>6. ASSUME NEW a \in Arches, SimSkip(a) PROVE WholeResults'
    BY <1>6, WholeResultsQuiet DEF SimSkip, files, history
  <1>7. ASSUME NEW a \in Arches, SimStart(a) PROVE WholeResults'
    <2>1. NoResult.cap = 0
      BY DEF NoResult, Result
    <2>2. \A b \in Arches : analysis'[Default][b] = IF b = a THEN NoResult ELSE analysis[Default][b]
      BY <1>0, <1>7 DEF SimStart
    <2> QED BY <1>7, <2>1, <2>2 DEF SimStart, Go, history, WholeResults, Exists
  <1>8. CASE Analyse
    <2>1. \A b \in Arches : \/ dir = Default /\ b = arch
                            \/ analysis'[Default][b] = analysis[Default][b]
      BY <1>0, <1>8, Zenon DEF Analyse
    <2> QED BY <1>8, <2>1, Zenon DEF Analyse, Go, Same, history, WholeResults, Exists
  <1>9. CASE Analysed
    <2> DEFINE w == decoded[dir].whole /\ guest[dir].whole /\ host[dir].whole
    <2>1. arch \in Arches
      BY <1>9 DEF Analysed, Go, ResultTypes
    <2>2. analysis' = [analysis EXCEPT ![dir][arch].whole = w]
      BY <1>9 DEF Analysed
    <2>3. ~hurt /\ overlaps = {} => w
      <3>1. Exists(guest[dir]) /\ Exists(host[dir]) /\ Complete(decoded[dir]) /\ stage = "analysis"
        BY <1>9 DEF Analysed, Go, Present, Decoding, Simulating, Deriving
      <3>2. ~hurt => guest[dir].whole /\ trace[dir].whole /\ host[dir].whole
        BY <1>0, <3>1 DEF WholeFiles
      <3>3. overlaps = {} => decoded[dir].whole = trace[dir].whole
        BY <1>0, <3>1 DEF Decoding, Complete
      <3> QED BY <3>2, <3>3
    <2> HIDE DEF w
    <2>4. \A b \in Arches : \/ dir = Default /\ b = arch /\ analysis'[Default][b].whole = w
                            \/ ~(dir = Default /\ b = arch) /\ analysis'[Default][b] = analysis[Default][b]
      BY <1>0, <2>1, <2>2 DEF Results
    <2> QED BY <1>9, <2>3, <2>4, Zenon DEF Analysed, Go, history, WholeResults, Exists
  <1>10. ASSUME NEW d \in Dirs, NEW later \in BOOLEAN, DecoderEnds(d, later) PROVE WholeResults'
    BY <1>10, WholeResultsQuiet DEF DecoderEnds, invocation, history
  <1>11. CASE Fail
    BY <1>11, Zenon DEF Fail, Fault, Exit, WholeResults, Exists
  <1>12. CASE Interrupt \/ Crash
    BY <1>12, Zenon DEF Interrupt, Crash, Fault, Exit, files, WholeResults, Exists
  <1> QED BY <1>1, <1>2, <1>3, <1>4, <1>5, <1>6, <1>7, <1>8, <1>9, <1>10, <1>11, <1>12
          DEF Next, Step

-----------------------------------------------------------------------------
(* What an invocation that simulates again leaves.                         *)

\* A result is of the capture that is there.
OfTrace(r) == Exists(r) => r.cap = trace[Default].cap /\ r.host = trace[Default].cap
Current ==
  /\ stage # "idle" => exit = "none"
  /\ stage \in (Capturing \cup Deriving) \cup {"capture"} => todo = asked
  /\ "sim" \in force /\ dir = Default /\ stage \in Simulating =>
       \A a \in asked \ todo : OfTrace(analysis[Default][a])

\* Steps that write no result, before the simulations or among them.
LEMMA CurrentQuiet ==
  ASSUME Current, UNCHANGED <<dir, force, todo, asked, exit>>,
         \/ /\ stage \in (Capturing \cup Deriving) \cup {"capture"}
            /\ stage' \in ((Capturing \cup Deriving) \cup Simulating) \cup {"capture"}
         \/ /\ stage \in Simulating /\ stage' \in Simulating
            /\ UNCHANGED <<analysis, trace>>
  PROVE  Current'
  BY DEF Current, Capturing, Deriving, Simulating, OfTrace, Exists

\* Each machine is simulated anew, from files of the capture that is there.
LEMMA CurrentStep ==
  ASSUME IInv, ResultTypes, Present, Decoding, Current, Next PROVE Current'
  <1> USE DEF IInv, Capturing, Deriving, Simulating
  <1>0. dir \in Dirs /\ Default \in Dirs /\ analysis \in [Dirs -> [Arches -> Results]]
        /\ asked \subseteq Arches
    BY DirsAssumption DEF TypeOK, ResultTypes
  <1>1. ASSUME NEW d \in Dirs, NEW words \in Words, NEW machines \in SUBSET Arches \ {{}},
               Invoke(d, words, machines)
        PROVE  Current'
    BY <1>1 DEF Invoke, Go, Current
  <1>2. CASE CaptureSkip \/ CaptureStart \/ Record \/ ConvertDump \/ Dumped \/ CaptureEnd
    BY <1>2, CurrentQuiet DEF CaptureSkip, CaptureStart, Record, ConvertDump, Dumped,
                              CaptureEnd, Go, Same
  <1>3. CASE HostSkip \/ HostStart \/ Fetch \/ Fetched
    BY <1>3, CurrentQuiet DEF HostSkip, HostStart, Fetch, Fetched, Go, Same
  <1>4. CASE DecodeSkip \/ DecodeStart \/ Decoded
    BY <1>4, CurrentQuiet DEF DecodeSkip, DecodeStart, Decoded, Go, Same
  <1>5. CASE CaptureRefuse \/ DecodeError \/ Finish \/ Interrupt \/ Crash
    BY <1>5 DEF CaptureRefuse, DecodeError, Finish, Interrupt, Crash, Exit, Current
  <1>6. ASSUME NEW a \in Arches, SimSkip(a) PROVE Current'
    BY <1>6 DEF SimSkip, Simulated, files, Current, OfTrace, Exists
  <1>7. ASSUME NEW a \in Arches, SimStart(a) PROVE Current'
    <2>1. NoResult.cap = 0
      BY DEF NoResult, Result
    <2>2. \A b \in Arches : analysis'[Default][b] = IF b = a THEN NoResult ELSE analysis[Default][b]
      BY <1>0, <1>7 DEF SimStart
    <2> QED BY <1>0, <1>7, <2>1, <2>2 DEF SimStart, Go, Current, OfTrace, Exists
  <1>8. CASE Analyse
    <2> DEFINE r == Result(decoded[dir].cap, host[dir].cap, FALSE)
    <2>1. r.cap = trace[dir].cap /\ r.host = trace[dir].cap
      BY <1>0, <1>8 DEF Analyse, Go, Present, Decoding, Complete, Exists, SameCapture, Result
    <2>2. analysis' = [analysis EXCEPT ![dir][arch] = r]
      BY <1>8 DEF Analyse
    <2> HIDE DEF r
    <2>3. \A b \in Arches : \/ dir = Default /\ analysis'[Default][b] = r
                            \/ analysis'[Default][b] = analysis[Default][b]
      BY <1>0, <2>2
    <2> QED BY <1>0, <1>8, <2>1, <2>3, Zenon DEF Analyse, Go, Same, Current, OfTrace, Exists
  <1>9. CASE Analysed
    <2> DEFINE w == decoded[dir].whole /\ guest[dir].whole /\ host[dir].whole
    <2>1. analysis' = [analysis EXCEPT ![dir][arch].whole = w]
      BY <1>9 DEF Analysed
    <2> HIDE DEF w
    <2>2. \A b \in Arches : /\ analysis'[Default][b].cap = analysis[Default][b].cap
                            /\ analysis'[Default][b].host = analysis[Default][b].host
      BY <1>0, <2>1 DEF Results
    <2> QED BY <1>0, <1>9, <2>2 DEF Analysed, Go, Current, OfTrace, Exists
  <1>10. ASSUME NEW d \in Dirs, NEW later \in BOOLEAN, DecoderEnds(d, later) PROVE Current'
    BY <1>10 DEF DecoderEnds, invocation, Current, OfTrace, Exists
  <1>11. CASE Fail
    <2>1. NoResult.cap = 0
      BY DEF NoResult, Result
    <2>2. CASE stage = "analysis"
      <3>1. \A b \in Arches : analysis'[Default][b] \in {NoResult, analysis[Default][b]}
        BY <1>0, <1>11, <2>2 DEF Fail
      <3> QED BY <1>0, <1>11, <2>1, <2>2, <3>1 DEF Fail, Current, OfTrace, Exists
    <2> QED BY <1>11, <2>2 DEF Fail, Exit, Current
  <1> QED BY <1>1, <1>2, <1>3, <1>4, <1>5, <1>6, <1>7, <1>8, <1>9, <1>10, <1>11 DEF Next, Step

-----------------------------------------------------------------------------
RInv == /\ IInv /\ ResultTypes /\ Present /\ Decoding
        /\ WholeFiles /\ WholeResults /\ Current

\* Nothing has been run.
LEMMA InitMore == Init => RInv
  <1> SUFFICES ASSUME Init PROVE RInv
    OBVIOUS
  <1>1. NoResult \in Results /\ NoResult.cap = 0 /\ NoFile.cap = 0 /\ NoDecode.footer = FALSE
    BY DEF NoResult, Result, Results, NoFile, File, NoDecode, Decode
  <1>2. IInv
    BY InitOK
  <1>3. ResultTypes /\ Present
    BY <1>1, Zenon DEF Init, ResultTypes, Present, Capturing, Deriving, Simulating
  <1>4. Decoding
    BY <1>1 DEF Init, Decoding, Capturing, Simulating
  <1>5. WholeFiles /\ WholeResults
    BY <1>1, DirsAssumption DEF Init, WholeFiles, WholeResults, Exists
  <1>6. Current
    BY DEF Init, Current, Capturing, Deriving, Simulating
  <1> QED BY <1>2, <1>3, <1>4, <1>5, <1>6 DEF RInv

\* A step that changes nothing keeps the invariant.
LEMMA Stutter == ASSUME RInv, UNCHANGED vars PROVE RInv'
  <1> USE DEF RInv, vars, invocation, files, history
  <1>1. IInv'
    BY DEF IInv, Types, TypeOK, Progress, SameCapture
  <1>2. ResultTypes' /\ Present'
    BY DEF ResultTypes, Present, Exists
  <1>3. Decoding'
    BY DEF Decoding, Complete, Exists
  <1>4. WholeFiles' /\ WholeResults' /\ Current'
    BY DEF WholeFiles, WholeResults, Current, OfTrace, Exists
  <1> QED BY <1>1, <1>2, <1>3, <1>4

\* The invariant holds always.
LEMMA Invariance == Spec => []RInv
  <1>1. RInv /\ [Next]_vars => RInv'
    <2> SUFFICES ASSUME RInv, [Next]_vars PROVE RInv'
      OBVIOUS
    <2>1. CASE Next
      <3> USE DEF RInv
      <3>1. IInv'
        BY <2>1, NextOK
      <3>2. ResultTypes' /\ Present' /\ Decoding'
        BY <2>1, ResultTypesStep, PresentStep, DecodingStep
      <3>3. WholeFiles' /\ WholeResults' /\ Current'
        BY <2>1, WholeFilesStep, WholeResultsStep, CurrentStep
      <3> QED BY <3>1, <3>2, <3>3
    <2> QED BY <2>1, Stutter
  <1> QED BY InitMore, <1>1, PTL DEF Spec

\* TypeOK: an invocation is at a stage, and --force capture entails the rest.
THEOREM TypeCorrect == Spec => []TypeOK
  <1>1. RInv => TypeOK
    BY DEF RInv, IInv
  <1> QED BY Invariance, <1>1, PTL

\* SameCapture: however invocations fail, overlap with a decoder left running
\* or are forced, the files of a directory are of one capture.
THEOREM FilesOfOneCapture == Spec => []SameCapture
  <1>1. RInv => SameCapture
    BY DEF RInv, IInv
  <1> QED BY Invariance, <1>1, PTL

\* NothingLost: no step removes or replaces a trace or a guest page table
\* unless --force capture asked for it.
THEOREM NothingIsLost == Spec => NothingLost
  <1>1. RInv /\ [Next]_vars => [KeepsCapture]_vars
    BY NextOK DEF RInv
  <1> QED BY Invariance, <1>1, PTL DEF Spec, NothingLost

\* ReplaysWhole: however decodes were interrupted, left running or forced, a
\* simulation replays a whole decode unless the trace itself was cut short or
\* two decoders wrote the one file.
THEOREM SimulationsReplayWhole == Spec => []ReplaysWhole
  <1>1. RInv => ReplaysWhole
    <2> SUFFICES ASSUME RInv, stage = "simulating" PROVE
          \/ decoded[dir].whole /\ decoded[dir].footer
          \/ ~trace[dir].whole
          \/ dir \in overlaps
      BY DEF ReplaysWhole
    <2>1. dir \in Dirs /\ decoded[dir].footer
      BY DEF RInv, IInv, TypeOK, Decoding, Complete, Simulating
    <2> QED BY <2>1 DEF RInv, Decoding
  <1> QED BY Invariance, <1>1, PTL

\* RepeatIsSafe: through any number of failures, interrupts and crashes outside
\* the stages that write in place, a completed run leaves results of whole files.
THEOREM RepeatedRunsAreWhole == Spec => []RepeatIsSafe
  <1>1. RInv => RepeatIsSafe
    BY DEF RInv, Current, ResultTypes, WholeResults, RepeatIsSafe
  <1> QED BY Invariance, <1>1, PTL

\* ForcedIsCurrent: a run with --force sim into the workload's own directory
\* completes with results of the capture that is there, or with none.
THEOREM ForcedResultsAreCurrent == Spec => ForcedIsCurrent
  <1> DEFINE A == exit' = "complete" /\ exit # "complete" /\ "sim" \in force /\ dir = Default =>
                    \A a \in asked : OfTrace(analysis[Default][a])
  <1>1. RInv /\ [Next]_vars => [A]_vars
    <2> SUFFICES ASSUME RInv, Next, exit' = "complete", exit # "complete", "sim" \in force,
                        dir = Default
                 PROVE  \A a \in asked : OfTrace(analysis[Default][a])
      OBVIOUS
    <2>1. Finish
      <3>1. CASE Step
        BY <3>1 DEF Step, CaptureSkip, CaptureRefuse, CaptureStart, Record, ConvertDump, Dumped,
                    CaptureEnd, HostSkip, HostStart, Fetch, Fetched, DecodeSkip, DecodeStart,
                    Decoded, DecodeError, SimSkip, SimStart, Analyse, Analysed, Exit, Same
      <3>2. CASE Fail \/ Interrupt \/ Crash
        BY <3>2 DEF Fail, Interrupt, Crash, Exit
      <3> QED BY <3>1, <3>2, Zenon DEF Next, Invoke, DecoderEnds, invocation
    <2> QED BY <2>1 DEF Finish, RInv, Current, Simulating
  <1> QED BY Invariance, <1>1, PTL DEF Spec, ForcedIsCurrent, OfTrace
=============================================================================
