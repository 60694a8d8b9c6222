--------------------------- MODULE CaptureProofs ---------------------------
(***************************************************************************)
(* For any number of runs: who holds a stopped app, and what a capture     *)
(* that ends well has captured.                                            *)
(***************************************************************************)
EXTENDS Capture, TLAPS

StateFiles ==
  [status : {"", "starting", "tracing", "done", "failed", "interrupted"}, pid : Runs \cup {None}]
EnablerFiles == [status : {"", "off", "on", "pid"}, pid : Runs \cup {None}]

Types ==
  /\ drv \in [Runs -> Over \cup {"idle", "poll", "read", "freeze", "stopped", "dump", "reading",
                                "thaw", "thaw and fail", "finish"}]
  /\ lch \in [Runs -> Over \cup {"none", "prepare", "hook", "launch", "wait", "confirm", "record",
                                "post"}]
  /\ app \in [Runs -> {"none", "init", "wedged", "recording", "headless", "parked", "gone"}]
  /\ held \in [Runs -> BOOLEAN] /\ frozen \in [Runs -> BOOLEAN] /\ term \in [Runs -> BOOLEAN]
  /\ dpid \in [Runs -> Runs \cup {None}] /\ lpid \in [Runs -> Runs \cup {None}]
  /\ rc \in [Runs -> {0, 1}]
  /\ state \in StateFiles /\ enabler \in EnablerFiles
  /\ gpid \in Runs \cup {None}
  /\ outdir \in BOOLEAN /\ ready \in BOOLEAN /\ torn \in BOOLEAN

\* Runs start in order, each after the driver before it has ended.
Ordered ==
  \A r \in Runs : drv[r] # "idle" => \A a \in Runs : a < r => drv[a] \in Over

\* A run that has not started.
Fresh(r) ==
  drv[r] = "idle" => app[r] = "none" /\ lch[r] = "none" /\ ~held[r] /\ lpid[r] = None /\ dpid[r] = None

\* A driver that has not got to kill -STOP.
Unmarked(r) == drv[r] \in {"idle", "poll", "read", "freeze"} => ~frozen[r] /\ r \notin slipped

-----------------------------------------------------------------------------
(* The latest run, when nothing of an earlier one was there at its start.  *)

Clean(r) == drv[r] # "idle" /\ Latest(r) /\ orphans = {}

Alone(r) ==
  \A a \in Runs \ {r} : ~Alive(a) /\ lch[a] \in Over \cup {"none"} /\ drv[a] \in Over \cup {"idle"}

OwnPids(r) == {state.pid, enabler.pid, lpid[r], dpid[r]} \subseteq {None, r}

\* How far the launcher is, and what is then there.
Launched(r) ==
  /\ lch[r] # "none"
  /\ lch[r] \in {"prepare", "hook", "launch"} => app[r] = "none"
  /\ lch[r] \in {"wait", "confirm", "record", "post", "done"} => app[r] # "none" /\ r \in trace
  /\ lch[r] = "launch" => ~ready
  /\ lch[r] \in {"post", "done"} => app[r] = "gone"
  /\ lch[r] = "done" => rc[r] = 0

\* Readiness comes before recording.
InOrder(r) ==
  /\ app[r] # "none" /\ ready => r \in told
  /\ enabler.status \in {"on", "pid"} => r \in told
  /\ app[r] \in {"recording", "headless", "parked"} => r \in told

\* From the state file to the driver's APP_PID.
Early == {"prepare", "hook", "launch", "wait", "confirm"}
Passed(r) ==
  /\ state.status = "tracing" \/ drv[r] \notin Over \cup {"poll"}
       => lch[r] \notin Early /\ state.pid = lpid[r]
  /\ drv[r] \notin Over \cup {"poll", "read"} => dpid[r] = lpid[r]

\* The app is stopped from before the dump until after it.
Holding(r) ==
  /\ drv[r] \in {"poll", "read", "freeze", "finish"} => ~held[r]
  /\ drv[r] \in {"stopped", "dump"} /\ dpid[r] = r /\ Alive(r) => held[r]
  /\ drv[r] \in {"dump", "reading", "thaw"} /\ held[r] => frozen[r]
  /\ drv[r] \in {"stopped", "dump", "reading", "thaw"} /\ held[r] => dpid[r] = r
  /\ drv[r] = "reading" => gpid = r /\ ~torn /\ (Alive(r) => held[r])
  /\ drv[r] = "thaw" /\ held[r] => ~LeaderGone(r)
  /\ drv[r] \in {"thaw", "finish", "done"} => guestPt = Table(r, "exact")

\* An app that ended well has reached the limit, or was reaped while stopped,
\* and then there is no dump of it.
Complete(r) ==
  /\ app[r] = "parked" => r \in complete
  /\ app[r] = "gone" /\ rc[r] = 0 =>
       \/ r \in complete
       \/ lch[r] \in {"failed", "interrupted"}
       \/ drv[r] \in {"stopped", "dump", "reading", "thaw and fail", "failed", "interrupted"}
  /\ drv[r] = "done" => lch[r] = "done" /\ r \in complete

Own(r) ==
  Alone(r) /\ OwnPids(r) /\ Launched(r) /\ InOrder(r) /\ Passed(r) /\ Holding(r) /\ Complete(r)

IInv ==
  /\ Types /\ Ordered /\ HeldByDriver
  /\ \A r \in Runs : Fresh(r) /\ Unmarked(r)
  /\ \A r \in Runs : Clean(r) => Own(r)
  /\ orphans = {} => \A r \in Runs : Alive(r) \/ lch[r] \notin Over \cup {"none"} => Clean(r)

-----------------------------------------------------------------------------
\* The state file's contents and their fields have their types.
LEMMA StateTyped ==
  /\ \A s \in {"", "starting", "tracing", "done", "failed", "interrupted"}, p \in Runs \cup {None} :
       State(s, p) \in StateFiles
  /\ \A f \in StateFiles : f.pid \in Runs \cup {None}
  BY DEF State, StateFiles

\* So have the enabler file's.
LEMMA EnablerTyped ==
  /\ \A s \in {"", "off", "on", "pid"}, p \in Runs \cup {None} : State(s, p) \in EnablerFiles
  /\ \A f \in EnablerFiles : f.pid \in Runs \cup {None}
  BY DEF State, EnablerFiles

\* Before the first run, the invariant holds.
LEMMA InitOK == Init => IInv
  <1> SUFFICES ASSUME Init PROVE IInv
    OBVIOUS
  <1>1. /\ drv = [r \in Runs |-> "idle"] /\ lch = [r \in Runs |-> "none"] /\ app = [r \in Runs |-> "none"]
        /\ held = [r \in Runs |-> FALSE] /\ frozen = [r \in Runs |-> FALSE] /\ slipped = {}
        /\ dpid = [r \in Runs |-> None] /\ lpid = [r \in Runs |-> None]
    BY DEF Init
  <1>2. state \in StateFiles /\ enabler \in EnablerFiles
    BY StateTyped, EnablerTyped DEF Init
  <1>3. rc \in [Runs -> {0, 1}] /\ term \in [Runs -> BOOLEAN] /\ gpid = None
        /\ outdir = FALSE /\ ready = FALSE /\ torn = FALSE
    BY DEF Init
  <1>5. Types
    BY <1>1, <1>2, <1>3, Zenon DEF Types
  <1>4. Ordered /\ HeldByDriver /\ \A r \in Runs : Fresh(r) /\ Unmarked(r) /\ ~Clean(r) /\ ~Alive(r)
    BY <1>1 DEF Ordered, HeldByDriver, Fresh, Unmarked, Clean, Alive
  <1> QED BY <1>1, <1>4, <1>5 DEF IInv

\* What one run does once it has started.
Act(r) == DriverStep(r) \/ Interrupt(r) \/ LauncherStep(r) \/ AppStep(r) \/ AppFault(r)

\* A step is the start of a run, or a step of one of its processes.
LEMMA Steps == ASSUME Next PROVE \E r \in Runs : Start(r) \/ Act(r)
  BY DEF Next, Act

\* The launcher's steps keep every variable in its type.
LEMMA LauncherTypes == ASSUME Types, NEW r \in Runs, LauncherStep(r) PROVE Types'
  <1> USE StateTyped, EnablerTyped DEF Types, Lch, Publish, Over, driver, launcher, workload, files
  <1>1. CASE PrepareDir(r)
    BY <1>1 DEF PrepareDir, None
  <1>2. CASE PrepareFiles(r)
    BY <1>2 DEF PrepareFiles, None
  <1>3. CASE Launch(r)
    BY <1>3 DEF Launch
  <1>4. CASE Readiness(r)
    <2>1. lch' \in [Runs -> Over \cup {"none", "prepare", "hook", "launch", "wait", "confirm", "record",
                                      "post"}]
      BY <1>4, ZenonT(60) DEF Readiness
    <2>2. state' \in StateFiles
      <3>1. state' = state \/ state' = State("failed", None)
        BY <1>4, Zenon DEF Readiness
      <3>2. State("failed", None) \in StateFiles
        BY StateTyped
      <3> QED BY <3>1, <3>2 DEF Types
    <2>3. enabler' \in EnablerFiles
      <3>1. enabler' = enabler \/ enabler' = State("on", None)
        BY <1>4, Zenon DEF Readiness
      <3>2. State("on", None) \in EnablerFiles
        BY EnablerTyped
      <3> QED BY <3>1, <3>2 DEF Types
    <2> QED BY <1>4, <2>1, <2>2, <2>3 DEF Readiness
  <1>5. CASE Confirm(r)
    <2>1. (IF Alive(r) THEN Acknowledged ELSE None) \in Runs \cup {None}
      BY DEF Acknowledged
    <2> QED BY <1>5, <2>1 DEF Confirm
  <1>6. CASE Reap(r) \/ Ended(r)
    BY <1>6 DEF Reap, Ended
  <1>7. CASE Summary(r)
    BY <1>7 DEF Summary
  <1>8. ASSUME NEW dies \in BOOLEAN, Terminated(r, dies) PROVE Types'
    <2>1. lch' \in [Runs -> Over \cup {"none", "prepare", "hook", "launch", "wait", "confirm", "record",
                                      "post"}]
      <3>1. \E v \in {"failed", "interrupted"} : lch' = [lch EXCEPT ![r] = v]
        BY <1>8 DEF Terminated
      <3> QED BY <3>1
    <2>2. state' \in StateFiles
      <3>1. state' = state \/ state' = State("interrupted", lpid[r])
        BY <1>8, Zenon DEF Terminated
      <3>2. State("interrupted", lpid[r]) \in StateFiles
        BY StateTyped
      <3> QED BY <3>1, <3>2 DEF Types
    <2>3. app' \in [Runs -> {"none", "init", "wedged", "recording", "headless", "parked", "gone"}]
      <3>1. app' = app \/ \E v \in {app[r], "gone"} : app' = [app EXCEPT ![r] = v]
        BY <1>8 DEF Terminated
      <3> QED BY <3>1
    <2>4. term' \in [Runs -> BOOLEAN]
      BY <1>8 DEF Terminated
    <2> QED BY <1>8, <2>1, <2>2, <2>3, <2>4 DEF Terminated
  <1> QED BY <1>1, <1>2, <1>3, <1>4, <1>5, <1>6, <1>7, <1>8 DEF LauncherStep

\* So do the workload's.
LEMMA AppTypes == ASSUME Types, NEW a \in Runs, AppStep(a) \/ AppFault(a) PROVE Types'
  <1> USE EnablerTyped DEF Types, App, driver, launcher, workload, files
  <1>1. CASE SignalReady(a) \/ Touch(a)
    <2>1. CASE SignalReady(a)
      BY <2>1, ZenonT(60) DEF SignalReady
    <2>2. CASE Touch(a)
      BY <2>2, ZenonT(60) DEF Touch
    <2> QED BY <1>1, <2>1, <2>2
  <1>2. CASE CheckEnabler(a)
    <2>1. app' \in [Runs -> {"none", "init", "wedged", "recording", "headless", "parked", "gone"}]
          /\ rc' \in [Runs -> {0, 1}]
      BY <1>2 DEF CheckEnabler
    <2>2. enabler' \in EnablerFiles
      <3>1. enabler' = enabler \/ enabler' = State("pid", a)
        BY <1>2, Zenon DEF CheckEnabler
      <3>2. State("pid", a) \in EnablerFiles
        BY EnablerTyped
      <3> QED BY <3>1, <3>2 DEF Types
    <2> QED BY <1>2, <2>1, <2>2 DEF CheckEnabler
  <1>3. CASE Limit(a) \/ LeaderExits(a) \/ Wedge(a) \/ Crash(a)
    BY <1>3 DEF Limit, LeaderExits, Wedge, Crash
  <1> QED BY <1>1, <1>2, <1>3 DEF AppStep, AppFault

\* And the driver's.
LEMMA DriverTypes ==
  ASSUME Types, NEW r \in Runs, Start(r) \/ DriverStep(r) \/ Interrupt(r) PROVE Types'
  <1> USE StateTyped, EnablerTyped DEF Types, Drv, Over, driver, launcher, workload, files
  <1>1. CASE Start(r)
    BY <1>1 DEF Start, None
  <1>2. CASE Poll(r) \/ Finish(r)
    BY <1>2 DEF Poll, Finish
  <1>3. CASE ReadPid(r)
    BY <1>3 DEF ReadPid
  <1>4. CASE Freeze(r) \/ MarkFrozen(r)
    BY <1>4 DEF Freeze, MarkFrozen, None
  <1>5. CASE Target(r) \/ Dump(r)
    BY <1>5 DEF Target, Dump
  <1>6. CASE Thaw(r)
    <2>1. held' \in [Runs -> BOOLEAN]
      BY <1>6 DEF Thaw, Thawed
    <2> QED BY <1>6, <2>1 DEF Thaw
  <1>7. CASE Interrupt(r)
    <2>1. held' \in [Runs -> BOOLEAN]
      BY <1>7 DEF Interrupt, Thawed
    <2>2. gpid' \in Runs \cup {None} /\ torn' \in BOOLEAN
      BY <1>7 DEF Interrupt
    <2> QED BY <1>7, <2>1, <2>2 DEF Interrupt
  <1> QED BY <1>1, <1>2, <1>3, <1>4, <1>5, <1>6, <1>7 DEF DriverStep

-----------------------------------------------------------------------------
(* Who holds a stopped app.                                                *)

Holds ==
  /\ Types /\ Ordered /\ HeldByDriver
  /\ \A r \in Runs : Fresh(r) /\ Unmarked(r)

\* Steps of launchers and apps leave the drivers alone and stop no app.
LEMMA OtherHolds ==
  ASSUME Holds, Types', UNCHANGED <<drv, slipped, dpid, frozen>>,
         \A a \in Runs : held'[a] => held[a],
         \A a \in Runs : drv[a] = "idle" => app'[a] = app[a] /\ lch'[a] = lch[a] /\ lpid'[a] = lpid[a]
  PROVE  Holds'
  BY DEF Holds, Ordered, HeldByDriver, Fresh, Unmarked

\* A launcher neither stops nor continues an app: it may only end it.
LEMMA LauncherHolds == ASSUME Holds, NEW r \in Runs, LauncherStep(r) PROVE Holds'
  <1>1. Types'
    BY LauncherTypes DEF Holds
  <1>2. lch[r] # "none"
    BY DEF LauncherStep, PrepareDir, PrepareFiles, Launch, Readiness, Confirm, Reap, Ended, Summary,
           Terminated, Lch, Over
  <1>3. drv[r] # "idle"
    BY <1>2 DEF Holds, Fresh
  <1>4. UNCHANGED <<drv, slipped, dpid, frozen>>
    BY DEF LauncherStep, PrepareDir, PrepareFiles, Launch, Readiness, Confirm, Reap, Ended, Summary,
           Terminated, driver
  <1>5. held' = held \/ held' = [held EXCEPT ![r] = FALSE]
    BY DEF LauncherStep, PrepareDir, PrepareFiles, Launch, Readiness, Confirm, Reap, Ended, Summary,
           Terminated, workload
  <1>6. \A a \in Runs : a # r => app'[a] = app[a] /\ lch'[a] = lch[a] /\ lpid'[a] = lpid[a]
    <2>1. CASE PrepareDir(r) \/ PrepareFiles(r) \/ Launch(r) \/ Reap(r) \/ Ended(r)
      BY <2>1 DEF PrepareDir, PrepareFiles, Launch, Reap, Ended, Lch, workload, Holds, Types
    <2>2. CASE Readiness(r) \/ Confirm(r) \/ Summary(r)
      BY <2>2 DEF Readiness, Confirm, Summary, Publish, workload, Holds, Types
    <2>3. ASSUME NEW dies \in BOOLEAN, Terminated(r, dies)
          PROVE  \A a \in Runs : a # r => app'[a] = app[a] /\ lch'[a] = lch[a] /\ lpid'[a] = lpid[a]
      BY <2>3 DEF Terminated, Publish, Holds, Types
    <2> QED BY <2>1, <2>2, <2>3 DEF LauncherStep
  <1>7. \A a \in Runs : held'[a] => held[a]
    BY <1>5 DEF Holds, Types
  <1> QED BY <1>1, <1>3, <1>4, <1>6, <1>7, OtherHolds

\* A stopped app does nothing, and one that runs does not stop itself.
LEMMA AppHolds == ASSUME Holds, NEW r \in Runs, AppStep(r) \/ AppFault(r) PROVE Holds'
  <1> USE DEF AppStep, AppFault, SignalReady, CheckEnabler, Limit, Touch, LeaderExits, Wedge, Crash, App
  <1>1. Types'
    BY AppTypes DEF Holds
  <1>2. drv[r] # "idle"
    BY DEF Holds, Fresh
  <1>3. UNCHANGED <<drv, slipped, dpid, frozen, held, lch, lpid>>
    BY DEF driver, launcher, workload
  <1>4. \A a \in Runs : a # r => app'[a] = app[a]
    BY DEF workload, Holds, Types
  <1> QED BY <1>1, <1>2, <1>3, <1>4, OtherHolds

\* A driver that moves on leaves the order of the runs as it is.
LEMMA OrderOK ==
  ASSUME Types, Ordered, NEW r \in Runs, NEW v, drv' = [drv EXCEPT ![r] = v], drv[r] \notin Over,
         v # "idle", drv[r] = "idle" => \A a \in Runs : a < r => drv[a] \in Over
  PROVE  Ordered'
  <1> SUFFICES ASSUME NEW b \in Runs, drv'[b] # "idle", NEW a \in Runs, a < b PROVE drv'[a] \in Over
    BY DEF Ordered
  <1>1. a # b /\ a \in Nat /\ b \in Nat
    BY RunsAssumption
  <1>2. CASE b = r
    BY <1>1, <1>2 DEF Types, Ordered
  <1>3. CASE b # r
    <2>1. drv[b] # "idle"
      BY <1>3 DEF Types
    <2>2. drv[a] \in Over
      BY <2>1 DEF Ordered
    <2>3. a # r
      BY <2>2
    <2> QED BY <2>2, <2>3 DEF Types
  <1> QED BY <1>2, <1>3

\* Only the driver stops and continues, and FROZEN says that it did.
LEMMA DriverHolds ==
  ASSUME Holds, NEW r \in Runs, Start(r) \/ DriverStep(r) \/ Interrupt(r) PROVE Holds'
  <1> USE DEF Holds
  <1>1. Types'
    BY DriverTypes
  <1>2. PICK v : drv' = [drv EXCEPT ![r] = v] /\ v # "idle"
    <2>1. CASE Start(r) \/ Interrupt(r)
      BY ONLY <2>1 DEF Start, Interrupt, Drv
    <2>2. CASE Poll(r) \/ ReadPid(r) \/ Freeze(r) \/ MarkFrozen(r)
      BY ONLY <2>2 DEF Poll, ReadPid, Freeze, MarkFrozen, Drv
    <2>3. CASE Target(r) \/ Dump(r) \/ Thaw(r)
      BY ONLY <2>3 DEF Target, Dump, Thaw, Drv
    <2>4. CASE Finish(r)
      <3> DEFINE v == IF lch[r] = "done" THEN "done" ELSE "failed"
      <3>1. drv' = [drv EXCEPT ![r] = v]
        BY ONLY <2>4 DEF Finish, Drv
      <3>2. v # "idle"
        OBVIOUS
      <3> QED BY ONLY <3>1, <3>2, Zenon
    <2> QED BY <2>1, <2>2, <2>3, <2>4 DEF DriverStep
  <1>3. drv[r] \notin Over
    BY DEF Start, DriverStep, Poll, ReadPid, Freeze, MarkFrozen, Target, Dump, Thaw, Finish, Interrupt,
           Drv, Over
  <1>4. Ordered'
    <2>1. drv[r] = "idle" => \A a \in Runs : a < r => drv[a] \in Over
      BY DEF Start, DriverStep, Poll, ReadPid, Freeze, MarkFrozen, Target, Dump, Thaw, Finish,
             Interrupt, Drv
    <2> QED BY <1>2, <1>3, <2>1, OrderOK, Zenon
  <1>5. drv'[r] = v /\ \A a \in Runs : a # r => drv'[a] = drv[a]
    BY <1>2 DEF Types
  <1>6. \A a \in Runs : Fresh(a)'
    <2> SUFFICES ASSUME NEW a \in Runs, drv'[a] = "idle"
                 PROVE  app'[a] = "none" /\ lch'[a] = "none" /\ ~held'[a] /\ lpid'[a] = None
                        /\ dpid'[a] = None
      BY DEF Fresh
    <2>1. a # r /\ drv[a] = "idle"
      BY <1>2, <1>5
    <2>2. app[a] = "none" /\ lch[a] = "none" /\ ~held[a] /\ lpid[a] = None /\ dpid[a] = None
      BY <2>1 DEF Fresh
    <2>3. app' = app /\ lpid' = lpid /\ lch'[a] = lch[a]
      BY <2>1 DEF Start, DriverStep, Poll, ReadPid, Freeze, MarkFrozen, Target, Dump, Thaw, Finish,
                  Interrupt, workload, launcher, Types
    <2>4. dpid'[a] = dpid[a]
      BY <2>1 DEF Start, DriverStep, Poll, ReadPid, Freeze, MarkFrozen, Target, Dump, Thaw, Finish,
                  Interrupt, Types
    <2>5. ~held'[a]
      <3>1. CASE Freeze(r)
        BY <2>2, <3>1 DEF Freeze, Alive, Types
      <3>2. CASE Thaw(r) \/ Interrupt(r)
        BY <2>2, <3>2, ZenonT(60) DEF Thaw, Interrupt, Thawed, Types
      <3>3. CASE ~Freeze(r) /\ ~Thaw(r) /\ ~Interrupt(r)
        BY <2>2, <3>3 DEF Start, DriverStep, Poll, ReadPid, MarkFrozen, Target, Dump, Finish, workload
      <3> QED BY <3>1, <3>2, <3>3
    <2> QED BY <2>2, <2>3, <2>4, <2>5
  <1>7. \A a \in Runs : Unmarked(a)'
    <2> SUFFICES ASSUME NEW a \in Runs, drv'[a] \in {"idle", "poll", "read", "freeze"}
                 PROVE  ~frozen'[a] /\ a \notin slipped'
      BY DEF Unmarked
    <2>1. drv[a] \in {"idle", "poll", "read", "freeze"}
      BY <1>5, ZenonT(60) DEF Start, DriverStep, Poll, ReadPid, Freeze, MarkFrozen, Target, Dump, Thaw, Finish,
                  Interrupt, Drv, Over, Types
    <2>2. ~frozen[a] /\ a \notin slipped
      BY <2>1 DEF Unmarked
    <2>3. frozen'[a] => frozen[a]
      <3>1. CASE MarkFrozen(r)
        BY <1>5, <3>1 DEF MarkFrozen, Drv, Types
      <3>2. CASE ~MarkFrozen(r)
        <4>1. frozen' = frozen \/ frozen' = [frozen EXCEPT ![r] = FALSE]
          BY <3>2 DEF Start, DriverStep, Poll, ReadPid, Freeze, Target, Dump, Thaw, Finish, Interrupt
        <4> QED BY <4>1 DEF Types
      <3> QED BY <3>1, <3>2
    <2>4. a \notin slipped'
      BY <1>5, <2>1, <2>2 DEF Start, DriverStep, Poll, ReadPid, Freeze, MarkFrozen, Target, Dump, Thaw,
                              Finish, Interrupt, Over
    <2> QED BY <2>2, <2>3, <2>4
  <1>8. HeldByDriver'
    <2> DEFINE By(q, a) == dpid[q] = a /\ (frozen[q] \/ drv[q] = "stopped" \/ q \in slipped)
    <2> SUFFICES ASSUME NEW a \in Runs, held'[a] PROVE \E q \in Runs : By(q, a)'
      BY DEF HeldByDriver
    <2>1. CASE Freeze(r) /\ ~held[a]
      <3>1. dpid[r] = a /\ drv'[r] = "stopped" /\ dpid' = dpid
        BY <2>1 DEF Freeze, Drv, Types
      <3> QED BY <3>1
    <2>2. CASE held[a]
      <3>1. PICK q \in Runs : By(q, a)
        BY <2>2 DEF HeldByDriver
      <3>2. CASE q # r
        <4>1. dpid'[q] = dpid[q] /\ frozen'[q] = frozen[q] /\ drv'[q] = drv[q]
          BY <1>5, <3>2 DEF Start, DriverStep, Poll, ReadPid, Freeze, MarkFrozen, Target, Dump, Thaw,
                            Finish, Interrupt, Types
        <4>2. q \in slipped => q \in slipped'
          BY DEF Start, DriverStep, Poll, ReadPid, Freeze, MarkFrozen, Target, Dump, Thaw, Finish,
                 Interrupt
        <4> QED BY <3>1, <4>1, <4>2
      <3>3. CASE q = r
        <4>1. drv[r] \notin {"idle", "poll", "read", "freeze"}
          BY <3>1, <3>3 DEF Unmarked
        <4>2. CASE MarkFrozen(r)
          BY <3>1, <3>3, <4>2 DEF MarkFrozen, Types
        <4>3. CASE Thaw(r)
          <5>1. ~frozen[r]
            BY <3>1, <3>3, <4>3 DEF Thaw, Thawed, Types
          <5>2. drv[r] # "stopped" /\ dpid' = dpid /\ slipped' = slipped
            BY <4>3 DEF Thaw, Drv
          <5> QED BY <3>1, <3>3, <5>1, <5>2
        <4>4. CASE Interrupt(r)
          <5>1. ~frozen[r]
            BY <3>1, <3>3, <4>4 DEF Interrupt, Thawed, Types
          <5>2. dpid' = dpid /\ r \in slipped'
            BY <3>1, <3>3, <4>4, <5>1 DEF Interrupt
          <5> QED BY <3>1, <3>3, <5>2
        <4>5. CASE Target(r) \/ Dump(r) \/ Finish(r)
          <5>1. drv[r] # "stopped" /\ dpid' = dpid /\ slipped' = slipped /\ frozen' = frozen
            BY <4>5 DEF Target, Dump, Finish, Drv
          <5> QED BY <3>1, <3>3, <5>1
        <4> QED BY <4>1, <4>2, <4>3, <4>4, <4>5 DEF Start, DriverStep, Poll, ReadPid, Freeze, Drv
      <3> QED BY <3>2, <3>3
    <2>3. CASE ~Freeze(r) /\ ~held[a]
      BY <2>3 DEF Start, DriverStep, Poll, ReadPid, MarkFrozen, Target, Dump, Thaw, Finish, Interrupt,
                  Thawed, workload, Types
    <2> QED BY <2>1, <2>2, <2>3
  <1> QED BY <1>1, <1>4, <1>6, <1>7, <1>8

\* Who holds a stopped app, after any step.
LEMMA HoldsOK == ASSUME Holds, Next PROVE Holds'
  BY Steps, LauncherHolds, AppHolds, DriverHolds DEF Act

-----------------------------------------------------------------------------
(* The latest run.                                                         *)

\* What stays of the run from one step to the next.
LEMMA OnlyOwnSteps ==
  ASSUME Holds, NEW r \in Runs, Clean(r), Own(r), NEW q \in Runs, Act(q) PROVE q = r
  <1> SUFFICES ASSUME q # r PROVE FALSE
    OBVIOUS
  <1>1. app[q] \in {"none", "gone"} /\ lch[q] \in Over \cup {"none"} /\ drv[q] \in Over \cup {"idle"}
    BY DEF Own, Alone, Alive
  <1>2. ~DriverStep(q)
    BY <1>1 DEF DriverStep, Poll, ReadPid, Freeze, MarkFrozen, Target, Dump, Thaw, Finish, Drv, Over
  <1>3. ~Interrupt(q)
    BY <1>1 DEF Interrupt
  <1>4. ~LauncherStep(q)
    BY <1>1 DEF LauncherStep, PrepareDir, PrepareFiles, Launch, Readiness, Confirm, Reap, Ended, Summary,
                Terminated, Lch, Over
  <1>5. ~AppStep(q)
    BY <1>1 DEF AppStep, SignalReady, CheckEnabler, Limit, App
  <1>6. ~AppFault(q)
    BY <1>1 DEF AppFault, Touch, LeaderExits, Wedge, Crash, App
  <1> QED BY <1>2, <1>3, <1>4, <1>5, <1>6 DEF Act

\* Of two runs one is the earlier.
LEMMA InSequence == \A a, b \in Runs : a # b => a < b \/ b < a
  BY RunsAssumption

\* A run that finds nothing alive starts with files that name no other app.
LEMMA StartOwn == ASSUME Holds, NEW r \in Runs, Start(r), orphans' = {} PROVE Own(r)'
  <1> USE DEF Holds, Types
  <1>1. drv[r] = "idle" /\ drv'[r] = "poll" /\ lch'[r] = "prepare"
    <2>1. drv[r] = "idle" /\ drv' = [drv EXCEPT ![r] = "poll"] /\ lch' = [lch EXCEPT ![r] = "prepare"]
      BY DEF Start, Drv
    <2> QED BY <2>1
  <1>2. app[r] = "none" /\ ~held[r] /\ lpid[r] = None /\ dpid[r] = None
    BY <1>1 DEF Fresh
  <1>3. \A a \in Runs : ~Alive(a) /\ lch[a] \in Over \cup {"none"}
    BY DEF Start
  <1>4. \A a \in Runs : a # r => drv'[a] = drv[a] /\ lch'[a] = lch[a]
    <2>1. drv' = [drv EXCEPT ![r] = "poll"] /\ lch' = [lch EXCEPT ![r] = "prepare"]
      BY DEF Start, Drv
    <2> QED BY <2>1
  <1>5. app' = app /\ held' = held /\ lpid' = lpid /\ dpid' = dpid
    BY DEF Start, workload
  <1>6. state' = State("", None) /\ enabler' = State("", None)
    BY DEF Start
  <1>7. state'.status = "" /\ state'.pid = None /\ enabler'.status = "" /\ enabler'.pid = None
    BY <1>6 DEF State
  <1>8. Alone(r)'
    <2>1. \A a \in Runs : a # r => drv[a] \in Over \cup {"idle"}
      <3> SUFFICES ASSUME NEW a \in Runs, a # r, drv[a] # "idle" PROVE drv[a] \in Over
        OBVIOUS
      <3>1. a < r \/ r < a
        BY InSequence
      <3>2. ~(r < a)
        BY <1>1 DEF Ordered, Over
      <3> QED BY <3>1, <3>2 DEF Start
    <2> QED BY <1>3, <1>4, <1>5, <2>1 DEF Alone, Alive
  <1>9. OwnPids(r)' /\ Launched(r)' /\ InOrder(r)' /\ Passed(r)'
    BY <1>1, <1>2, <1>5, <1>7 DEF OwnPids, Launched, InOrder, Passed, Over
  <1>10. Holding(r)' /\ Complete(r)'
    BY <1>1, <1>2, <1>5 DEF Holding, Complete, Over
  <1> QED BY <1>8, <1>9, <1>10 DEF Own

\* Nothing else moves.
LEMMA OthersStay ==
  ASSUME Holds, NEW r \in Runs, Act(r), NEW a \in Runs, a # r
  PROVE  app'[a] = app[a] /\ lch'[a] = lch[a] /\ drv'[a] = drv[a]
  <1> USE DEF Holds, Types
  <1>1. CASE DriverStep(r)
    BY <1>1 DEF DriverStep, Poll, ReadPid, Freeze, MarkFrozen, Target, Dump, Thaw, Finish, Drv, launcher,
                workload
  <1>2. CASE Interrupt(r)
    BY <1>2 DEF Interrupt
  <1>3. CASE LauncherStep(r)
    <2>1. CASE PrepareDir(r) \/ PrepareFiles(r) \/ Launch(r) \/ Reap(r) \/ Ended(r)
      BY <2>1 DEF PrepareDir, PrepareFiles, Launch, Reap, Ended, Lch, driver, workload
    <2>2. CASE Readiness(r) \/ Confirm(r) \/ Summary(r)
      BY <2>2 DEF Readiness, Confirm, Summary, Publish, driver, workload
    <2>3. ASSUME NEW dies \in BOOLEAN, Terminated(r, dies)
          PROVE  app'[a] = app[a] /\ lch'[a] = lch[a] /\ drv'[a] = drv[a]
      BY <2>3 DEF Terminated, Publish, driver
    <2> QED BY <1>3, <2>1, <2>2, <2>3 DEF LauncherStep
  <1>4. CASE AppStep(r) \/ AppFault(r)
    BY <1>4 DEF AppStep, AppFault, SignalReady, CheckEnabler, Limit, Touch, LeaderExits, Wedge, Crash, App,
                driver, launcher, workload
  <1> QED BY <1>1, <1>2, <1>3, <1>4 DEF Act

\* What is alone stays so: only its own processes take steps.
LEMMA AloneOK == ASSUME Holds, NEW r \in Runs, Act(r), Alone(r) PROVE Alone(r)'
  BY OthersStay DEF Alone, Alive

\* The parts of Own but the first, of which every step is about one run.
Rest(r) == OwnPids(r) /\ Launched(r) /\ InOrder(r) /\ Passed(r) /\ Holding(r) /\ Complete(r)

\* The launcher makes the directory anew, clears the signals and starts the app.
LEMMA PrepareRest ==
  ASSUME Types, NEW r \in Runs, Rest(r), drv[r] # "idle", PrepareDir(r) \/ PrepareFiles(r) \/ Launch(r)
  PROVE  Rest(r)'
  <1> USE DEF Types
  <1>1. UNCHANGED <<drv, dpid, frozen, gpid, held, rc, told, complete, lpid, torn>>
    BY DEF PrepareDir, PrepareFiles, Launch, driver, workload
  <1>2. lch[r] \in {"prepare", "hook", "launch"} /\ app[r] = "none"
    BY DEF PrepareDir, PrepareFiles, Launch, Lch, Rest, Launched
  <1>3. drv[r] \in Over \cup {"poll"} /\ state.status # "tracing" /\ drv[r] # "done"
    BY <1>2 DEF Rest, Passed, Early, Complete
  <1>4. lch'[r] \in {"hook", "launch", "wait"}
    BY DEF PrepareDir, PrepareFiles, Launch, Lch
  <1>5. state' = state \/ state' = State("starting", None)
    BY DEF PrepareDir, PrepareFiles, Launch
  <1>6. state'.status # "tracing" /\ state'.pid \in {None, r}
    <2>1. State("starting", None).status = "starting" /\ State("starting", None).pid = None
      BY DEF State
    <2>2. state.pid \in {None, r}
      BY DEF Rest, OwnPids
    <2> QED BY <1>3, <1>5, <2>1, <2>2
  <1>7. enabler' \in {enabler, State("", None), State("off", None)}
    BY DEF PrepareDir, PrepareFiles, Launch
  <1>8. enabler'.pid \in {None, r} /\ (enabler'.status \in {"on", "pid"} => r \in told)
    <2>1. \A t \in {"", "off"} : State(t, None).status = t /\ State(t, None).pid = None
      BY DEF State
    <2>2. enabler.pid \in {None, r} /\ (enabler.status \in {"on", "pid"} => r \in told)
      BY DEF Rest, OwnPids, InOrder
    <2>3. CASE enabler' = enabler
      BY <2>2, <2>3
    <2>4. CASE enabler' = State("", None)
      BY <2>1, <2>4
    <2>5. CASE enabler' = State("off", None)
      BY <2>1, <2>5
    <2> QED BY <1>7, <2>3, <2>4, <2>5
  <1>9. OwnPids(r)' /\ Passed(r)'
    BY <1>1, <1>3, <1>6, <1>8 DEF OwnPids, Passed, Rest
  <1>10. Launched(r)' /\ InOrder(r)' /\ Complete(r)'
    <2>1. CASE PrepareDir(r)
      BY <1>1, <1>2, <1>3, <1>8, <2>1 DEF PrepareDir, Lch, workload, Launched, InOrder, Complete
    <2>2. CASE PrepareFiles(r)
      BY <1>1, <1>2, <1>3, <1>8, <2>2 DEF PrepareFiles, Lch, workload, Launched, InOrder, Complete
    <2>3. CASE Launch(r)
      <3>1. lch[r] = "launch" /\ lch'[r] = "wait" /\ app'[r] = "init" /\ r \in trace' /\ ready' = ready
        BY <2>3 DEF Launch, Lch
      <3>2. ~ready
        BY <3>1 DEF Rest, Launched
      <3> QED BY <1>1, <1>3, <1>8, <3>1, <3>2 DEF Launched, InOrder, Complete
    <2> QED BY <2>1, <2>2, <2>3
  <1>11. Holding(r)'
    BY <1>1, <1>3 DEF Holding, Rest, Over
  <1> QED BY <1>9, <1>10, <1>11 DEF Rest

\* It enables the recording after the app said it was ready.
LEMMA ReadinessRest ==
  ASSUME Types, NEW r \in Runs, Rest(r), drv[r] # "idle", Readiness(r) PROVE Rest(r)'
  <1> USE DEF Types
  <1>1. UNCHANGED <<drv, dpid, frozen, gpid, app, held, rc, told, complete, lpid, torn, trace, ready,
                    guestPt>>
    BY DEF Readiness, driver, workload
  <1>2. lch[r] = "wait" /\ app[r] # "none" /\ r \in trace
    BY DEF Readiness, Rest, Launched
  <1>3. drv[r] \in Over \cup {"poll"} /\ state.status # "tracing" /\ drv[r] # "done"
    BY <1>2 DEF Rest, Passed, Early, Complete
  <1>4. lch'[r] \in {"confirm", "failed"}
    BY DEF Readiness, Publish
  <1>5. state' = state \/ state' = State("failed", None)
    BY Zenon DEF Readiness, Publish
  <1>6. state'.status # "tracing" /\ state'.pid \in {None, r}
    <2>1. State("failed", None).status = "failed" /\ State("failed", None).pid = None
      BY DEF State
    <2>2. state.pid \in {None, r}
      BY DEF Rest, OwnPids
    <2> QED BY <1>3, <1>5, <2>1, <2>2
  <1>7. enabler' = enabler \/ (enabler' = State("on", None) /\ ready)
    BY Zenon DEF Readiness
  <1>8. enabler'.pid \in {None, r} /\ (enabler'.status \in {"on", "pid"} => r \in told)
    <2>1. State("on", None).status = "on" /\ State("on", None).pid = None
      BY DEF State
    <2>2. enabler.pid \in {None, r} /\ (enabler.status \in {"on", "pid"} => r \in told)
      BY DEF Rest, OwnPids, InOrder
    <2>3. ready => r \in told
      BY <1>2 DEF Rest, InOrder
    <2> QED BY <1>7, <2>1, <2>2, <2>3
  <1>9. OwnPids(r)' /\ Passed(r)'
    BY <1>1, <1>3, <1>6, <1>8 DEF OwnPids, Passed, Rest
  <1>10. Launched(r)' /\ InOrder(r)'
    BY <1>1, <1>2, <1>4, <1>8 DEF Launched, InOrder, Rest
  <1>11. Holding(r)'
    BY <1>1, <1>3 DEF Holding, Rest, Over
  <1>12. Complete(r)'
    BY <1>1, <1>2, <1>3, <1>4 DEF Complete, Rest
  <1> QED BY <1>9, <1>10, <1>11, <1>12 DEF Rest

\* The PID it passes on is the one its own app wrote.
LEMMA ConfirmRest ==
  ASSUME Types, NEW r \in Runs, Rest(r), drv[r] # "idle", Confirm(r) PROVE Rest(r)'
  <1> USE DEF Types
  <1>1. UNCHANGED <<drv, dpid, frozen, gpid, app, held, rc, told, complete, torn, trace, ready, enabler,
                    guestPt>>
    BY DEF Confirm, driver, workload
  <1>2. lch[r] = "confirm" /\ app[r] # "none" /\ r \in trace
    BY DEF Confirm, Rest, Launched
  <1>3. drv[r] \in Over \cup {"poll"} /\ state.status # "tracing" /\ drv[r] # "done"
    BY <1>2 DEF Rest, Passed, Early, Complete
  <1> DEFINE p == IF Alive(r) THEN Acknowledged ELSE None
  <1>4. p \in {None, r}
    BY DEF Acknowledged, Rest, OwnPids
  <1>5. lpid' = [lpid EXCEPT ![r] = p] /\ Publish(r, "tracing", p, "record")
    BY DEF Confirm
  <1> HIDE DEF p
  <1>6. lpid'[r] = p
    BY <1>5
  <1>7. lch'[r] \in {"record", "failed"}
    BY <1>5 DEF Publish
  <1>8. state' = state \/ state' = State("tracing", p)
    BY <1>5 DEF Publish
  <1>9. state'.pid \in {None, r} /\ (state'.status = "tracing" => state'.pid = p)
    <2>1. State("tracing", p).pid = p
      BY DEF State
    <2>2. state.pid \in {None, r}
      BY DEF Rest, OwnPids
    <2> QED BY <1>3, <1>4, <1>8, <2>1, <2>2
  <1>10. OwnPids(r)' /\ Passed(r)'
    BY <1>1, <1>3, <1>4, <1>6, <1>7, <1>9 DEF OwnPids, Passed, Rest, Early
  <1>11. Launched(r)' /\ InOrder(r)'
    BY <1>1, <1>2, <1>7 DEF Launched, InOrder, Rest
  <1>12. Holding(r)'
    BY <1>1, <1>3 DEF Holding, Rest, Over
  <1>13. Complete(r)'
    BY <1>1, <1>2, <1>3, <1>7 DEF Complete, Rest
  <1> QED BY <1>10, <1>11, <1>12, <1>13 DEF Rest

\* An app it ends has recorded all, or is stopped for a dump that will fail.
LEMMA ReapRest ==
  ASSUME Types, NEW r \in Runs, Rest(r), drv[r] # "idle", Reap(r) \/ Ended(r) PROVE Rest(r)'
  <1> USE DEF Types
  <1>1. UNCHANGED <<drv, dpid, frozen, gpid, told, complete, torn, trace, ready, enabler, state, guestPt,
                    lpid>>
    BY DEF Reap, Ended, driver, workload, files
  <1>2. lch[r] = "record" /\ lch'[r] = "post" /\ app[r] # "none" /\ r \in trace /\ drv[r] # "done"
    BY DEF Reap, Ended, Lch, Rest, Launched, Complete
  <1>3. app'[r] = "gone" /\ (held'[r] => held[r] /\ app[r] = "gone")
    BY <1>2 DEF Reap, Ended, Alive, workload
  <1>4. OwnPids(r)' /\ Passed(r)'
    BY <1>1, <1>2 DEF OwnPids, Passed, Rest, Early
  <1>5. Launched(r)' /\ InOrder(r)'
    BY <1>1, <1>2, <1>3 DEF Launched, InOrder, Rest
  <1>6. Holding(r)'
    BY <1>1, <1>3 DEF Holding, Rest, Alive, LeaderGone
  <1>7. Complete(r)'
    <2>1. CASE Ended(r)
      <3>1. app[r] = "gone" /\ rc' = rc
        BY <1>2, <2>1 DEF Ended, Alive, workload
      <3> QED BY <1>1, <1>2, <1>3, <3>1 DEF Complete, Rest
    <2>2. CASE Reap(r)
      <3>1. LeaderGone(r) /\ (app[r] = "parked" \/ held[r])
        BY <2>2 DEF Reap, Motionless
      <3>2. r \in complete
            \/ drv[r] \in {"stopped", "dump", "reading", "thaw and fail", "failed", "interrupted"}
        <4>1. CASE app[r] = "parked"
          BY <4>1 DEF Rest, Complete
        <4>2. CASE held[r]
          BY <1>2, <3>1, <4>2 DEF Rest, Holding, Over
        <4> QED BY <3>1, <4>1, <4>2
      <3> QED BY <1>1, <1>2, <1>3, <3>2 DEF Complete
    <2> QED BY <2>1, <2>2
  <1> QED BY <1>4, <1>5, <1>6, <1>7 DEF Rest

\* Its last state says how the app ended.
LEMMA SummaryRest ==
  ASSUME Types, NEW r \in Runs, Rest(r), drv[r] # "idle", Summary(r) PROVE Rest(r)'
  <1> USE DEF Types
  <1>1. UNCHANGED <<drv, dpid, frozen, gpid, app, held, rc, told, complete, torn, trace, ready, enabler,
                    guestPt, lpid>>
    BY DEF Summary, driver, workload
  <1>2. lch[r] = "post" /\ app[r] = "gone" /\ r \in trace /\ drv[r] # "done"
    BY DEF Summary, Rest, Launched, Complete
  <1>3. lch'[r] \in {"done", "failed"} /\ (lch'[r] = "done" => rc[r] = 0)
    BY DEF Summary, Publish
  <1>4. state' = state \/ \E t \in {"done", "failed"} : state' = State(t, lpid[r])
    BY DEF Summary, Publish
  <1>5. state' = state \/ (state'.pid = lpid[r] /\ state'.status # "tracing")
    <2>1. \A t \in {"done", "failed"} : State(t, lpid[r]).pid = lpid[r] /\ State(t, lpid[r]).status = t
      BY DEF State
    <2> QED BY <1>4, <2>1
  <1>6. OwnPids(r)' /\ Passed(r)'
    BY <1>1, <1>2, <1>3, <1>5 DEF OwnPids, Passed, Rest, Early
  <1>7. Launched(r)' /\ InOrder(r)'
    BY <1>1, <1>2, <1>3 DEF Launched, InOrder, Rest
  <1>8. Holding(r)'
    BY <1>1 DEF Holding, Rest, Alive, LeaderGone
  <1>9. Complete(r)'
    BY <1>1, <1>2, <1>3 DEF Complete, Rest
  <1> QED BY <1>6, <1>7, <1>8, <1>9 DEF Rest

\* On SIGTERM it may leave the app running, stopped or not.
LEMMA TerminatedRest ==
  ASSUME Types, NEW r \in Runs, Rest(r), drv[r] # "idle", NEW dies \in BOOLEAN, Terminated(r, dies)
  PROVE  Rest(r)'
  <1> USE DEF Types
  <1>1. UNCHANGED <<drv, dpid, frozen, gpid, held, rc, told, complete, torn, trace, ready, enabler, guestPt,
                    lpid>>
    BY DEF Terminated, driver
  <1>2. lch[r] \notin Over /\ drv[r] # "done"
    BY DEF Terminated, Rest, Complete, Over
  <1>3. lch'[r] \in {"failed", "interrupted"}
    BY DEF Terminated, Publish
  <1>4. app'[r] = app[r] \/ (app'[r] = "gone" /\ ~held[r] /\ Alive(r))
    BY DEF Terminated
  <1>5. state' = state \/ state' = State("interrupted", lpid[r])
    BY Zenon DEF Terminated, Publish
  <1>6. state' = state \/ (state'.pid = lpid[r] /\ state'.status # "tracing")
    <2>1. State("interrupted", lpid[r]).pid = lpid[r] /\ State("interrupted", lpid[r]).status = "interrupted"
      BY DEF State
    <2> QED BY <1>5, <2>1
  <1>7. OwnPids(r)' /\ Passed(r)'
    BY <1>1, <1>3, <1>6 DEF OwnPids, Passed, Rest, Early
  <1>8. Launched(r)' /\ InOrder(r)'
    BY <1>1, <1>3, <1>4 DEF Launched, InOrder, Rest, Alive
  <1>9. Holding(r)'
    BY <1>1, <1>4 DEF Holding, Rest, Alive, LeaderGone
  <1>10. Complete(r)'
    BY <1>1, <1>2, <1>3, <1>4 DEF Complete, Rest
  <1> QED BY <1>7, <1>8, <1>9, <1>10 DEF Rest

\* The exit status of a failure is not the one of success.
LEMMA OneNotZero == 1 # 0
  OBVIOUS

\* The app keeps to the order: ready, recording, limit.
LEMMA AppRest ==
  ASSUME Types, NEW r \in Runs, Rest(r), drv[r] # "idle", AppStep(r) \/ AppFault(r) PROVE Rest(r)'
  <1> USE DEF Types
  <1>1. UNCHANGED <<drv, dpid, frozen, gpid, lch, lpid, held, state, trace, guestPt>>
    BY DEF AppStep, AppFault, SignalReady, CheckEnabler, Limit, Touch, LeaderExits, Wedge, Crash, driver,
           launcher, workload, files
  <1>2. ~held[r] /\ app[r] \in {"init", "recording", "headless"}
    BY DEF AppStep, AppFault, SignalReady, CheckEnabler, Limit, Touch, LeaderExits, Wedge, Crash, App
  <1>3. app'[r] # "none" /\ (app'[r] \in {"recording", "headless", "parked"} =>
                               app[r] \in {"recording", "headless"} \/ enabler.status \in {"on", "pid"})
    <2>1. CASE SignalReady(r) \/ Touch(r)
      BY <1>2, <2>1 DEF SignalReady, Touch, workload
    <2>2. CASE CheckEnabler(r)
      <3>1. enabler.status \in {"", "off", "on", "pid"}
        BY DEF EnablerFiles
      <3> QED BY <2>2, <3>1, ZenonT(60) DEF CheckEnabler, App
    <2>3. CASE Limit(r) \/ LeaderExits(r) \/ Wedge(r) \/ Crash(r)
      BY <2>3 DEF Limit, LeaderExits, Wedge, Crash, App
    <2> QED BY <2>1, <2>2, <2>3 DEF AppStep, AppFault
  <1>4. (r \in told => r \in told') /\ (ready' => ready \/ r \in told')
    <2>1. CASE SignalReady(r)
      BY <2>1 DEF SignalReady
    <2>2. CASE ~SignalReady(r)
      <3>1. told' = told /\ ready' = ready
        BY <2>2 DEF AppStep, AppFault, CheckEnabler, Limit, Touch, LeaderExits, Wedge, Crash, workload, files
      <3> QED BY <3>1
    <2> QED BY <2>1, <2>2
  <1>5. r \in complete => r \in complete'
    BY DEF AppStep, AppFault, SignalReady, CheckEnabler, Limit, Touch, LeaderExits, Wedge, Crash, workload
  <1>6. enabler' = enabler \/ (enabler' = State("pid", r) /\ enabler.status \in {"on", "pid"})
    <2>1. enabler.status \in {"", "off", "on", "pid"}
      BY DEF EnablerFiles
    <2> QED BY <2>1 DEF AppStep, AppFault, SignalReady, CheckEnabler, Limit, Touch, LeaderExits, Wedge,
                        Crash, files
  <1>7. enabler'.pid \in {None, r} /\ (enabler'.status \in {"on", "pid"} => r \in told')
    <2>1. State("pid", r).pid = r
      BY DEF State
    <2>2. enabler.pid \in {None, r} /\ (enabler.status \in {"on", "pid"} => r \in told)
      BY DEF Rest, OwnPids, InOrder
    <2> QED BY <1>4, <1>6, <2>1, <2>2
  <1>8. app'[r] = "parked" \/ (app'[r] = "gone" /\ rc'[r] = 0) => r \in complete'
    <2>1. CASE SignalReady(r) \/ Touch(r)
      BY <1>2, <2>1 DEF SignalReady, Touch, workload
    <2>2. CASE CheckEnabler(r)
      <3>1. \/ app' = [app EXCEPT ![r] = "gone"] /\ rc' = [rc EXCEPT ![r] = 1]
            \/ app' = [app EXCEPT ![r] = "recording"]
        BY <2>2 DEF CheckEnabler, App
      <3>2. rc' = [rc EXCEPT ![r] = 1] => rc'[r] # 0
        <4>1. rc' = [rc EXCEPT ![r] = 1] => rc'[r] = 1
          OBVIOUS
        <4> QED BY <4>1, OneNotZero, Zenon
      <3>3. app'[r] # "parked" /\ (app'[r] = "gone" => rc'[r] # 0)
        BY <3>1, <3>2
      <3> QED BY <3>3
    <2>3. CASE Limit(r)
      BY <2>3 DEF Limit
    <2>4. CASE LeaderExits(r) \/ Wedge(r) \/ Crash(r)
      <3>1. \/ app' = [app EXCEPT ![r] = "gone"] /\ rc' = [rc EXCEPT ![r] = 1]
            \/ \E v \in {"headless", "wedged"} : app' = [app EXCEPT ![r] = v]
        BY <2>4 DEF LeaderExits, Wedge, Crash, App
      <3>2. rc' = [rc EXCEPT ![r] = 1] => rc'[r] # 0
        <4>1. rc' = [rc EXCEPT ![r] = 1] => rc'[r] = 1
          OBVIOUS
        <4> QED BY <4>1, OneNotZero, Zenon
      <3>3. app'[r] # "parked" /\ (app'[r] = "gone" => rc'[r] # 0)
        BY <3>1, <3>2
      <3> QED BY <3>3
    <2> QED BY <2>1, <2>2, <2>3, <2>4 DEF AppStep, AppFault
  <1>9. OwnPids(r)' /\ Passed(r)'
    BY <1>1, <1>7 DEF OwnPids, Passed, Rest
  <1>10. Launched(r)'
    <2>1. lch[r] \notin {"post", "done", "prepare", "hook", "launch"}
      BY <1>2 DEF Rest, Launched
    <2> QED BY <1>1, <1>3, <2>1 DEF Launched, Rest
  <1>11. InOrder(r)'
    <2>1. r \in told \/ ~(app[r] \in {"recording", "headless"} \/ enabler.status \in {"on", "pid"})
      BY DEF Rest, InOrder
    <2>2. ready => r \in told
      BY <1>2 DEF Rest, InOrder
    <2> QED BY <1>3, <1>4, <1>7, <2>1, <2>2 DEF InOrder
  <1>12. Holding(r)'
    <2>1. drv[r] # "reading" /\ (drv[r] \in {"stopped", "dump"} => dpid[r] # r)
      BY <1>2 DEF Rest, Holding, Alive
    <2> QED BY <1>1, <1>2, <2>1 DEF Holding, Rest
  <1>13. Complete(r)'
    BY <1>1, <1>5, <1>8 DEF Complete, Rest
  <1> QED BY <1>9, <1>10, <1>11, <1>12, <1>13 DEF Rest

\* The driver stops the app before the dump and continues it after.
LEMMA DriverRest ==
  ASSUME Types, NEW r \in Runs, Rest(r), drv[r] # "idle", DriverStep(r) \/ Interrupt(r) PROVE Rest(r)'
  <1> USE DEF Types
  <1>1. UNCHANGED <<lch, lpid, app, rc, told, complete, state, enabler, ready, trace>>
    BY DEF DriverStep, Poll, ReadPid, Freeze, MarkFrozen, Target, Dump, Thaw, Finish, Interrupt, launcher,
           workload, files
  <1>2. Launched(r)' /\ InOrder(r)'
    BY <1>1 DEF Rest, Launched, InOrder
  <1>3. state.pid \in {None, r} /\ dpid[r] \in {None, r}
    BY DEF Rest, OwnPids
  <1>4. SUFFICES dpid'[r] \in {None, r} /\ Passed(r)' /\ Holding(r)' /\ Complete(r)'
    BY <1>1, <1>2 DEF Rest, OwnPids
  <1>5. CASE Poll(r)
    <2>1. /\ drv[r] = "poll"
          /\ drv'[r] = "failed" \/ (drv'[r] = "read" /\ state.status = "tracing")
          /\ UNCHANGED <<dpid, frozen, gpid, held, torn, guestPt>>
      BY <1>5 DEF Poll, Drv, workload, files
    <2>2. Passed(r)' /\ Complete(r)'
      BY <1>1, <2>1 DEF Rest, Passed, Complete, Over
    <2>3. Holding(r)'
      BY <1>1, <2>1 DEF Rest, Holding
    <2> QED BY <1>3, <2>1, <2>2, <2>3
  <1>6. CASE ReadPid(r)
    <2>1. /\ drv[r] = "read" /\ drv'[r] = "freeze" /\ dpid'[r] = state.pid
          /\ UNCHANGED <<frozen, gpid, held, torn, guestPt>>
      BY <1>6 DEF ReadPid, Drv, workload, files
    <2>2. Passed(r)' /\ Complete(r)'
      BY <1>1, <2>1 DEF Rest, Passed, Complete, Over
    <2>3. Holding(r)'
      BY <1>1, <2>1 DEF Rest, Holding
    <2> QED BY <1>3, <2>1, <2>2, <2>3
  <1>7. CASE Freeze(r)
    <2>1. drv[r] = "freeze" /\ UNCHANGED <<dpid, frozen, gpid, torn, guestPt>>
      BY <1>7 DEF Freeze, Drv, files
    <2>2. \/ drv'[r] = "stopped" /\ dpid[r] = r /\ held'[r]
          \/ drv'[r] = "dump" /\ held' = held /\ (dpid[r] = None \/ ~Alive(r))
      BY <1>3, <1>7 DEF Freeze, Drv
    <2>3. Passed(r)' /\ Complete(r)'
      BY <1>1, <2>1, <2>2 DEF Rest, Passed, Complete, Over
    <2>4. Holding(r)'
      <3>1. ~held[r]
        BY <2>1 DEF Rest, Holding
      <3>2. None # r
        BY RunsAssumption DEF None
      <3>3. CASE drv'[r] = "stopped" /\ dpid[r] = r /\ held'[r]
        BY <2>1, <3>3 DEF Holding
      <3>4. CASE drv'[r] = "dump" /\ held' = held /\ (dpid[r] = None \/ ~Alive(r))
        <4>1. dpid'[r] # r \/ ~Alive(r)'
          BY <1>1, <2>1, <3>2, <3>4 DEF Alive
        <4> QED BY <3>1, <3>4, <4>1 DEF Holding
      <3> QED BY <2>2, <3>3, <3>4
    <2> QED BY <1>3, <2>1, <2>3, <2>4
  <1>8. CASE MarkFrozen(r)
    <2>1. /\ drv[r] = "stopped" /\ drv'[r] = "dump" /\ frozen'[r]
          /\ UNCHANGED <<dpid, gpid, held, torn, guestPt>>
      BY <1>8 DEF MarkFrozen, Drv, workload, files
    <2>2. Passed(r)' /\ Complete(r)'
      BY <1>1, <2>1 DEF Rest, Passed, Complete, Over
    <2>3. Holding(r)'
      BY <1>1, <2>1 DEF Rest, Holding, Alive
    <2> QED BY <1>3, <2>1, <2>2, <2>3
  <1>9. CASE Target(r)
    <2>1. drv[r] = "dump" /\ ~torn' /\ UNCHANGED <<dpid, frozen, held, guestPt>>
      BY <1>9 DEF Target, Drv, workload, files
    <2>2. drv'[r] = "thaw and fail" \/ (drv'[r] = "reading" /\ gpid' = state.pid /\ state.pid # None)
      BY <1>9 DEF Target, Drv
    <2>3. Passed(r)' /\ Complete(r)'
      BY <1>1, <2>1, <2>2 DEF Rest, Passed, Complete, Over
    <2>4. state.pid = dpid[r]
      BY <2>1 DEF Rest, Passed, Over
    <2>5. Holding(r)'
      BY <1>1, <1>3, <2>1, <2>2, <2>4 DEF Rest, Holding, Alive
    <2> QED BY <1>3, <2>1, <2>3, <2>5
  <1>10. CASE Dump(r)
    <2>1. drv[r] = "reading" /\ UNCHANGED <<dpid, frozen, held>> /\ gpid = r /\ ~torn
      BY <1>10 DEF Dump, Drv, workload, Rest, Holding
    <2>2. \/ drv'[r] = "thaw and fail"
          \/ /\ drv'[r] = "thaw" /\ Alive(r) /\ ~LeaderGone(r)
             /\ guestPt' = Table(r, "exact")
      BY <1>10, <2>1 DEF Dump, Drv
    <2>3. Passed(r)'
      BY <1>1, <2>1, <2>2 DEF Rest, Passed, Over
    <2>4. Complete(r)'
      BY <1>1, <2>1, <2>2 DEF Rest, Complete, Alive
    <2>5. Holding(r)'
      BY <1>1, <2>1, <2>2 DEF Rest, Holding, LeaderGone
    <2> QED BY <1>3, <2>1, <2>3, <2>4, <2>5
  <1>11. CASE Thaw(r)
    <2>1. /\ drv[r] \in {"thaw", "thaw and fail"} /\ UNCHANGED <<dpid, gpid, torn, guestPt>>
          /\ drv'[r] = IF drv[r] = "thaw" THEN "finish" ELSE "failed"
      BY <1>11 DEF Thaw, Drv, files
    <2>2. held' = IF frozen[r] THEN [held EXCEPT ![dpid[r]] = FALSE] ELSE held
      BY <1>11 DEF Thaw, Thawed
    <2>3. drv[r] = "thaw" => ~held'[r]
      BY <2>2 DEF Rest, Holding
    <2>4. Passed(r)' /\ Complete(r)'
      BY <1>1, <2>1 DEF Rest, Passed, Complete, Over
    <2>5. Holding(r)'
      BY <1>1, <2>1, <2>3 DEF Rest, Holding
    <2> QED BY <1>3, <2>1, <2>4, <2>5
  <1>12. CASE Finish(r)
    <2>1. /\ drv[r] = "finish" /\ UNCHANGED <<dpid, frozen, gpid, held, torn, guestPt>>
          /\ drv'[r] = "failed" \/ (drv'[r] = "done" /\ lch[r] = "done")
      BY <1>12 DEF Finish, Drv, workload, files
    <2>2. Passed(r)'
      BY <1>1, <2>1 DEF Rest, Passed, Over
    <2>3. Complete(r)'
      BY <1>1, <2>1 DEF Rest, Launched, Complete
    <2>4. Holding(r)'
      BY <1>1, <2>1 DEF Rest, Holding
    <2> QED BY <1>3, <2>1, <2>2, <2>3, <2>4
  <1>13. CASE Interrupt(r)
    <2>1. drv'[r] = "interrupted" /\ dpid' = dpid
      BY <1>13 DEF Interrupt
    <2>2. Passed(r)' /\ Complete(r)'
      BY <1>1, <2>1 DEF Rest, Passed, Complete, Over
    <2>3. Holding(r)'
      BY <2>1 DEF Holding
    <2> QED BY <1>3, <2>1, <2>2, <2>3
  <1> QED BY <1>5, <1>6, <1>7, <1>8, <1>9, <1>10, <1>11, <1>12, <1>13 DEF DriverStep

-----------------------------------------------------------------------------
\* Every step of a run keeps what holds of a run that is alone.
LEMMA OwnOK == ASSUME Holds, NEW r \in Runs, Own(r), drv[r] # "idle", Act(r) PROVE Own(r)'
  <1>1. Alone(r)'
    BY AloneOK DEF Own
  <1>2. Types /\ Rest(r)
    BY DEF Holds, Own, Rest
  <1>3. ASSUME LauncherStep(r) PROVE Rest(r)'
    BY <1>2, <1>3, PrepareRest, ReadinessRest, ConfirmRest, ReapRest, SummaryRest, TerminatedRest
       DEF LauncherStep
  <1>4. Rest(r)'
    BY <1>2, <1>3, AppRest, DriverRest DEF Act
  <1> QED BY <1>1, <1>4 DEF Own, Rest

\* Every step keeps the invariant.
LEMMA NextOK == ASSUME IInv, Next PROVE IInv'
  <1>1. Holds /\ Holds'
    BY HoldsOK DEF IInv, Holds
  <1>2. PICK q \in Runs : Start(q) \/ Act(q)
    BY Steps
  <1>3. CASE Start(q)
    <2>1. drv[q] = "idle" /\ drv' = [drv EXCEPT ![q] = "poll"] /\ lch' = [lch EXCEPT ![q] = "prepare"]
          /\ app' = app /\ orphans' = {a \in Runs : Alive(a) \/ lch[a] \notin Over \cup {"none"}}
      BY <1>3 DEF Start, Drv, workload
    <2>2. drv'[q] = "poll" /\ \A a \in Runs : a # q => drv'[a] = drv[a] /\ lch'[a] = lch[a]
      BY <1>1, <2>1, ZenonT(60) DEF Holds, Types
    <2>3. \A r \in Runs : Clean(r)' => r = q
      <3> SUFFICES ASSUME NEW r \in Runs, drv'[r] # "idle", Latest(r)', r # q PROVE FALSE
        BY DEF Clean
      <3>1. drv[r] # "idle" /\ ~(r < q)
        BY <2>2, RunsAssumption DEF Latest
      <3>2. q < r
        BY <3>1, InSequence
      <3>3. drv[q] \in Over
        BY <1>1, <3>1, <3>2 DEF Holds, Ordered
      <3> QED BY <2>1, <3>3 DEF Over
    <2>4. \A r \in Runs : Clean(r)' => Own(r)'
      BY <1>1, <1>3, <2>3, StartOwn DEF Clean
    <2>5. orphans' = {} => Clean(q)'
      <3>1. \A b \in Runs : b > q => b # q /\ drv[b] = "idle"
        BY <1>1, <2>1, RunsAssumption DEF Holds, Ordered, Over
      <3> QED BY <2>2, <3>1 DEF Clean, Latest
    <2>6. orphans' = {} => \A r \in Runs : (Alive(r) \/ lch[r] \notin Over \cup {"none"})' => Clean(r)'
      BY <2>1, <2>2, <2>5 DEF Alive
    <2> QED BY <1>1, <2>4, <2>6 DEF IInv, Holds
  <1>4. CASE Act(q)
    <2>1. orphans' = orphans
      BY <1>4 DEF Act, DriverStep, Poll, ReadPid, Freeze, MarkFrozen, Target, Dump, Thaw, Finish, Interrupt,
                  LauncherStep, PrepareDir, PrepareFiles, Launch, Readiness, Confirm, Reap, Ended, Summary,
                  Terminated, AppStep, AppFault, SignalReady, CheckEnabler, Limit, Touch, LeaderExits, Wedge,
                  Crash
    <2>2. \A r \in Runs : drv'[r] = "idle" <=> drv[r] = "idle"
      <3>1. CASE DriverStep(q) \/ Interrupt(q)
        <4>1. drv[q] # "idle" /\ \E v : v # "idle" /\ drv' = [drv EXCEPT ![q] = v]
          BY <3>1 DEF DriverStep, Poll, ReadPid, Freeze, MarkFrozen, Target, Dump, Thaw, Finish, Interrupt, Drv
        <4> QED BY <1>1, <4>1 DEF Holds, Types
      <3>2. CASE LauncherStep(q)
        BY <3>2 DEF LauncherStep, PrepareDir, PrepareFiles, Launch, Readiness, Confirm, Reap, Ended, Summary,
                    Terminated, driver
      <3>3. CASE AppStep(q) \/ AppFault(q)
        BY <3>3 DEF AppStep, AppFault, SignalReady, CheckEnabler, Limit, Touch, LeaderExits, Wedge, Crash,
                    driver
      <3> QED BY <1>4, <3>1, <3>2, <3>3 DEF Act
    <2>3. \A r \in Runs : Clean(r)' <=> Clean(r)
      BY <2>1, <2>2 DEF Clean, Latest
    <2>4. \A r \in Runs : Clean(r)' => Own(r)'
      <3> SUFFICES ASSUME NEW r \in Runs, Clean(r) PROVE Own(r)'
        BY <2>3
      <3>1. Own(r) /\ drv[r] # "idle"
        BY DEF IInv, Clean
      <3>2. q = r
        BY <1>1, <1>4, <3>1, OnlyOwnSteps
      <3> QED BY <1>1, <1>4, <3>1, <3>2, OwnOK
    <2>5. ASSUME orphans = {}, NEW r \in Runs, (Alive(r) \/ lch[r] \notin Over \cup {"none"})'
          PROVE  Clean(r)
      <3>1. CASE r = q
        <4>1. CASE DriverStep(q) \/ Interrupt(q)
          <5>1. app' = app /\ lch' = lch
            BY <4>1 DEF DriverStep, Poll, ReadPid, Freeze, MarkFrozen, Target, Dump, Thaw, Finish, Interrupt,
                        launcher, workload
          <5> QED BY <2>5, <5>1 DEF IInv, Alive
        <4>2. CASE LauncherStep(q)
          <5>1. lch[q] \notin Over \cup {"none"}
            BY <4>2 DEF LauncherStep, PrepareDir, PrepareFiles, Launch, Readiness, Confirm, Reap, Ended,
                        Summary, Terminated, Lch, Over
          <5> QED BY <2>5, <3>1, <5>1 DEF IInv
        <4>3. CASE AppStep(q) \/ AppFault(q)
          <5>1. Alive(q)
            BY <4>3 DEF AppStep, AppFault, SignalReady, CheckEnabler, Limit, Touch, LeaderExits, Wedge, Crash,
                        App, Alive
          <5> QED BY <2>5, <3>1, <5>1 DEF IInv
        <4> QED BY <1>4, <4>1, <4>2, <4>3 DEF Act
      <3>2. CASE r # q
        <4>1. app'[r] = app[r] /\ lch'[r] = lch[r]
          BY <1>1, <1>4, <3>2, OthersStay
        <4> QED BY <2>5, <4>1 DEF IInv, Alive
      <3> QED BY <3>1, <3>2
    <2> QED BY <1>1, <2>1, <2>3, <2>4, <2>5 DEF IInv, Holds
  <1> QED BY <1>2, <1>3, <1>4

\* So does a step that changes nothing.
LEMMA Stutter == ASSUME IInv, UNCHANGED vars PROVE IInv'
  <1>1. UNCHANGED <<drv, slipped, dpid, frozen, gpid, lch, lpid, term, app, held, rc, told, complete, outdir,
                    state, enabler, ready, trace, guestPt, torn, orphans>>
    BY DEF vars, driver, launcher, workload, files
  <1>2. Types' /\ Ordered' /\ HeldByDriver' /\ \A r \in Runs : Fresh(r)' /\ Unmarked(r)'
    BY <1>1 DEF IInv, Types, Ordered, HeldByDriver, Fresh, Unmarked
  <1>3. \A r \in Runs : /\ Clean(r)' <=> Clean(r)
                        /\ Alive(r)' <=> Alive(r)
                        /\ LeaderGone(r)' <=> LeaderGone(r)
    BY <1>1 DEF Clean, Latest, Alive, LeaderGone
  <1>4. \A r \in Runs : Own(r) => Own(r)'
    <2> SUFFICES ASSUME NEW r \in Runs, Own(r) PROVE Own(r)'
      OBVIOUS
    <2>1. Alone(r)' /\ OwnPids(r)' /\ Launched(r)' /\ InOrder(r)'
      BY <1>1, <1>3 DEF Own, Alone, OwnPids, Launched, InOrder
    <2>2. Passed(r)' /\ Complete(r)'
      BY <1>1 DEF Own, Passed, Complete
    <2>3. Holding(r)'
      BY <1>1, <1>3 DEF Own, Holding
    <2> QED BY <2>1, <2>2, <2>3 DEF Own
  <1> QED BY <1>1, <1>2, <1>3, <1>4 DEF IInv

\* The invariant holds always.
LEMMA Invariance == Spec => []IInv
  <1>1. IInv /\ [Next]_vars => IInv'
    BY NextOK, Stutter
  <1> QED BY InitOK, <1>1, PTL DEF Spec

\* TypeOK: where scripts and app are, and that a PID is an app's.
THEOREM TypeCorrect == Spec => []TypeOK
  <1>1. IInv => TypeOK
    <2> SUFFICES ASSUME IInv PROVE TypeOK
      OBVIOUS
    <2>1. state.pid \in Runs \cup {None} /\ enabler.pid \in Runs \cup {None}
      BY StateTyped, EnablerTyped DEF IInv, Types
    <2>2. \A r \in Runs : {dpid[r], lpid[r], gpid, state.pid, enabler.pid} \subseteq Runs \cup {None}
      <3>1. \A r \in Runs : dpid[r] \in Runs \cup {None} /\ lpid[r] \in Runs \cup {None}
        BY DEF IInv, Types
      <3>2. gpid \in Runs \cup {None}
        BY DEF IInv, Types
      <3> QED BY <2>1, <3>1, <3>2
    <2> QED BY <2>2 DEF IInv, Types, TypeOK
  <1> QED BY Invariance, <1>1, PTL

\* HeldByDriver: a stopped app has a driver that continues it, or that was
\* interrupted between kill -STOP and FROZEN=1, whatever else happens.
THEOREM HeldHasDriver == Spec => []HeldByDriver
  <1>1. IInv => HeldByDriver
    BY DEF IInv
  <1> QED BY Invariance, <1>1, PTL

\* PidIsOwn: the latest driver works on the app of its own run.
THEOREM DriverHasOwnPid == Spec => []PidIsOwn
  <1>1. IInv => PidIsOwn
    <2> SUFFICES ASSUME IInv, NEW r \in Runs, Latest(r), orphans = {} PROVE dpid[r] \in {None, r}
      BY DEF PidIsOwn
    <2>1. CASE drv[r] = "idle"
      BY <2>1 DEF IInv, Fresh
    <2>2. CASE drv[r] # "idle"
      BY <2>2 DEF IInv, Clean, Own, OwnPids
    <2> QED BY <2>1, <2>2
  <1> QED BY Invariance, <1>1, PTL

\* RecordedWhenReady: readiness of the run's own app comes before recording.
THEOREM ReadyComesFirst == Spec => []RecordedWhenReady
  <1>1. IInv => RecordedWhenReady
    <2> SUFFICES ASSUME IInv, NEW r \in Runs, app[r] \in {"recording", "headless", "parked"}, orphans = {}
                 PROVE  r \in told
      BY DEF RecordedWhenReady
    <2>1. Clean(r)
      BY DEF IInv, Alive
    <2> QED BY <2>1 DEF IInv, Own, InOrder
  <1> QED BY Invariance, <1>1, PTL

\* CapturedWhole: a capture that ends well has the complete trace and the
\* undisturbed page table of its own app.
THEOREM CaptureIsWhole == Spec => []CapturedWhole
  <1>1. IInv => CapturedWhole
    <2> SUFFICES ASSUME IInv, NEW r \in Runs, drv[r] = "done", orphans = {}, Latest(r)
                 PROVE  r \in trace /\ r \in complete /\ guestPt = Table(r, "exact")
      BY DEF CapturedWhole
    <2>1. Own(r)
      BY DEF IInv, Clean
    <2> QED BY <2>1 DEF Own, Launched, Holding, Complete
  <1> QED BY Invariance, <1>1, PTL
=============================================================================
