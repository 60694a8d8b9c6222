------------------------------- MODULE Capture -------------------------------
(***************************************************************************)
(* The capture of a trace and of the guest page table: stages 2 and 3 of   *)
(* run.sh (the driver), Tracer/run.sh (the launcher), the workload under   *)
(* the tracer (the app) and PageTables/Guest/run.sh, which the driver      *)
(* waits for.  They meet in files of one output directory and in signals.  *)
(*                                                                         *)
(* A run is one invocation of the driver with --force capture, for the     *)
(* same directory; a run starts when the one before has ended, and what    *)
(* that one leaves behind goes on.  The app of run r has PID r.            *)
(***************************************************************************)
EXTENDS Naturals, FiniteSets

CONSTANT Runs   \* 1..n

None == 0       \* no PID

ASSUME RunsAssumption == Runs \subseteq Nat \ {0}

VARIABLES
  drv,      \* where the driver is
  slipped,  \* runs interrupted between kill -STOP and FROZEN=1
  dpid, frozen,    \* its APP_PID and FROZEN
  lch,      \* where the launcher is
  lpid,     \* its APP_PID
  term,     \* a SIGTERM is pending for it
  app,      \* the workload
  held,     \* it has got SIGSTOP
  rc,       \* its exit status
  told,     \* runs whose app signalled readiness
  complete, \* runs whose trace reached the reference limit
  outdir,   \* meta/ exists
  state,    \* trace.state
  enabler,  \* enabler.txt: 0 and 1 are "off" and "on", anything else a PID
  ready,    \* READY_FILE is not empty
  trace,    \* runs with a trace directory in the output directory
  guestPt,  \* pt_dump.guest: whose table, and how good
  gpid, torn,      \* PID of the dumper; the app ran while it was read
  orphans   \* runs of which something was alive when a later run started

driver == <<drv, slipped, dpid, frozen, gpid>>
launcher == <<lch, lpid, term>>
workload == <<app, held, rc, told, complete>>
files == <<outdir, state, enabler, ready, trace, guestPt>>
vars == <<driver, launcher, workload, files, torn, orphans>>

Over == {"done", "failed", "interrupted"}
Alive(a) == app[a] \notin {"none", "gone"}
\* The leader is a zombie: the PID is there, its mm is not.
LeaderGone(a) == app[a] \in {"headless", "parked"}
State(s, p) == [status |-> s, pid |-> p]
Table(a, q) == [of |-> a, is |-> q]

Init ==
  /\ drv = [r \in Runs |-> "idle"] /\ slipped = {}
  /\ dpid = [r \in Runs |-> None] /\ frozen = [r \in Runs |-> FALSE]
  /\ lch = [r \in Runs |-> "none"] /\ lpid = [r \in Runs |-> None]
  /\ term = [r \in Runs |-> FALSE]
  /\ app = [r \in Runs |-> "none"] /\ held = [r \in Runs |-> FALSE]
  /\ rc = [r \in Runs |-> 0] /\ told = {} /\ complete = {}
  /\ outdir = FALSE /\ state = State("", None) /\ enabler = State("", None)
  /\ ready = FALSE /\ trace = {} /\ guestPt = Table(None, "none")
  /\ gpid = None /\ torn = FALSE /\ orphans = {}

-----------------------------------------------------------------------------
(* The launcher.  Between two commands a pending signal comes first.       *)

Lch(r, a, b) == lch[r] = a /\ lch' = [lch EXCEPT ![r] = b]
Ready(r) == ~term[r]

\* A write into the output directory ends the launcher when a later run has
\* removed the directory (set -e).
Publish(r, s, p, next) ==
  /\ state' = IF outdir THEN State(s, p) ELSE state
  /\ lch' = [lch EXCEPT ![r] = IF outdir THEN next ELSE "failed"]

\* The output directory, made anew, and write_state starting.
PrepareDir(r) ==
  /\ Ready(r) /\ Lch(r, "prepare", "hook")
  /\ outdir' = TRUE /\ state' = State("starting", None)
  /\ enabler' = State("", None) /\ trace' = {} /\ guestPt' = Table(None, "none")
  /\ UNCHANGED <<driver, lpid, term, workload, ready, torn, orphans>>

\* Mutant: the readiness file is not cleared.
PrepareFilesOnly(r) ==
  /\ Ready(r) /\ Lch(r, "hook", "launch")
  /\ enabler' = State("off", None)
  /\ UNCHANGED <<driver, lpid, term, workload, outdir, state, ready, trace, guestPt, torn, orphans>>

\* After the pre_run hook: recording off, readiness reset.
PrepareFiles(r) ==
  /\ Ready(r) /\ Lch(r, "hook", "launch")
  /\ enabler' = State("off", None) /\ ready' = FALSE
  /\ UNCHANGED <<driver, lpid, term, workload, outdir, state, trace, guestPt, torn, orphans>>

Launch(r) ==
  /\ Ready(r) /\ Lch(r, "launch", "wait")
  /\ app' = [app EXCEPT ![r] = "init"]
  /\ trace' = trace \cup {r}
  /\ UNCHANGED <<driver, lpid, term, held, rc, told, complete, outdir, state, enabler, ready,
                 guestPt, torn, orphans>>

\* The readiness loop and what follows it, up to the acknowledgement loop.
Readiness(r) ==
  /\ Ready(r) /\ lch[r] = "wait"
  /\ \/ /\ ~Alive(r)
        /\ Publish(r, "failed", None, "failed")
        /\ UNCHANGED enabler
     \/ /\ Alive(r) /\ ready
        /\ enabler' = IF outdir THEN State("on", None) ELSE enabler
        /\ lch' = [lch EXCEPT ![r] = IF outdir THEN "confirm" ELSE "failed"]
        /\ UNCHANGED state
  /\ UNCHANGED <<driver, lpid, term, workload, outdir, ready, trace, guestPt, torn, orphans>>

\* The acknowledgement: whatever PID is in the file, or none when the app is
\* gone or ACK_TIMEOUT is over.
Acknowledged == enabler.pid
Confirm(r) ==
  /\ Ready(r) /\ lch[r] = "confirm"
  /\ LET p == IF Alive(r) THEN Acknowledged ELSE None
     IN  lpid' = [lpid EXCEPT ![r] = p] /\ Publish(r, "tracing", p, "record")
  /\ UNCHANGED <<driver, term, workload, outdir, enabler, ready, trace, guestPt, torn, orphans>>

\* Mutant: a leader that is gone is enough.
MotionlessAlways(r) == TRUE

\* The execution loop: the app ends, or its leader has and for PARKED_GRACE
\* seconds no thread uses the CPU, which is also so when it is stopped.
Motionless(r) == app[r] = "parked" \/ held[r]
Reap(r) ==
  /\ Ready(r) /\ Lch(r, "record", "post")
  /\ LeaderGone(r) /\ Motionless(r)
  /\ app' = [app EXCEPT ![r] = "gone"] /\ held' = [held EXCEPT ![r] = FALSE]
  /\ rc' = [rc EXCEPT ![r] = 0]
  /\ UNCHANGED <<driver, lpid, term, told, complete, files, torn, orphans>>

Ended(r) ==
  /\ Ready(r) /\ Lch(r, "record", "post")
  /\ ~Alive(r)
  /\ UNCHANGED <<driver, lpid, term, workload, files, torn, orphans>>

Summary(r) ==
  /\ Ready(r) /\ lch[r] = "post"
  /\ LET s == IF rc[r] = 0 THEN "done" ELSE "failed" IN Publish(r, s, lpid[r], s)
  /\ UNCHANGED <<driver, lpid, term, workload, outdir, enabler, ready, trace, guestPt, torn, orphans>>

\* SIGTERM: on_interrupt between the two trap commands, the default before and
\* after.  The app gets SIGINT, which background processes ignore unless they
\* asked for it, and which waits while the app is stopped.
Terminated(r, dies) ==
  /\ term[r] /\ lch[r] \notin Over \cup {"none"}
  /\ IF lch[r] \in {"prepare", "post"}
       THEN lch' = [lch EXCEPT ![r] = "failed"] /\ UNCHANGED <<app, state>>
       ELSE /\ Publish(r, "interrupted", lpid[r], "interrupted")
            /\ app' = [app EXCEPT ![r] = IF dies /\ Alive(r) /\ ~held[r] THEN "gone" ELSE @]
  /\ term' = [term EXCEPT ![r] = FALSE]
  /\ UNCHANGED <<driver, lpid, held, rc, told, complete, outdir, enabler, ready, trace, guestPt,
                 torn, orphans>>

LauncherStep(r) ==
  \/ PrepareDir(r) \/ PrepareFiles(r) \/ Launch(r) \/ Readiness(r) \/ Confirm(r)
  \/ Reap(r) \/ Ended(r) \/ Summary(r)
  \/ \E dies \in BOOLEAN : Terminated(r, dies)

-----------------------------------------------------------------------------
(* The workload.  A stopped one does nothing.                              *)

App(a, from, to) ==
  /\ ~held[a] /\ app[a] \in from
  /\ app' = [app EXCEPT ![a] = to]

\* It has built its working set.
SignalReady(a) ==
  /\ ~held[a] /\ app[a] = "init" /\ a \notin told
  /\ told' = told \cup {a} /\ ready' = TRUE
  /\ UNCHANGED <<driver, launcher, app, held, rc, complete, outdir, state, enabler, trace,
                 guestPt, torn, orphans>>

\* check_instr_count_threshold: any number but 0 starts the recording, and the
\* PID is written into the file.  A file that is not there is not expected.
CheckEnabler(a) ==
  /\ enabler.status # "off"
  /\ IF enabler.status = ""
       THEN App(a, {"init"}, "gone") /\ rc' = [rc EXCEPT ![a] = 1] /\ UNCHANGED enabler
       ELSE App(a, {"init"}, "recording") /\ enabler' = State("pid", a) /\ UNCHANGED rc
  /\ UNCHANGED <<driver, launcher, held, told, complete, outdir, state, ready, trace, guestPt,
                 torn, orphans>>

\* -exit_after_tracing: the threads that wait on a futex may stay.
Limit(a) ==
  /\ \/ App(a, {"recording", "headless"}, "gone")
     \/ App(a, {"recording", "headless"}, "parked")
  /\ complete' = complete \cup {a}
  /\ UNCHANGED <<driver, launcher, held, rc, told, files, torn, orphans>>

\* It changes its page table while the dumper reads it.
Touch(a) ==
  /\ ~held[a] /\ app[a] \in {"recording", "headless"} /\ gpid = a
  /\ torn' = TRUE
  /\ UNCHANGED <<driver, launcher, workload, files, orphans>>

\* main calls pthread_exit; nothing moves any more; it fails.
LeaderExits(a) ==
  /\ App(a, {"recording"}, "headless")
  /\ UNCHANGED <<driver, launcher, held, rc, told, complete, files, torn, orphans>>
Wedge(a) ==
  /\ App(a, {"init", "recording"}, "wedged")
  /\ UNCHANGED <<driver, launcher, held, rc, told, complete, files, torn, orphans>>
Crash(a) ==
  /\ App(a, {"init", "recording", "headless"}, "gone")
  /\ rc' = [rc EXCEPT ![a] = 1]
  /\ UNCHANGED <<driver, launcher, held, told, complete, files, torn, orphans>>

AppStep(a) == SignalReady(a) \/ CheckEnabler(a) \/ Limit(a)
AppFault(a) == Touch(a) \/ LeaderExits(a) \/ Wedge(a) \/ Crash(a)

-----------------------------------------------------------------------------
(* The driver.                                                             *)

Drv(r, a, b) == drv[r] = a /\ drv' = [drv EXCEPT ![r] = b]

\* Mutant: the old output directory is left to the launcher to remove.
StartKeep(r) ==
  /\ \A a \in Runs : a < r => drv[a] \in Over
  /\ Drv(r, "idle", "poll")
  /\ lch' = [lch EXCEPT ![r] = "prepare"]
  /\ orphans' = {a \in Runs : Alive(a) \/ lch[a] \notin Over \cup {"none"}}
  /\ UNCHANGED <<slipped, dpid, frozen, gpid, lpid, term, workload, files, torn>>

\* --force capture: the old output directory goes, the launcher starts.
Start(r) ==
  /\ \A a \in Runs : a < r => drv[a] \in Over
  /\ Drv(r, "idle", "poll")
  /\ lch' = [lch EXCEPT ![r] = "prepare"]
  /\ outdir' = FALSE /\ state' = State("", None) /\ enabler' = State("", None)
  /\ trace' = {} /\ guestPt' = Table(None, "none")
  /\ orphans' = {a \in Runs : Alive(a) \/ lch[a] \notin Over \cup {"none"}}
  /\ UNCHANGED <<slipped, dpid, frozen, gpid, lpid, term, workload, ready, torn>>

\* Mutant: the end of the launcher is not noticed.
PollState(r) ==
  /\ \/ state.status = "tracing" /\ Drv(r, "poll", "read")
     \/ state.status = "failed" /\ Drv(r, "poll", "failed")
  /\ UNCHANGED <<slipped, dpid, frozen, gpid, launcher, workload, files, torn, orphans>>

\* The loop that waits for the recording.  An app that is wedged shows neither
\* output nor CPU time for TRACE_STALL seconds.
Poll(r) ==
  /\ drv[r] = "poll"
  /\ \/ state.status = "tracing" /\ Drv(r, "poll", "read")
     \/ /\ state.status # "tracing"
        /\ state.status = "failed" \/ lch[r] \in Over \/ app[r] = "wedged"
        /\ Drv(r, "poll", "failed")
  /\ UNCHANGED <<slipped, dpid, frozen, gpid, launcher, workload, files, torn, orphans>>

ReadPid(r) ==
  /\ Drv(r, "read", "freeze")
  /\ dpid' = [dpid EXCEPT ![r] = state.pid]
  /\ UNCHANGED <<slipped, frozen, gpid, launcher, workload, files, torn, orphans>>

\* kill -STOP, and then FROZEN=1.
Freeze(r) ==
  /\ drv[r] = "freeze"
  /\ IF dpid[r] # None /\ Alive(dpid[r])
       THEN Drv(r, "freeze", "stopped") /\ held' = [held EXCEPT ![dpid[r]] = TRUE]
       ELSE Drv(r, "freeze", "dump") /\ UNCHANGED held
  /\ UNCHANGED <<slipped, dpid, frozen, gpid, launcher, app, rc, told, complete, files, torn, orphans>>
MarkFrozen(r) ==
  /\ Drv(r, "stopped", "dump")
  /\ frozen' = [frozen EXCEPT ![r] = TRUE]
  /\ UNCHANGED <<slipped, dpid, gpid, launcher, workload, files, torn, orphans>>

\* PageTables/Guest/run.sh: it reads the state file itself, and exits with an
\* error when there is no live PID in it or the wait for one is over.
Target(r) ==
  /\ drv[r] = "dump"
  /\ IF state.status = "tracing" /\ state.pid # None /\ Alive(state.pid)
       THEN Drv(r, "dump", "reading") /\ gpid' = state.pid
       ELSE Drv(r, "dump", "thaw and fail") /\ UNCHANGED gpid
  /\ torn' = FALSE
  /\ UNCHANGED <<slipped, dpid, frozen, launcher, workload, files, orphans>>

\* The module finds no mm when the leader is gone.
Dump(r) ==
  /\ drv[r] = "reading"
  /\ IF Alive(gpid) /\ ~LeaderGone(gpid)
       THEN /\ Drv(r, "reading", "thaw")
            /\ guestPt' = Table(gpid, IF torn THEN "torn" ELSE "exact")
       ELSE Drv(r, "reading", "thaw and fail") /\ UNCHANGED guestPt
  /\ gpid' = None /\ torn' = FALSE
  /\ UNCHANGED <<slipped, dpid, frozen, launcher, workload, outdir, state, enabler, ready, trace,
                 orphans>>

\* Mutant: FROZEN is cleared without kill -CONT.
ThawedNot(r) == held

\* thaw: kill -CONT if this script froze the app.
Thawed(r) == IF frozen[r] THEN [held EXCEPT ![dpid[r]] = FALSE] ELSE held

\* Mutant: the exit for a failed dump does not thaw.
ThawOnSuccess(r) ==
  /\ \/ Drv(r, "thaw", "finish") /\ held' = Thawed(r) /\ frozen' = [frozen EXCEPT ![r] = FALSE]
     \/ Drv(r, "thaw and fail", "failed") /\ UNCHANGED <<held, frozen>>
  /\ UNCHANGED <<slipped, dpid, gpid, launcher, app, rc, told, complete, files, torn, orphans>>

Thaw(r) ==
  /\ Drv(r, "thaw", "finish") \/ Drv(r, "thaw and fail", "failed")
  /\ held' = Thawed(r) /\ frozen' = [frozen EXCEPT ![r] = FALSE]
  /\ UNCHANGED <<slipped, dpid, gpid, launcher, app, rc, told, complete, files, torn, orphans>>

\* The launcher has exited, with its status.
Finish(r) ==
  /\ lch[r] \in Over
  /\ Drv(r, "finish", IF lch[r] = "done" THEN "done" ELSE "failed")
  /\ UNCHANGED <<slipped, dpid, frozen, gpid, launcher, workload, files, torn, orphans>>

\* on_interrupt, between two commands; the dumper may have begun its file.
Interrupt(r) ==
  /\ drv[r] \notin Over \cup {"idle"}
  /\ drv' = [drv EXCEPT ![r] = "interrupted"]
  /\ slipped' = IF drv[r] = "stopped" THEN slipped \cup {r} ELSE slipped
  /\ held' = Thawed(r) /\ frozen' = [frozen EXCEPT ![r] = FALSE]
  /\ term' = [term EXCEPT ![r] = lch[r] \notin Over]
  /\ IF drv[r] = "reading"
       THEN gpid' = None /\ torn' = FALSE /\ guestPt' \in {guestPt, Table(gpid, "partial")}
       ELSE UNCHANGED <<gpid, torn, guestPt>>
  /\ UNCHANGED <<dpid, lch, lpid, app, rc, told, complete, outdir, state, enabler, ready, trace,
                 orphans>>

DriverStep(r) ==
  \/ Poll(r) \/ ReadPid(r) \/ Freeze(r) \/ MarkFrozen(r) \/ Target(r) \/ Dump(r)
  \/ Thaw(r) \/ Finish(r)

Next ==
  \E r \in Runs :
    \/ Start(r) \/ DriverStep(r) \/ Interrupt(r)
    \/ LauncherStep(r)
    \/ AppStep(r) \/ AppFault(r)

\* Scripts run their next command; an app that is neither stopped nor stuck
\* gets ready, looks at the enabler and reaches the limit.
Fairness ==
  \A r \in Runs : WF_vars(DriverStep(r)) /\ WF_vars(LauncherStep(r)) /\ WF_vars(AppStep(r))

Spec == Init /\ [][Next]_vars /\ Fairness

-----------------------------------------------------------------------------
\* Where the scripts and the app are; a PID in a script or file is an app's.
TypeOK ==
  /\ \A r \in Runs :
       /\ drv[r] \in Over \cup {"idle", "poll", "read", "freeze", "stopped", "dump", "reading",
                                "thaw", "thaw and fail", "finish"}
       /\ lch[r] \in Over \cup {"none", "prepare", "hook", "launch", "wait", "confirm", "record", "post"}
       /\ app[r] \in {"none", "init", "wedged", "recording", "headless", "parked", "gone"}
       /\ {dpid[r], lpid[r], gpid, state.pid, enabler.pid} \subseteq Runs \cup {None}

\* A stopped app is the APP_PID of a driver that knows it has stopped it, or
\* has just done so; or that was interrupted before FROZEN=1, and then no one
\* continues it.
HeldByDriver ==
  \A a \in Runs : held[a] =>
    \E r \in Runs : dpid[r] = a /\ (frozen[r] \/ drv[r] = "stopped" \/ r \in slipped)

\* No later run has started.
Latest(r) == \A b \in Runs : b > r => drv[b] = "idle"

\* The driver stops, and waits for the page table of, the app of its own run,
\* unless something of an earlier run was still there: the enabler and the
\* state file are the run's own.
PidIsOwn == \A r \in Runs : Latest(r) => dpid[r] \in {None, r} \/ orphans # {}

\* An app is recorded from the point where it said it was ready (the launcher
\* clears the readiness file before it starts it), unless something of an
\* earlier run was still there.
RecordedWhenReady ==
  \A r \in Runs : app[r] \in {"recording", "headless", "parked"} => r \in told \/ orphans # {}

\* When the driver goes on to the next stage, the trace of this run is there
\* and is complete, and the page table is the one of this run's app, taken
\* while it was stopped, unless something of an earlier run was still there.
CapturedWhole ==
  \A r \in Runs : drv[r] = "done" /\ orphans = {} /\ Latest(r) =>
    r \in trace /\ r \in complete /\ guestPt = Table(r, "exact")

\* A stopped app is continued or gone some day (thaw, and the EXIT trap),
\* unless the driver was interrupted between kill -STOP and FROZEN=1.
HeldResumes ==
  \A a \in Runs : held[a] ~> (~held[a] \/ slipped # {})

\* Every invocation ends.  It is the readiness loop that gives up on a stuck
\* app: one that gets stuck later is waited for without end.
DriverEnds ==
  \A r \in Runs : drv[r] = "poll" ~> (drv[r] \in Over \/ (drv[r] = "finish" /\ app[r] = "wedged"))
=============================================================================
