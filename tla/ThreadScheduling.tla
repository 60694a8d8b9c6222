-------------------------- MODULE ThreadScheduling --------------------------
(***************************************************************************)
(* Which simulated core a thread of the trace runs on.  The cache simulator*)
(* and the TLB simulator are each a simulator_t, with maps and counts of   *)
(* their own, and cache_simulator_t::process_memref feeds both from one    *)
(* trace: a CPU marker reaches the cache simulator only, since the marker  *)
(* returns before the TLB simulator is called; a thread exit is acted on   *)
(* by the TLB simulator only, since it has no address and the cache        *)
(* simulator returns when the page table lookup fails.                     *)
(***************************************************************************)
EXTENDS Integers, FiniteSetsExt, Functions

CONSTANTS NumCores,     \* knob_num_cores
          Threads,      \* thread ids of the trace
          Cpus,         \* recorded cpus
          CpuScheduling \* knob_cpu_scheduling

Cores == 0 .. NumCores - 1
NoThread == "none"

ASSUME SchedulingAssumption ==
    /\ NumCores \in Nat \ {0}
    /\ IsFiniteSet(Threads) /\ IsFiniteSet(Cpus)
    /\ NoThread \notin Threads
    /\ CpuScheduling \in BOOLEAN

PartialMaps(S) == UNION {[D -> Cores] : D \in SUBSET S}

Schedulers == [thread2core : PartialMaps(Threads),
               thread_counts : [Cores -> Nat],
               ever : SUBSET Cores,        \* cores with a thread_ever_count > 0
               cpu2core : PartialMaps(Cpus),
               cpu_counts : [Cores -> Nat],
               last_thread : Threads \cup {NoThread},
               last_core : Cores]

VARIABLES cs,    \* the simulator_t of the cache simulator
          ts,    \* the simulator_t of the TLB simulator
          ran,   \* the last reference: its thread and the core in each
          gone,  \* history: the threads that have exited
          used,  \* history: the cores that served a reference, in each
          cpu    \* history: the cpu the trace last recorded for each thread

vars == <<cs, ts, ran, gone, used, cpu>>

EmptyMap == [x \in {} |-> 0]

InitScheduler ==
    [thread2core |-> EmptyMap, thread_counts |-> [c \in Cores |-> 0], ever |-> {},
     cpu2core |-> EmptyMap, cpu_counts |-> [c \in Cores |-> 0],
     last_thread |-> NoThread, last_core |-> 0]

Init ==
    /\ cs = InitScheduler
    /\ ts = InitScheduler
    /\ ran = [thread |-> NoThread, cache |-> 0, tlb |-> 0]
    /\ gone = {}
    /\ used = [cache |-> {}, tlb |-> {}]
    /\ cpu = EmptyMap

----------------------------------------------------------------------------
With(f, x, v) == [y \in DOMAIN f \cup {x} |-> IF y = x THEN v ELSE f[y]]

\* find_emptiest_core: the first core with the smallest count.
Emptiest(counts) ==
    Min({c \in Cores : \A d \in Cores : counts[c] <= counts[d]})

\* A thread that is not placed yet goes to the emptiest core.
CoreForThread(s, t) ==
    LET c == Emptiest(s.thread_counts)
    IN IF t \in DOMAIN s.thread2core THEN s
       ELSE [s EXCEPT !.thread2core = With(@, t, c),
                      !.thread_counts[c] = @ + 1,
                      !.ever = @ \cup {c}]

\* The core of a reference of t, last_core afterwards: the one remembered when
\* t also made the previous reference.
Placed(s, t) ==
    IF t = s.last_thread THEN s
    ELSE LET s1 == CoreForThread(s, t)
         IN [s1 EXCEPT !.last_thread = t, !.last_core = s1.thread2core[t]]

\* Mutant: the thread stays counted on the core it leaves.
OnCpuKeepPrior(s, t, p) ==
    LET new == p \notin DOMAIN s.cpu2core
        c   == IF new THEN Emptiest(s.cpu_counts) ELSE s.cpu2core[p]
        s1  == IF new THEN [s EXCEPT !.cpu_counts[c] = @ + 1, !.cpu2core = With(@, p, c)]
                      ELSE s
    IN [s1 EXCEPT !.thread2core = With(@, t, c), !.thread_counts[c] = @ + 1,
                  !.ever = @ \cup {c}]

\* Mutant: a thread that has a core stays there.
OnCpuStays(s, t, p) ==
    LET new == p \notin DOMAIN s.cpu2core
        c   == IF new THEN Emptiest(s.cpu_counts) ELSE s.cpu2core[p]
        s1  == IF new THEN [s EXCEPT !.cpu_counts[c] = @ + 1, !.cpu2core = With(@, p, c)]
                      ELSE s
    IN IF t \in DOMAIN s.thread2core THEN s1
       ELSE [s1 EXCEPT !.thread2core = With(@, t, c), !.thread_counts[c] = @ + 1,
                       !.ever = @ \cup {c}]

\* simulator_t::process_memref for a CPU marker: the thread moves to the core
\* of the cpu, a new cpu to the core with the fewest cpus.
OnCpu(s, t, p) ==
    LET new == p \notin DOMAIN s.cpu2core
        c   == IF new THEN Emptiest(s.cpu_counts) ELSE s.cpu2core[p]
        s1  == IF new THEN [s EXCEPT !.cpu_counts[c] = @ + 1, !.cpu2core = With(@, p, c)]
                      ELSE s
        s2  == IF t \in DOMAIN s.thread2core
               THEN [s1 EXCEPT !.thread_counts[s.thread2core[t]] = @ - 1] ELSE s1
    IN [s2 EXCEPT !.thread2core = With(@, t, c), !.thread_counts[c] = @ + 1,
                  !.ever = @ \cup {c}]

\* handle_thread_exit, and last_thread = 0 after it.
Exited(s, t) ==
    [s EXCEPT !.thread_counts[s.thread2core[t]] = @ - 1,
              !.thread2core = Restrict(@, DOMAIN @ \ {t}),
              !.last_thread = NoThread]

----------------------------------------------------------------------------
\* A CPU marker; a negative cpu changes nothing.
CpuMarker(t, p) ==
    /\ CpuScheduling
    /\ t \notin gone
    /\ cs' = OnCpu(cs, t, p)
    /\ cpu' = With(cpu, t, p)
    /\ UNCHANGED <<ts, ran, gone, used>>

\* A reference of thread t.
Memref(t) ==
    /\ t \notin gone
    /\ cs' = Placed(cs, t)
    /\ ts' = Placed(ts, t)
    /\ ran' = [thread |-> t, cache |-> cs'.last_core, tlb |-> ts'.last_core]
    /\ used' = [cache |-> used.cache \cup {cs'.last_core},
                tlb |-> used.tlb \cup {ts'.last_core}]
    /\ UNCHANGED <<gone, cpu>>

\* The exit record of thread t.
ThreadExit(t) ==
    /\ t \notin gone
    /\ cs' = Placed(cs, t)
    /\ ts' = Exited(Placed(ts, t), t)
    /\ gone' = gone \cup {t}
    /\ UNCHANGED <<ran, used, cpu>>

Next ==
    \E t \in Threads :
        \/ \E p \in Cpus : CpuMarker(t, p)
        \/ Memref(t)
        \/ ThreadExit(t)

Spec == Init /\ [][Next]_vars
----------------------------------------------------------------------------
TypeOK ==
    /\ cs \in Schedulers
    /\ ts \in Schedulers
    /\ ran \in [thread : Threads \cup {NoThread}, cache : Cores, tlb : Cores]
    /\ gone \subseteq Threads
    /\ used \in [cache : SUBSET Cores, tlb : SUBSET Cores]
    /\ DOMAIN cpu \subseteq Threads /\ \A t \in DOMAIN cpu : cpu[t] \in Cpus

\* What the assertions of handle_thread_exit rest on: a core counts the threads
\* mapped to it, and a remembered thread is mapped.
CountsMatch ==
    \A s \in {cs, ts} :
        /\ \A c \in Cores :
              s.thread_counts[c] = Cardinality({t \in DOMAIN s.thread2core : s.thread2core[t] = c})
        /\ s.last_thread # NoThread => s.last_thread \in DOMAIN s.thread2core

\* print_results leaves out the caches and TLBs of a core that never had a
\* thread: no core that served a reference is left out.
ReportCoversUsed == used.cache \subseteq cs.ever /\ used.tlb \subseteq ts.ever

\* The live threads on core c according to s.
Load(s, c) == Cardinality({t \in DOMAIN s.thread2core \ gone : s.thread2core[t] = c})

\* "We want to assign to the least-loaded core, measured just by the number of
\* cpus or threads already there", for the thread of a reference.
LeastLoaded(s, t) ==
    t \notin DOMAIN s.thread2core =>
        \A c \in Cores : Load(s, CoreForThread(s, t).thread2core[t]) <= Load(s, c)

\* The TLB simulator, which sees the threads exit, places a new thread on a
\* core with the fewest live threads.
TlbLeastLoaded == \A t \in Threads \ gone : LeastLoaded(ts, t)

\* A reference uses the TLBs and the caches of one core, at least until the
\* first thread exits or a CPU marker, which the TLB simulator does not see,
\* moves one.
SameCoreUntilExit == gone = {} /\ cpu = EmptyMap => ran.cache = ran.tlb

\* -cpu_scheduling: "running each segment of each thread on the core that owns
\* the recorded cpu for that segment": the core the next reference of a thread
\* will use is the one of the cpu recorded last for it, unless the thread also
\* made the previous reference and is still on the core remembered for that.
OnRecordedCpu ==
    \A t \in DOMAIN cpu \ gone :
        t # cs.last_thread => Placed(cs, t).last_core = cs.cpu2core[cpu[t]]
=============================================================================
