------------------------------ MODULE HartPool ------------------------------
(***************************************************************************)
(* Handing jobs to the secondary harts: lib/src/mp.c and the start-up code *)
(* of lib/startup/crt0.S that leads to it.  The main hart, 0, runs main()  *)
(* and is the only one to start jobs; every other hart goes straight from  *)
(* reset to bm_park_hart().  Memory is sequentially consistent.            *)
(*                                                                         *)
(* The n-th call of bm_hart_start() or bm_hart_execute_all() passes a      *)
(* function and an argument that are both named by n, so that a mixture of *)
(* two calls would show.                                                   *)
(***************************************************************************)
EXTENDS Integers

CONSTANTS N,           \* TARGET_NUM_HARTS
          MaxCalls,    \* bound on the calls the main hart makes
          ClearsBss,   \* clear_bss does something: not a TARGET_SIMULATION build
          LateBoot     \* a secondary hart may still be booting when main() runs

ASSUME NAssumption == N \in Nat /\ N >= 2
ASSUME MaxCallsAssumption == MaxCalls \in Nat
ASSUME FlagsAssumption == ClearsBss \in BOOLEAN /\ LateBoot \in BOOLEAN

Secondaries == 1 .. N - 1
None == 0               \* no call

VARIABLES
    \* bm_hart_sync_data[]
    ready, func, arg,
    \* the secondary harts
    pc,         \* where in bm_park_hart() each of them is
    regArg,     \* its local variable arg
    regFunc,    \* its local variable func
    \* the main hart
    mpc,        \* where it is in mp.c, "main" while in its own code
    tgt,        \* the hart_id it is dealing with
    all,        \* is it in bm_hart_execute_all()?
    calls,      \* calls made so far; the number of the current one
    \* history
    started,    \* per secondary: the last call that started a job on it
    finished,   \* per secondary: the last call whose function returned there
    runs,       \* runs[n]: how often the function of call n has been started
    allIdle     \* no hart was busy when bm_hart_execute_all() was called

sync == <<ready, func, arg>>
workers == <<pc, regArg, regFunc>>
main == <<mpc, tgt, all, calls>>
history == <<started, finished, runs, allIdle>>
vars == <<sync, workers, main, history>>

\* After reset: memory holds anything, and 0 stands for any stale word.
Init ==
    /\ ready \in [Secondaries -> BOOLEAN]
    /\ func = [h \in Secondaries |-> None]
    /\ arg = [h \in Secondaries |-> None]
    /\ pc = [h \in Secondaries |-> "boot"]
    /\ regArg = [h \in Secondaries |-> None]
    /\ regFunc = [h \in Secondaries |-> None]
    /\ mpc = "boot"
    /\ tgt = 1
    /\ all = FALSE
    /\ calls = 0
    /\ started = [h \in Secondaries |-> None]
    /\ finished = [h \in Secondaries |-> None]
    /\ runs = [n \in 1 .. MaxCalls |-> {}]
    /\ allIdle = TRUE
-----------------------------------------------------------------------------
(* bm_park_hart() on the secondary hart h *)

Step(h, from, to) ==
    /\ pc[h] = from
    /\ pc' = [pc EXCEPT ![h] = to]

\* The flag is cleared because the memory may not be cleared yet.
Park(h) ==
    /\ Step(h, "boot", "wait")
    /\ ready' = [ready EXCEPT ![h] = FALSE]
    /\ UNCHANGED <<func, arg, regArg, regFunc, main, history>>

\* The read of ready that ends the inner loop.
Awake(h) ==
    /\ ready[h]
    /\ Step(h, "wait", "arg")
    /\ UNCHANGED <<sync, regArg, regFunc, main, history>>

FetchArg(h) ==
    /\ Step(h, "arg", "func")
    /\ regArg' = [regArg EXCEPT ![h] = arg[h]]
    /\ UNCHANGED <<sync, regFunc, main, history>>

\* Mutant: the flag is cleared as soon as the job is fetched.
FetchFunc_ClearsReady(h) ==
    /\ Step(h, "func", "call")
    /\ regFunc' = [regFunc EXCEPT ![h] = func[h]]
    /\ ready' = [ready EXCEPT ![h] = FALSE]
    /\ UNCHANGED <<func, arg, regArg, main, history>>

FetchFunc(h) ==
    /\ Step(h, "func", "call")
    /\ regFunc' = [regFunc EXCEPT ![h] = func[h]]
    /\ UNCHANGED <<sync, regArg, main, history>>

\* func(arg) begins ...
RunJob(h) ==
    /\ Step(h, "call", "running")
    /\ runs' = IF regFunc[h] \in DOMAIN runs
               THEN [runs EXCEPT ![regFunc[h]] = @ \cup {h}]
               ELSE runs
    /\ UNCHANGED <<sync, regArg, regFunc, main, started, finished, allIdle>>

\* ... and returns.
JobReturns(h) ==
    /\ Step(h, "running", "clear")
    /\ finished' = [finished EXCEPT ![h] = regFunc[h]]
    /\ UNCHANGED <<sync, regArg, regFunc, main, started, runs, allIdle>>

\* Mutant: the flag is not cleared after the job.
ClearReady_Forgotten(h) ==
    /\ Step(h, "clear", "wait")
    /\ UNCHANGED <<sync, regArg, regFunc, main, history>>

ClearReady(h) ==
    /\ Step(h, "clear", "wait")
    /\ ready' = [ready EXCEPT ![h] = FALSE]
    /\ UNCHANGED <<func, arg, regArg, regFunc, main, history>>

Worker(h) ==
    \/ Park(h)
    \/ Awake(h)
    \/ FetchArg(h)
    \/ FetchFunc(h)
    \/ RunJob(h)
    \/ JobReturns(h)
    \/ ClearReady(h)
-----------------------------------------------------------------------------
(* the main hart *)

\* crt0.S clears the BSS, where bm_hart_sync_data is, and calls main().  With
\* LateBoot = FALSE the secondaries have got to bm_park_hart()'s loop by then:
\* nothing in the code makes hart 0 wait for that.
EnterMain ==
    /\ mpc = "boot"
    /\ LateBoot \/ \A h \in Secondaries : pc[h] # "boot"
    /\ mpc' = "main"
    /\ ready' = IF ClearsBss THEN [h \in Secondaries |-> FALSE] ELSE ready
    /\ UNCHANGED <<func, arg, workers, tgt, all, calls, history>>

\* main() calls bm_hart_start(h, calls', calls').
CallStart(h) ==
    /\ mpc = "main"
    /\ calls < MaxCalls
    /\ calls' = calls + 1
    /\ mpc' = "start"
    /\ tgt' = h
    /\ all' = FALSE
    /\ UNCHANGED <<sync, workers, history>>

\* main() calls bm_hart_execute_all(calls').
CallExecuteAll ==
    /\ mpc = "main"
    /\ calls < MaxCalls
    /\ calls' = calls + 1
    /\ mpc' = "start"
    /\ tgt' = 1
    /\ all' = TRUE
    /\ allIdle' = \A h \in Secondaries : ~ ready[h]
    /\ UNCHANGED <<sync, workers, started, finished, runs>>

\* main() calls bm_hart_join(h).
CallJoin(h) ==
    /\ mpc = "main"
    /\ mpc' = "join"
    /\ tgt' = h
    /\ all' = FALSE
    /\ UNCHANGED <<sync, workers, calls, history>>

\* Back from bm_hart_start(): bm_hart_execute_all() goes on to the next hart
\* whatever was returned, then to its own run of the function.
AfterStart ==
    /\ mpc' = IF ~ all THEN "main" ELSE IF tgt < N - 1 THEN "start" ELSE "own"
    /\ tgt' = IF all /\ tgt < N - 1 THEN tgt + 1 ELSE tgt
    /\ UNCHANGED <<all, calls>>

\* bm_hart_start() returns -1: the hart is running a job.
StartBusy ==
    /\ mpc = "start"
    /\ ready[tgt]
    /\ AfterStart
    /\ UNCHANGED <<sync, workers, history>>

\* Mutant: the hart is started although it is running a job.
StartFree_Unchecked ==
    /\ mpc = "start"
    /\ mpc' = "store_arg"
    /\ UNCHANGED <<sync, workers, tgt, all, calls, history>>

StartFree ==
    /\ mpc = "start"
    /\ ~ ready[tgt]
    /\ mpc' = "store_arg"
    /\ UNCHANGED <<sync, workers, tgt, all, calls, history>>

StoreArg ==
    /\ mpc = "store_arg"
    /\ mpc' = "store_func"
    /\ arg' = [arg EXCEPT ![tgt] = calls]
    /\ UNCHANGED <<ready, func, workers, tgt, all, calls, history>>

StoreFunc ==
    /\ mpc = "store_func"
    /\ mpc' = "set_ready"
    /\ func' = [func EXCEPT ![tgt] = calls]
    /\ UNCHANGED <<ready, arg, workers, tgt, all, calls, history>>

SetReady ==
    /\ mpc = "set_ready"
    /\ ready' = [ready EXCEPT ![tgt] = TRUE]
    /\ started' = [started EXCEPT ![tgt] = calls]
    /\ AfterStart
    /\ UNCHANGED <<func, arg, workers, finished, runs, allIdle>>

\* bm_hart_execute_all() runs the function on the main hart as well.
RunOwn ==
    /\ mpc = "own"
    /\ mpc' = "join"
    /\ tgt' = 1
    /\ runs' = [runs EXCEPT ![calls] = @ \cup {0}]
    /\ UNCHANGED <<sync, workers, all, calls, started, finished, allIdle>>

\* Mutant: bm_hart_execute_all() only joins the first hart.
Joined_FirstOnly ==
    /\ mpc = "join"
    /\ ~ ready[tgt]
    /\ mpc' = "main"
    /\ UNCHANGED <<sync, workers, tgt, all, calls, history>>

\* bm_hart_join() reads ready as false.
Joined ==
    /\ mpc = "join"
    /\ ~ ready[tgt]
    /\ mpc' = IF all /\ tgt < N - 1 THEN "join" ELSE "main"
    /\ tgt' = IF all /\ tgt < N - 1 THEN tgt + 1 ELSE tgt
    /\ UNCHANGED <<sync, workers, all, calls, history>>

\* The main hart inside mp.c; what main() itself does next is its own choice.
MainInCall ==
    \/ StartBusy
    \/ StartFree
    \/ StoreArg
    \/ StoreFunc
    \/ SetReady
    \/ RunOwn
    \/ Joined

Calls ==
    \/ CallExecuteAll
    \/ \E h \in Secondaries : CallStart(h) \/ CallJoin(h)

Next ==
    \/ EnterMain
    \/ Calls
    \/ MainInCall
    \/ \E h \in Secondaries : Worker(h)

Spec == Init /\ [][Next]_vars

\* Every hart has a core of its own, and jobs return.
FairSpec ==
    /\ Spec
    /\ WF_vars(EnterMain)
    /\ WF_vars(MainInCall)
    /\ \A h \in Secondaries : WF_vars(Worker(h))
-----------------------------------------------------------------------------
CallIds == 0 .. MaxCalls

\* bm_hart_sync_data and the registers of each hart stay well formed.
TypeOK ==
    /\ ready \in [Secondaries -> BOOLEAN]
    /\ func \in [Secondaries -> CallIds]
    /\ arg \in [Secondaries -> CallIds]
    /\ pc \in [Secondaries ->
                 {"boot", "wait", "arg", "func", "call", "running", "clear"}]
    /\ regArg \in [Secondaries -> CallIds]
    /\ regFunc \in [Secondaries -> CallIds]
    /\ mpc \in {"boot", "main", "start", "store_arg", "store_func",
                "set_ready", "own", "join"}
    /\ tgt \in Secondaries
    /\ all \in BOOLEAN
    /\ calls \in CallIds
    /\ started \in [Secondaries -> CallIds]
    /\ finished \in [Secondaries -> CallIds]
    /\ runs \in [1 .. MaxCalls -> SUBSET (0 .. N - 1)]
    /\ allIdle \in BOOLEAN

\* A hart calls the function of the last call that started it, with the
\* argument of the same call: the main hart never overwrites the three fields
\* of bm_hart_sync_data while the hart is between reading ready and clearing it.
JobIsIntact ==
    \A h \in Secondaries :
       pc[h] \in {"call", "running"} =>
          regFunc[h] = started[h] /\ regArg[h] = started[h]

\* A job that is about to be called has not been called on this hart before.
JobRunsOnce ==
    \A h \in Secondaries : pc[h] = "call" => h \notin runs[regFunc[h]]

\* mp.h: bm_hart_join() "Wait until execution on specified hart finishes".
\* Once main() runs, a clear flag means that the last job is over, so a join
\* that returns has waited for it.
ClearMeansDone ==
    mpc # "boot" => \A h \in Secondaries : ~ ready[h] => finished[h] = started[h]

\* mp.h: bm_hart_execute_all() "Execute a function from all harts in parallel".
\* When it returns every hart has run the function, provided that all were idle
\* when it was called.
ExecuteAllReachesAll ==
    (mpc = "main" /\ all /\ allIdle) => runs[calls] = 0 .. N - 1

\* The same of every call, also when a hart is still busy with an earlier job.
ExecuteAllAlwaysReachesAll ==
    (mpc = "main" /\ all) => runs[calls] = 0 .. N - 1

\* A job that bm_hart_start() accepted is executed.
JobsAreRun ==
    \A h \in Secondaries : \A n \in 1 .. MaxCalls :
       started[h] = n ~> h \in runs[n]
=============================================================================
