--------------------------- MODULE HartPoolProof ---------------------------
(***************************************************************************)
(* Proofs about HartPool: jobs are intact and run once, a join waits for   *)
(* its job, and bm_hart_execute_all() reaches every hart, for any number   *)
(* of harts and calls, provided that the secondary harts have got to       *)
(* bm_park_hart() before main() runs.                                      *)
(***************************************************************************)
EXTENDS HartPool, TLAPS

InJob == {"arg", "func", "call", "running", "clear"}
BeforeRun == {"wait", "arg", "func", "call"}
Starting == {"start", "store_arg", "store_func", "set_ready"}

\* Before main() runs there is no job, and a hart that waits has cleared its flag.
Booting(h) ==
    mpc = "boot" =>
       /\ calls = 0 /\ ~ all
       /\ started[h] = None /\ finished[h] = None /\ \A n \in 1 .. MaxCalls : h \notin runs[n]
       /\ pc[h] = "boot" \/ (pc[h] = "wait" /\ ~ ready[h])

\* The flag is set from the end of bm_hart_start() to the end of the job, and
\* the three fields and the hart's copies are those of the call meanwhile.
Handover(h) ==
    mpc # "boot" =>
       /\ pc[h] # "boot"
       /\ pc[h] \in InJob => ready[h]
       /\ ready[h] => started[h] # None /\ arg[h] = started[h] /\ func[h] = started[h]
       /\ pc[h] \in {"func", "call", "running"} => regArg[h] = started[h]
       /\ pc[h] \in {"call", "running"} => regFunc[h] = started[h]
       /\ ~ ready[h] \/ pc[h] = "clear" => finished[h] = started[h]

\* The hart has run every job it has finished, and none that it has still to run
\* or that has not been started on it.
Runs(h) ==
    /\ \A n \in 1 .. MaxCalls : h \in runs[n] => n <= started[h]
    /\ mpc # "boot" /\ ready[h] /\ pc[h] \in BeforeRun => h \notin runs[started[h]]
    /\ mpc # "boot" /\ pc[h] \in {"running", "clear"} => h \in runs[started[h]]
    /\ finished[h] # None => h \in runs[finished[h]]

\* The main hart in bm_hart_start() deals with a hart that is free, and with a
\* call that this hart has not seen.
StartInv ==
    /\ mpc \in Starting => calls # 0 /\ started[tgt] < calls
    /\ mpc \in Starting \ {"start"} => ~ ready[tgt]
    /\ mpc \in {"store_func", "set_ready"} => arg[tgt] = calls
    /\ mpc = "set_ready" => func[tgt] = calls
    /\ \A h \in Secondaries : started[h] <= calls

\* How far bm_hart_execute_all() has come.
ExecuteAllInv ==
    /\ mpc \in Starting /\ all =>
          \A h \in Secondaries :
             /\ h >= tgt => started[h] < calls
             /\ allIdle /\ h >= tgt => ~ ready[h]
             /\ allIdle /\ h < tgt => started[h] = calls
    /\ mpc = "own" => all /\ calls # 0
    /\ mpc \in {"own", "join"} /\ all /\ allIdle =>
          \A h \in Secondaries : started[h] = calls
    /\ mpc = "join" /\ all => calls # 0 /\ 0 \in runs[calls]
    /\ mpc = "join" /\ all /\ allIdle =>
          \A h \in Secondaries : h < tgt => h \in runs[calls]

HartInv(h) == Booting(h) /\ Handover(h) /\ Runs(h)

IInv ==
    /\ TypeOK
    /\ \A h \in Secondaries : HartInv(h)
    /\ StartInv
    /\ ExecuteAllInv
    /\ ExecuteAllReachesAll
-----------------------------------------------------------------------------
\* The ranges of the model's constants.
LEMMA Ranges ==
  /\ 1 \in Secondaries /\ Secondaries \subseteq Nat \ {0}
  /\ None \in CallIds /\ CallIds \subseteq Nat
  /\ \A h \in Secondaries : h \in 0 .. N - 1 /\ (h < N - 1 => h + 1 \in Secondaries)
  /\ \A n \in CallIds : n < MaxCalls => n + 1 \in CallIds
  /\ \A n \in CallIds : n # None => n \in 1 .. MaxCalls
  /\ 0 .. N - 1 = {0} \cup Secondaries
BY NAssumption, MaxCallsAssumption DEF Secondaries, CallIds, None

\* The initial state is well formed.
LEMMA TypeInit == Init => TypeOK
<1> SUFFICES ASSUME Init PROVE TypeOK
  OBVIOUS
<1>1. runs \in [1 .. MaxCalls -> SUBSET (0 .. N - 1)]
  BY DEF Init
<1>2. calls \in CallIds /\ tgt \in Secondaries
  BY Ranges DEF Init, None
<1> QED  BY <1>1, <1>2, Ranges DEF Init, TypeOK

\* Every step keeps the fields, the registers and the histories well formed.
LEMMA TypeStep == TypeOK /\ [Next]_vars => TypeOK'
<1> SUFFICES ASSUME TypeOK, [Next]_vars PROVE TypeOK'
  OBVIOUS
<1> USE Ranges DEF TypeOK, sync, workers, main, history
<1>1. CASE EnterMain
  BY <1>1 DEF EnterMain
<1>2. CASE CallExecuteAll
  BY <1>2 DEF CallExecuteAll
<1>3. CASE StartBusy
  BY <1>3 DEF StartBusy, AfterStart
<1>4. CASE StartFree
  BY <1>4 DEF StartFree
<1>5. CASE StoreArg
  BY <1>5 DEF StoreArg
<1>6. CASE StoreFunc
  BY <1>6 DEF StoreFunc
<1>7. CASE SetReady
  BY <1>7 DEF SetReady, AfterStart
<1>8. CASE RunOwn
  BY <1>8 DEF RunOwn
<1>9. CASE Joined
  BY <1>9 DEF Joined
<1>10. ASSUME NEW h \in Secondaries, CallStart(h) PROVE TypeOK'
  BY <1>10 DEF CallStart
<1>11. ASSUME NEW h \in Secondaries, CallJoin(h) PROVE TypeOK'
  BY <1>11 DEF CallJoin
<1>12. ASSUME NEW h \in Secondaries, Park(h) PROVE TypeOK'
  BY <1>12 DEF Park, Step
<1>13. ASSUME NEW h \in Secondaries, Awake(h) PROVE TypeOK'
  BY <1>13 DEF Awake, Step
<1>14. ASSUME NEW h \in Secondaries, FetchArg(h) PROVE TypeOK'
  BY <1>14 DEF FetchArg, Step
<1>15. ASSUME NEW h \in Secondaries, FetchFunc(h) PROVE TypeOK'
  BY <1>15 DEF FetchFunc, Step
<1>16. ASSUME NEW h \in Secondaries, RunJob(h) PROVE TypeOK'
  BY <1>16 DEF RunJob, Step
<1>17. ASSUME NEW h \in Secondaries, JobReturns(h) PROVE TypeOK'
  BY <1>17 DEF JobReturns, Step
<1>18. ASSUME NEW h \in Secondaries, ClearReady(h) PROVE TypeOK'
  BY <1>18 DEF ClearReady, Step
<1>19. CASE UNCHANGED vars
  BY <1>19 DEF vars
<1> QED
  BY <1>1, <1>2, <1>3, <1>4, <1>5, <1>6, <1>7, <1>8, <1>9, <1>10, <1>11, <1>12, <1>13, <1>14, <1>15, <1>16, <1>17, <1>18, <1>19 DEF Next, Calls, MainInCall, Worker

\* IInv holds when the harts come out of reset, not one of them late.
LEMMA InitIInv == LateBoot = FALSE /\ Init => IInv
<1> SUFFICES ASSUME LateBoot = FALSE, Init PROVE IInv
  OBVIOUS
<1>1. \A h \in Secondaries : HartInv(h)
  BY DEF Init, HartInv, Booting, Handover, Runs, None, InJob, BeforeRun
<1>2. StartInv /\ ExecuteAllInv /\ ExecuteAllReachesAll
  BY DEF Init, StartInv, ExecuteAllInv, ExecuteAllReachesAll, Starting, None
<1> QED  BY <1>1, <1>2, TypeInit DEF IInv

\* Every step of the main hart and of the workers preserves IInv: the one of
\* them that owns a hart's fields is told by ready[h].
LEMMA StepIInv == LateBoot = FALSE /\ IInv /\ [Next]_vars => IInv'
<1> SUFFICES ASSUME LateBoot = FALSE, IInv, [Next]_vars PROVE IInv'
  OBVIOUS
<1>0. TypeOK'
  BY TypeStep DEF IInv
<1> USE Ranges, <1>0 DEF IInv, TypeOK, sync, workers, main, history
<1>n. /\ calls \in Nat /\ N \in Nat /\ tgt \in Nat
      /\ \A g \in Secondaries : g \in Nat /\ started[g] \in Nat /\ started[g] <= calls
  BY NAssumption DEF StartInv
<1>1. CASE EnterMain
  <2>1. \A g \in Secondaries : HartInv(g)'
    BY <1>1 DEF EnterMain, HartInv, Booting, Handover, Runs, InJob
  <2>2. StartInv'
    BY <1>1 DEF EnterMain, StartInv, Starting
  <2>3. ExecuteAllInv'
    BY <1>1 DEF EnterMain, ExecuteAllInv, Starting
  <2>4. ExecuteAllReachesAll'
    BY <1>1 DEF EnterMain, ExecuteAllReachesAll, HartInv, Booting
  <2> QED  BY <2>1, <2>2, <2>3, <2>4
<1>2. CASE CallExecuteAll
  <2>1. \A g \in Secondaries : HartInv(g)'
    BY <1>2 DEF CallExecuteAll, HartInv, Booting, Handover, Runs
  <2>2. StartInv'
    BY <1>2, <1>n DEF CallExecuteAll, StartInv
  <2>3. ExecuteAllInv'
    BY <1>2, <1>n DEF CallExecuteAll, ExecuteAllInv
  <2>4. ExecuteAllReachesAll'
    BY <1>2 DEF CallExecuteAll, ExecuteAllReachesAll
  <2> QED  BY <2>1, <2>2, <2>3, <2>4
<1>3. CASE StartBusy
  <2>1. \A g \in Secondaries : HartInv(g)'
    BY <1>3 DEF StartBusy, AfterStart, HartInv, Booting, Handover, Runs
  <2>2. StartInv'
    BY <1>3 DEF StartBusy, AfterStart, StartInv, Starting, ExecuteAllInv
  <2>3. ExecuteAllInv'
    BY <1>3 DEF StartBusy, AfterStart, ExecuteAllInv, Starting, StartInv
  <2>4. ExecuteAllReachesAll'
    BY <1>3 DEF StartBusy, AfterStart, ExecuteAllReachesAll
  <2> QED  BY <2>1, <2>2, <2>3, <2>4
<1>4. CASE StartFree
  <2>1. \A g \in Secondaries : HartInv(g)'
    BY <1>4 DEF StartFree, HartInv, Booting, Handover, Runs
  <2>2. StartInv'
    BY <1>4 DEF StartFree, StartInv, Starting
  <2>3. ExecuteAllInv'
    BY <1>4 DEF StartFree, ExecuteAllInv, Starting
  <2>4. ExecuteAllReachesAll'
    BY <1>4 DEF StartFree, ExecuteAllReachesAll
  <2> QED  BY <2>1, <2>2, <2>3, <2>4
<1>5. CASE StoreArg
  <2>1. \A g \in Secondaries : HartInv(g)'
    BY <1>5 DEF StoreArg, HartInv, Booting, Handover, Runs, StartInv, Starting
  <2>2. StartInv'
    BY <1>5 DEF StoreArg, StartInv, Starting
  <2>3. ExecuteAllInv'
    BY <1>5 DEF StoreArg, ExecuteAllInv, Starting
  <2>4. ExecuteAllReachesAll'
    BY <1>5 DEF StoreArg, ExecuteAllReachesAll
  <2> QED  BY <2>1, <2>2, <2>3, <2>4
<1>6. CASE StoreFunc
  <2>1. \A g \in Secondaries : HartInv(g)'
    BY <1>6 DEF StoreFunc, HartInv, Booting, Handover, Runs, StartInv
  <2>2. StartInv'
    BY <1>6 DEF StoreFunc, StartInv, Starting
  <2>3. ExecuteAllInv'
    BY <1>6 DEF StoreFunc, ExecuteAllInv, Starting
  <2>4. ExecuteAllReachesAll'
    BY <1>6 DEF StoreFunc, ExecuteAllReachesAll
  <2> QED  BY <2>1, <2>2, <2>3, <2>4
<1>7. CASE SetReady
  <2>a. /\ pc[tgt] = "wait" /\ ~ ready[tgt] /\ started[tgt] < calls /\ calls # 0
        /\ arg[tgt] = calls /\ func[tgt] = calls /\ finished[tgt] = started[tgt]
    BY <1>7 DEF SetReady, HartInv, Handover, InJob, StartInv, Starting
  <2>b. /\ started' = [started EXCEPT ![tgt] = calls] /\ ready' = [ready EXCEPT ![tgt] = TRUE]
        /\ mpc = "set_ready" /\ mpc' # "boot"
        /\ UNCHANGED <<pc, regArg, regFunc, arg, func, finished, runs, calls, all, allIdle>>
    BY <1>7 DEF SetReady, AfterStart
  <2>c. ASSUME NEW t \in Secondaries, t = tgt PROVE HartInv(t)'
    <3>1. Handover(t)' /\ Booting(t)'
      BY <2>a, <2>b, <2>c DEF Booting, Handover, None
    <3>2. \A n \in 1 .. MaxCalls : t \in runs[n] => n < calls
      BY <2>a, <2>c, <1>n DEF HartInv, Runs
    <3>3. t \notin runs[calls]
      BY <2>a, <3>2, <1>n DEF None
    <3>4. \A n \in 1 .. MaxCalls : t \in runs[n] => n <= calls
      BY <3>2, <1>n
    <3>5. finished[t] # None => t \in runs[finished[t]]
      BY DEF HartInv, Runs
    <3> QED  BY <2>a, <2>b, <2>c, <3>1, <3>3, <3>4, <3>5 DEF HartInv, Runs
  <2>d. ASSUME NEW g \in Secondaries, g # tgt PROVE HartInv(g)'
    BY <2>b, <2>d DEF HartInv, Booting, Handover, Runs
  <2>1. \A g \in Secondaries : HartInv(g)'
    BY <2>c, <2>d
  <2>2. StartInv'
    BY <1>7 DEF SetReady, AfterStart, StartInv, Starting, ExecuteAllInv
  <2>3. ExecuteAllInv'
    BY <2>a, <2>b, <1>7, <1>n DEF SetReady, AfterStart, ExecuteAllInv, Starting
  <2>4. ExecuteAllReachesAll'
    BY <1>7 DEF SetReady, AfterStart, ExecuteAllReachesAll
  <2> QED  BY <2>1, <2>2, <2>3, <2>4
<1>8. CASE RunOwn
  <2>1. \A g \in Secondaries : HartInv(g)'
    BY <1>8 DEF RunOwn, HartInv, Booting, Handover, Runs
  <2>2. StartInv'
    BY <1>8 DEF RunOwn, StartInv, Starting
  <2>3. ExecuteAllInv'
    BY <1>8 DEF RunOwn, ExecuteAllInv, Starting
  <2>4. ExecuteAllReachesAll'
    BY <1>8 DEF RunOwn, ExecuteAllReachesAll
  <2> QED  BY <2>1, <2>2, <2>3, <2>4
<1>9. CASE Joined
  <2>1. \A g \in Secondaries : HartInv(g)'
    BY <1>9 DEF Joined, HartInv, Booting, Handover, Runs
  <2>2. StartInv'
    BY <1>9 DEF Joined, StartInv, Starting
  <2>3. ExecuteAllInv'
    BY <1>9 DEF Joined, ExecuteAllInv, Starting, HartInv, Handover, Runs, None
  <2>4. ExecuteAllReachesAll'
    <3> SUFFICES ASSUME mpc' = "main", all, allIdle PROVE runs[calls] = 0 .. N - 1
      BY <1>9 DEF Joined, ExecuteAllReachesAll
    <3>1. /\ mpc = "join" /\ tgt = N - 1 /\ ~ ready[tgt]
          /\ calls # 0 /\ 0 \in runs[calls]
          /\ \A h \in Secondaries : started[h] = calls /\ (h < tgt => h \in runs[calls])
      BY <1>9, <1>n DEF Joined, ExecuteAllInv
    <3>2. tgt \in runs[calls]
      <4>1. Handover(tgt) /\ Runs(tgt)
        BY DEF HartInv
      <4>2. finished[tgt] = calls
        BY <3>1, <4>1 DEF Handover
      <4> QED  BY <3>1, <4>1, <4>2 DEF Runs, None
    <3>3. \A h \in Secondaries : h \in runs[calls]
      BY <3>1, <3>2, <1>n DEF Secondaries
    <3>4. runs[calls] \subseteq 0 .. N - 1
      BY <3>1 DEF None
    <3> QED  BY <3>1, <3>3, <3>4
  <2> QED  BY <2>1, <2>2, <2>3, <2>4
<1>10. ASSUME NEW h \in Secondaries, CallStart(h) PROVE IInv'
  <2>1. \A g \in Secondaries : HartInv(g)'
    BY <1>10 DEF CallStart, HartInv, Booting, Handover, Runs
  <2>2. StartInv'
    BY <1>10, <1>n DEF CallStart, StartInv
  <2>3. ExecuteAllInv'
    BY <1>10 DEF CallStart, ExecuteAllInv
  <2>4. ExecuteAllReachesAll'
    BY <1>10 DEF CallStart, ExecuteAllReachesAll
  <2> QED  BY <2>1, <2>2, <2>3, <2>4
<1>11. ASSUME NEW h \in Secondaries, CallJoin(h) PROVE IInv'
  <2>1. \A g \in Secondaries : HartInv(g)'
    BY <1>11 DEF CallJoin, HartInv, Booting, Handover, Runs
  <2>2. StartInv'
    BY <1>11 DEF CallJoin, StartInv, Starting
  <2>3. ExecuteAllInv'
    BY <1>11 DEF CallJoin, ExecuteAllInv
  <2>4. ExecuteAllReachesAll'
    BY <1>11 DEF CallJoin, ExecuteAllReachesAll
  <2> QED  BY <2>1, <2>2, <2>3, <2>4
<1>12. ASSUME NEW h \in Secondaries, Park(h) PROVE IInv'
  <2>1. \A g \in Secondaries : HartInv(g)'
    BY <1>12 DEF Park, Step, HartInv, Booting, Handover, Runs
  <2>2. StartInv'
    BY <1>12 DEF Park, StartInv
  <2>3. ExecuteAllInv'
    BY <1>12 DEF Park, ExecuteAllInv
  <2>4. ExecuteAllReachesAll'
    BY <1>12 DEF Park, ExecuteAllReachesAll
  <2> QED  BY <2>1, <2>2, <2>3, <2>4
<1>13. ASSUME NEW h \in Secondaries, Awake(h) PROVE IInv'
  <2>1. \A g \in Secondaries : HartInv(g)'
    BY <1>13 DEF Awake, Step, HartInv, Booting, Handover, Runs, BeforeRun
  <2>2. StartInv'
    BY <1>13 DEF Awake, StartInv
  <2>3. ExecuteAllInv'
    BY <1>13 DEF Awake, ExecuteAllInv
  <2>4. ExecuteAllReachesAll'
    BY <1>13 DEF Awake, ExecuteAllReachesAll
  <2> QED  BY <2>1, <2>2, <2>3, <2>4
<1>14. ASSUME NEW h \in Secondaries, FetchArg(h) PROVE IInv'
  <2>1. \A g \in Secondaries : HartInv(g)'
    BY <1>14 DEF FetchArg, Step, HartInv, Booting, Handover, Runs, InJob, BeforeRun
  <2>2. StartInv'
    BY <1>14 DEF FetchArg, StartInv
  <2>3. ExecuteAllInv'
    BY <1>14 DEF FetchArg, ExecuteAllInv
  <2>4. ExecuteAllReachesAll'
    BY <1>14 DEF FetchArg, ExecuteAllReachesAll
  <2> QED  BY <2>1, <2>2, <2>3, <2>4
<1>15. ASSUME NEW h \in Secondaries, FetchFunc(h) PROVE IInv'
  <2>1. \A g \in Secondaries : HartInv(g)'
    BY <1>15 DEF FetchFunc, Step, HartInv, Booting, Handover, Runs, InJob, BeforeRun
  <2>2. StartInv'
    BY <1>15 DEF FetchFunc, StartInv
  <2>3. ExecuteAllInv'
    BY <1>15 DEF FetchFunc, ExecuteAllInv
  <2>4. ExecuteAllReachesAll'
    BY <1>15 DEF FetchFunc, ExecuteAllReachesAll
  <2> QED  BY <2>1, <2>2, <2>3, <2>4
<1>16. ASSUME NEW h \in Secondaries, RunJob(h) PROVE IInv'
  <2>a. /\ pc[h] = "call" /\ pc' = [pc EXCEPT ![h] = "running"]
        /\ mpc # "boot" /\ regFunc[h] = started[h] /\ ready[h]
        /\ UNCHANGED <<sync, regArg, regFunc, main, started, finished, allIdle>>
    BY <1>16 DEF RunJob, Step, HartInv, Booting, Handover, InJob
  <2>b. /\ started[h] \in 1 .. MaxCalls
        /\ runs' = [runs EXCEPT ![started[h]] = @ \cup {h}]
    <3>1. started[h] \in CallIds /\ started[h] # None
      BY <2>a DEF HartInv, Handover
    <3>2. started[h] \in 1 .. MaxCalls
      BY <3>1
    <3> QED  BY <1>16, <2>a, <3>2 DEF RunJob
  <2>c. \A n \in 1 .. MaxCalls, g \in 0 .. N - 1 :
           g \in runs'[n] <=> g \in runs[n] \/ (n = started[h] /\ g = h)
    BY <2>b
  <2>1. \A g \in Secondaries : HartInv(g)'
    <3>1. \A g \in Secondaries : Booting(g)' /\ Handover(g)'
      BY <2>a DEF HartInv, Booting, Handover
    <3> SUFFICES ASSUME NEW g \in Secondaries PROVE Runs(g)'
      BY <3>1 DEF HartInv
    <3>2. \A n \in 1 .. MaxCalls : g \in runs'[n] => n <= started'[g]
      BY <2>a, <2>b, <2>c, <1>n DEF HartInv, Runs
    <3>3. started[g] # None => started[g] \in 1 .. MaxCalls
      OBVIOUS
    <3>4. finished[g] # None => finished[g] \in 1 .. MaxCalls
      OBVIOUS
    <3>5. finished'[g] # None => g \in runs'[finished'[g]]
      BY <2>a, <2>c, <3>4 DEF HartInv, Runs
    <3>6. CASE g = h
      BY <2>a, <2>b, <3>2, <3>5, <3>6 DEF Runs, BeforeRun
    <3>7. CASE g # h
      BY <2>a, <2>b, <2>c, <3>2, <3>3, <3>5, <3>7 DEF HartInv, Runs
    <3> QED  BY <3>6, <3>7
  <2>2. StartInv'
    BY <1>16 DEF RunJob, StartInv
  <2>3. ExecuteAllInv'
    BY <1>16 DEF RunJob, ExecuteAllInv
  <2>4. ExecuteAllReachesAll'
    <3> SUFFICES ASSUME mpc = "main", all, allIdle PROVE runs'[calls] = 0 .. N - 1
      BY <2>a DEF ExecuteAllReachesAll
    <3>1. runs[calls] = 0 .. N - 1
      BY DEF ExecuteAllReachesAll
    <3>2. calls \in 1 .. MaxCalls
      BY <2>b, <1>n DEF None
    <3>3. runs'[calls] \subseteq 0 .. N - 1
      BY <3>2
    <3> QED  BY <2>c, <3>1, <3>2, <3>3
  <2> QED  BY <2>1, <2>2, <2>3, <2>4
<1>17. ASSUME NEW h \in Secondaries, JobReturns(h) PROVE IInv'
  <2>1. \A g \in Secondaries : HartInv(g)'
    BY <1>17 DEF JobReturns, Step, HartInv, Booting, Handover, Runs, InJob, BeforeRun
  <2>2. StartInv'
    BY <1>17 DEF JobReturns, StartInv
  <2>3. ExecuteAllInv'
    BY <1>17 DEF JobReturns, ExecuteAllInv
  <2>4. ExecuteAllReachesAll'
    BY <1>17 DEF JobReturns, ExecuteAllReachesAll
  <2> QED  BY <2>1, <2>2, <2>3, <2>4
<1>18. ASSUME NEW h \in Secondaries, ClearReady(h) PROVE IInv'
  <2>1. \A g \in Secondaries : HartInv(g)'
    BY <1>18 DEF ClearReady, Step, HartInv, Booting, Handover, Runs, InJob
  <2>2. StartInv'
    BY <1>18 DEF ClearReady, StartInv
  <2>3. ExecuteAllInv'
    BY <1>18 DEF ClearReady, ExecuteAllInv
  <2>4. ExecuteAllReachesAll'
    BY <1>18 DEF ClearReady, ExecuteAllReachesAll
  <2> QED  BY <2>1, <2>2, <2>3, <2>4
<1>19. CASE UNCHANGED vars
  BY <1>19 DEF vars, HartInv, Booting, Handover, Runs, StartInv, ExecuteAllInv, ExecuteAllReachesAll
<1> QED
  BY <1>1, <1>2, <1>3, <1>4, <1>5, <1>6, <1>7, <1>8, <1>9, <1>10, <1>11, <1>12, <1>13, <1>14, <1>15, <1>16, <1>17, <1>18, <1>19 DEF Next, Calls, MainInCall, Worker

\* IInv is an invariant if every hart has parked before main() runs.
LEMMA IInvHolds == LateBoot = FALSE => (Spec => []IInv)
<1> SUFFICES ASSUME LateBoot = FALSE PROVE Spec => []IInv
  OBVIOUS
<1>1. Init => IInv
  BY InitIInv
<1>2. IInv /\ [Next]_vars => IInv'
  BY StepIInv
<1> QED  BY <1>1, <1>2, PTL DEF Spec

\* The data structures stay well formed.
THEOREM TypeCorrect == Spec => []TypeOK
BY TypeInit, TypeStep, PTL DEF Spec

\* If the secondary harts have parked before main() runs, the three fields of
\* bm_hart_sync_data are never overwritten while a hart uses them.
THEOREM JobsIntact == LateBoot = FALSE => (Spec => []JobIsIntact)
<1>1. IInv => JobIsIntact
  BY DEF IInv, HartInv, Booting, Handover, JobIsIntact
<1> SUFFICES ASSUME LateBoot = FALSE PROVE Spec => []JobIsIntact
  OBVIOUS
<1>2. Spec => []IInv
  BY IInvHolds
<1> QED  BY <1>1, <1>2, PTL

\* ... and each hart runs each job that it is given once,
THEOREM JobsRunOnce == LateBoot = FALSE => (Spec => []JobRunsOnce)
<1>1. IInv => JobRunsOnce
  BY DEF IInv, HartInv, Booting, Handover, Runs, JobRunsOnce, InJob, BeforeRun
<1> SUFFICES ASSUME LateBoot = FALSE PROVE Spec => []JobRunsOnce
  OBVIOUS
<1>2. Spec => []IInv
  BY IInvHolds
<1> QED  BY <1>1, <1>2, PTL

\* ... a bm_hart_join() that returns has waited for the last job,
THEOREM JoinWaits == LateBoot = FALSE => (Spec => []ClearMeansDone)
<1>1. IInv => ClearMeansDone
  BY DEF IInv, HartInv, Handover, ClearMeansDone
<1> SUFFICES ASSUME LateBoot = FALSE PROVE Spec => []ClearMeansDone
  OBVIOUS
<1>2. Spec => []IInv
  BY IInvHolds
<1> QED  BY <1>1, <1>2, PTL

\* ... and bm_hart_execute_all(), called when all harts are idle, runs the
\* function on every hart before it returns.
THEOREM AllHartsReached == LateBoot = FALSE => (Spec => []ExecuteAllReachesAll)
<1>1. IInv => ExecuteAllReachesAll
  BY DEF IInv
<1> SUFFICES ASSUME LateBoot = FALSE PROVE Spec => []ExecuteAllReachesAll
  OBVIOUS
<1>2. Spec => []IInv
  BY IInvHolds
<1> QED  BY <1>1, <1>2, PTL
=============================================================================
