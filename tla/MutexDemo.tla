----------------------------- MODULE MutexDemo -----------------------------
(***************************************************************************)
(* software/mutex-demo: every hart claims the lock of Mutex Rounds times   *)
(* with bm_mutex_trylock() and prints two lines in the critical section.   *)
(* The delays are random; any interleaving is possible without them.       *)
(***************************************************************************)
EXTENDS Mutex, Sequences

CONSTANT Rounds     \* how often each hart claims the lock (3 in the code)

VARIABLES i,        \* per hart: rounds completed
          lines,    \* per hart: lines printed in the current round
          output    \* history: all lines printed, as <<hart, round, line>>

demo == <<i, lines, output>>

DemoInit ==
    /\ Init
    /\ i = [h \in Clients |-> 0]
    /\ lines = [h \in Clients |-> 0]
    /\ output = <<>>

Claim(h) ==
    /\ i[h] < Rounds
    /\ TryLock(h)
    /\ UNCHANGED demo

PrintLine(h) ==
    /\ mpc[h] = "in"
    /\ lines[h] < 2
    /\ lines' = [lines EXCEPT ![h] = @ + 1]
    /\ output' = Append(output, <<h, i[h], lines[h]>>)
    /\ UNCHANGED <<vars, i>>

Release(h) ==
    /\ lines[h] = 2
    /\ Unlock(h)
    /\ i' = [i EXCEPT ![h] = @ + 1]
    /\ lines' = [lines EXCEPT ![h] = 0]
    /\ UNCHANGED output

HartStep(h) == Claim(h) \/ PrintLine(h) \/ Release(h)

DemoNext == \E h \in Clients : HartStep(h)

DemoSpec == DemoInit /\ [][DemoNext]_<<vars, demo>>

FairDemoSpec == DemoSpec /\ \A h \in Clients : WF_<<vars, demo>>(HartStep(h))

\* The second line of a claim directly follows its first line: no other hart
\* prints between them.
LinesInPairs ==
    \A k \in 1 .. Len(output) :
       output[k][3] = 1 =>
          k > 1 /\ output[k - 1] = <<output[k][1], output[k][2], 0>>

\* Though bm_mutex_lock() is not fair, a hart gets the lock when the others do
\* not claim it for ever.
EveryHartFinishes == <>(\A h \in Clients : i[h] = Rounds)
=============================================================================
