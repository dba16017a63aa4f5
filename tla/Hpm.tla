-------------------------------- MODULE Hpm --------------------------------
(***************************************************************************)
(* The HPM events of lib/targets/cores/L730/target_hpm.c (the same on A730 *)
(* and X730): a program counts more kinds of events than there are event   *)
(* counters, and bm_hpmcounter_*() find the counter of an event, or claim  *)
(* a free one for it.  A counter is read, cleared and paused as a whole    *)
(* here; CounterRead takes these calls apart.                              *)
(***************************************************************************)
EXTENDS Integers

CONSTANTS Events,       \* bm_hpm_event_t
          NCounters,    \* MAX_SUPPORTED_COUNTERS
          MaxCount,     \* bound on the events counted
          Orderly       \* does the program pause started events only, and
                        \* resume them before it stops them?

Counters == 1 .. NCounters
None == "none"          \* claimed by nobody; an event CSR of 0

VARIABLES
    claimed,    \* claimed_hpm_counter_table
    selected,   \* the event CSRs
    count,      \* the counters
    inhibited,  \* the bits of mcountinhibit
    \* history
    wanted,     \* per event: does the program count it?
    seen        \* per event: how often it came while the program counted it

vars == <<claimed, selected, count, inhibited, wanted, seen>>

Init ==
    /\ claimed = [i \in Counters |-> None]
    /\ selected = [i \in Counters |-> None]
    /\ count = [i \in Counters |-> 0]
    /\ inhibited = [i \in Counters |-> FALSE]
    /\ wanted = [e \in Events |-> "no"]
    /\ seen = [e \in Events |-> 0]

Holders(e) == {i \in Counters : claimed[i] = e}

\* get_counter_id(): the counter of the event, or else the last free one.
GetCounterId(e) ==
    LET free == Holders(None)
    IN IF Holders(e) # {} THEN Holders(e)
       ELSE {i \in free : \A j \in free : j <= i}

\* The event has counter i from now on.
Claim(i, e) ==
    /\ claimed' = [claimed EXCEPT ![i] = e]
    /\ selected' = IF claimed[i] = e THEN selected ELSE [selected EXCEPT ![i] = e]

Expect(e, how) == wanted' = [wanted EXCEPT ![e] = how]

\* Mutant: a counter goes on from where it is.
Start_NoClear(e) ==
    \E i \in GetCounterId(e) :
        /\ Claim(i, e)
        /\ Expect(e, IF wanted[e] = "paused" THEN "paused" ELSE "yes")
        /\ seen' = [seen EXCEPT ![e] = 0]
        /\ UNCHANGED <<count, inhibited>>

\* bm_hpmcounter_start(), which starts the count over and does not resume it.
Start(e) ==
    \E i \in GetCounterId(e) :
        /\ Claim(i, e)
        /\ count' = [count EXCEPT ![i] = 0]
        /\ Expect(e, IF wanted[e] = "paused" THEN "paused" ELSE "yes")
        /\ seen' = [seen EXCEPT ![e] = 0]
        /\ UNCHANGED inhibited

\* bm_hpmcounter_pause() and bm_hpmcounter_resume().
Inhibit(e, on) ==
    \E i \in GetCounterId(e) :
        /\ Orderly => wanted[e] # "no"
        /\ Claim(i, e)
        /\ inhibited' = [inhibited EXCEPT ![i] = on]
        /\ Expect(e, IF wanted[e] = "no" THEN "no" ELSE IF on THEN "paused" ELSE "yes")
        /\ UNCHANGED <<count, seen>>

\* bm_hpmcounter_stop()
Stop(e) ==
    \E i \in Holders(e) :
        /\ Orderly => wanted[e] # "paused"
        /\ selected' = [selected EXCEPT ![i] = None]
        /\ claimed' = [claimed EXCEPT ![i] = None]
        /\ Expect(e, "no")
        /\ seen' = [seen EXCEPT ![e] = 0]
        /\ UNCHANGED <<count, inhibited>>

\* bm_hpmcounter_read(), which returns the count of the counter it finds.
Read(e) ==
    \E i \in GetCounterId(e) :
        /\ Claim(i, e)
        /\ UNCHANGED <<count, inhibited, wanted, seen>>

\* The event comes: the hart counts it wherever it is selected.
Occur(e) ==
    /\ \A i \in Counters : count[i] < MaxCount
    /\ seen[e] < MaxCount
    /\ count' = [i \in Counters |->
                    count[i] + (IF selected[i] = e /\ ~ inhibited[i] THEN 1 ELSE 0)]
    /\ seen' = [seen EXCEPT ![e] = @ + (IF wanted[e] = "yes" THEN 1 ELSE 0)]
    /\ UNCHANGED <<claimed, selected, inhibited, wanted>>

\* The calls that find no counter return -1 and change nothing.
Next ==
    \E e \in Events :
        \/ Start(e) \/ Stop(e) \/ Read(e) \/ Occur(e)
        \/ \E on \in BOOLEAN : Inhibit(e, on)

Spec == Init /\ [][Next]_vars
-----------------------------------------------------------------------------
\* hpm.h:27, "Start counter for the given event": what bm_hpmcounter_read() would
\* return for a started event is how often it has come since, the time it was
\* paused left out, whatever other events were started, stopped and read.
EventsAreCounted ==
    \A e \in Events : wanted[e] # "no" =>
        GetCounterId(e) # {} /\ \A i \in GetCounterId(e) : count[i] = seen[e]
=============================================================================
