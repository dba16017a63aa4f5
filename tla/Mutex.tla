------------------------------- MODULE Mutex -------------------------------
(***************************************************************************)
(* The spin lock of lib/src/mutex.c on a target with several harts.  A     *)
(* client is a thread of control: the code a hart runs, or an interrupt    *)
(* handler on top of it, which is a client of its own because the lock     *)
(* does not know who holds it.                                             *)
(***************************************************************************)
EXTENDS Naturals

CONSTANT Clients

VARIABLES mutex,    \* the bm_mutex_t word
          mpc       \* per client: "out", spinning in bm_mutex_lock(), or "in"
                    \* the critical section

vars == <<mutex, mpc>>

\* bm_mutex_init()
Init ==
    /\ mutex = 0
    /\ mpc = [c \in Clients |-> "out"]

Move(c, to) == mpc' = [mpc EXCEPT ![c] = to]

\* Mutant: the word is tested but not set.
Swap_TestOnly(c, to) ==
    /\ UNCHANGED mutex
    /\ Move(c, IF mutex = 0 THEN "in" ELSE to)

\* bm_mutex_trylock(): bm_amoswap_w(swp, 1, mutex) returns the old word in
\* swp, and 0 means that the lock is taken; the client goes to "to" if not.
Swap(c, to) ==
    /\ mutex' = 1
    /\ Move(c, IF mutex = 0 THEN "in" ELSE to)

TryLock(c) == mpc[c] = "out" /\ Swap(c, "out")

\* bm_mutex_lock() is called ...
Lock(c) ==
    /\ mpc[c] = "out"
    /\ Move(c, "spin")
    /\ UNCHANGED mutex

\* ... and tries until it succeeds.
Spin(c) == mpc[c] = "spin" /\ Swap(c, "spin")

\* bm_mutex_unlock()
Unlock(c) ==
    /\ mpc[c] = "in"
    /\ mutex' = 0
    /\ Move(c, "out")

Next == \E c \in Clients : TryLock(c) \/ Lock(c) \/ Spin(c) \/ Unlock(c)

Spec == Init /\ [][Next]_vars

\* The mutex is zero or one, and each client is at one place.
TypeOK ==
    /\ mutex \in {0, 1}
    /\ mpc \in [Clients -> {"out", "spin", "in"}]

\* At most one client is in the critical section.
MutualExclusion ==
    \A c, d \in Clients : mpc[c] = "in" /\ mpc[d] = "in" => c = d

\* The word is 1 exactly while a client is in the critical section, so the lock
\* can be taken whenever it is free.
WordIsAccurate == mutex = 1 <=> \E c \in Clients : mpc[c] = "in"
=============================================================================
