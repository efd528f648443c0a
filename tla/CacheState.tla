---------------------------- MODULE CacheState ----------------------------
(***************************************************************************)
(* Cache line states and their tests, from the package z48common.  A state *)
(* is the three bit vector of the source read as a number: the two low     *)
(* bits order INVALID < SHARED < EXCLUSIVE < MODIFIED, the third bit is    *)
(* the lock that a refill puts on the line it is about to evict.           *)
(***************************************************************************)
EXTENDS Naturals

T_STATE_INVALID   == 0
T_STATE_SHARED    == 1
T_STATE_EXCLUSIVE == 2
T_STATE_MODIFIED  == 3
T_STATE_LOCKED    == 4

cache_state_t == 0..7

\* The states without the lock bit.
UnlockedStates == 0..3

cache_state_unlock(s) == IF s >= T_STATE_LOCKED THEN s - T_STATE_LOCKED ELSE s

cache_state_lock(s) == IF s >= T_STATE_LOCKED THEN s ELSE s + T_STATE_LOCKED

cache_state_test_at_least(cur, min) ==
    cache_state_unlock(cur) >= cache_state_unlock(min)

\* An INVALID line never counts as locked, whatever its lock bit.
cache_state_test_locked(s) ==
    cache_state_unlock(s) # T_STATE_INVALID /\ s >= T_STATE_LOCKED

cache_state_test_access_ok(cur, min) ==
    ~cache_state_test_locked(cur) /\ cache_state_test_at_least(cur, min)
=============================================================================
