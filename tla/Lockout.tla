------------------------------- MODULE Lockout -------------------------------
(***************************************************************************)
(* The failure counter of the PIN page (auth/pin.py).  It lives in the     *)
(* process: all sign-ins share it and a restart forgets it.  _state_lock   *)
(* covers check, verification and update, and nothing in it awaits, so the *)
(* whole block is one action.  Times are kept as what is left of them:     *)
(* lockout is _lockout_until minus the clock, cut at 0, and NoLockout      *)
(* stands for _lockout_until = 0.0.                                        *)
(***************************************************************************)
EXTENDS Integers

CONSTANTS
    MaxFailures,     \* _MAX_FAILURES
    LockoutSeconds   \* _LOCKOUT_SECONDS

ASSUME LockoutAssumption == /\ MaxFailures \in Nat \ {0}
                            /\ LockoutSeconds \in Nat \ {0}

VARIABLES
    failure_count,   \* _failure_count
    lockout          \* seconds left of the lockout, or NoLockout

lockoutVars == <<failure_count, lockout>>

NoLockout == -1

LockoutType == /\ failure_count \in Nat
               /\ lockout \in {NoLockout} \cup 0..LockoutSeconds

LockoutInit == failure_count = 0 /\ lockout = NoLockout

LockedOut == lockout > 0

(* _checkLockout resets the counter of a lockout that is over. *)
FailuresNow == IF lockout = 0 THEN 0 ELSE failure_count

(* Bug: a wrong PIN during a lockout starts it again. *)
WrongPinRestarts ==
    IF LockedOut
      THEN lockout' = LockoutSeconds /\ UNCHANGED failure_count
      ELSE /\ failure_count' = FailuresNow + 1
           /\ lockout' = IF failure_count' >= MaxFailures THEN LockoutSeconds
                                                          ELSE NoLockout

(* Bug: the counter of a lockout that is over is kept. *)
WrongPinNoReset ==
    IF LockedOut
      THEN UNCHANGED lockoutVars
      ELSE /\ failure_count' = failure_count + 1
           /\ lockout' = IF failure_count' >= MaxFailures THEN LockoutSeconds
                                                          ELSE NoLockout

(* A POST with a wrong PIN: refused during a lockout, else counted. *)
WrongPin ==
    IF LockedOut
      THEN UNCHANGED lockoutVars
      ELSE /\ failure_count' = FailuresNow + 1
           /\ lockout' = IF failure_count' >= MaxFailures THEN LockoutSeconds
                                                          ELSE NoLockout

(* A POST with the right PIN, outside a lockout. *)
RightPin == /\ ~ LockedOut
            /\ failure_count' = 0
            /\ lockout' = NoLockout

(* A POST whose verification raises: what _checkLockout has reset stays.   *)
NoPin == IF lockout = 0 THEN failure_count' = 0 /\ lockout' = NoLockout
                        ELSE UNCHANGED lockoutVars

LockoutTick == /\ lockout' = IF lockout > 0 THEN lockout - 1 ELSE lockout
               /\ UNCHANGED failure_count
=============================================================================
