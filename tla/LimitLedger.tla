---------------------------- MODULE LimitLedger ----------------------------
(***************************************************************************)
(* What the load-control path promises to the sender of power limits: one  *)
(* register per key.  A command that has been received takes effect once,  *)
(* as a whole, or is dropped; a limit leaves its register only when it is  *)
(* replaced, released, or past its expiry.                                 *)
(***************************************************************************)
EXTENDS Naturals

CONSTANTS Keys, Powers, Durations

VARIABLES
  now,       \* the time
  pending,   \* the command being handled, or NoCommand
  limit      \* the limit of each key, or NoLimitSet

NoCommand == [active |-> FALSE, key |-> "none"]
NoLimitSet == [watts |-> 0, expires |-> 0, set |-> FALSE]

Init ==
  /\ now = 0
  /\ pending = NoCommand
  /\ limit = [k \in Keys |-> NoLimitSet]

Lapsed(k) == limit[k].set /\ limit[k].expires # 0 /\ limit[k].expires <= now

(* Keys outside K keep their limit, or lose it because it has lapsed.      *)
OthersKeepOrLapse(K) ==
  \A k \in Keys \ K : \/ limit'[k] = limit[k]
                      \/ Lapsed(k) /\ limit'[k] = NoLimitSet

Receive ==
  /\ pending = NoCommand
  /\ now' = now + 1
  /\ \E a \in BOOLEAN, k \in Keys, p \in Powers, t \in Durations :
       pending' = [active |-> a, key |-> k, watts |-> p, duration |-> t,
                   received |-> now']
  /\ UNCHANGED limit

TakeEffect ==
  /\ pending # NoCommand
  /\ pending' = NoCommand
  /\ DOMAIN limit' = Keys
  /\ limit'[pending.key] =
       IF pending.active
       THEN [watts |-> pending.watts, set |-> TRUE,
             expires |-> IF pending.duration = 0 THEN 0
                         ELSE pending.received + pending.duration]
       ELSE NoLimitSet
  /\ OthersKeepOrLapse({pending.key})
  /\ UNCHANGED now

(* A command that has already run past its expiry has no effect to show.   *)
TakeEffectTooLate ==
  /\ pending # NoCommand
  /\ pending.active /\ pending.duration # 0
  /\ pending.received + pending.duration <= now
  /\ pending' = NoCommand
  /\ DOMAIN limit' = Keys
  /\ limit'[pending.key] = NoLimitSet
  /\ OthersKeepOrLapse({pending.key})
  /\ UNCHANGED now

Drop ==
  /\ pending # NoCommand
  /\ pending' = NoCommand
  /\ UNCHANGED <<now, limit>>

Lapse ==
  /\ limit' # limit
  /\ DOMAIN limit' = Keys
  /\ OthersKeepOrLapse({})
  /\ UNCHANGED <<now, pending>>

Pass == now' = now + 1 /\ UNCHANGED <<pending, limit>>

Next == Receive \/ TakeEffect \/ TakeEffectTooLate \/ Drop \/ Lapse \/ Pass

Spec == Init /\ [][Next]_<<now, pending, limit>>
=============================================================================
