------------------------------ MODULE RateLimit ------------------------------
(***************************************************************************)
(* The rate limiter of ayato's public routes, for one client of one route: *)
(* a counter per window in a key-value store that all replicas share.      *)
(* badger and SQL offer an atomic creation and no atomic increment;        *)
(* Workers KV offers neither, and its reads may miss what was written.     *)
(***************************************************************************)
EXTENDS KVStore

CONSTANTS Replicas,     \* requests that may be in flight, one per replica
          RateLimitOf,  \* the limit, RateWindow moments long
          RateWindow, MaxRateTime, MaxRequests, MaxRateFaults

\* Allow lets everything through without a limit or a window: no counter is kept then.
ASSUME RateLimitAssumption ==
  RateLimitOf \in Nat \ {0} /\ RateWindow \in Nat \ {0} /\ MaxRateTime \in Nat

VARIABLES rlNow,
          rlAdder,     \* the store is a kv.Adder: not Workers KV
          rlCount,     \* window -> the stored counter, 0 none
          rlEver,      \* window -> the counters that were stored so far
          rlR,         \* replica -> [pc, window, saw]
          rlAdmitted,  \* window -> requests let through by count
          rlOverlap,   \* windows in which two requests were in flight together
          rlRefused,   \* windows in which a request was refused
          rlRequests, rlFaults

rlVars == <<rlNow, rlAdder, rlCount, rlEver, rlR, rlAdmitted, rlOverlap, rlRefused, rlRequests, rlFaults>>

Windows == 0..(MaxRateTime \div RateWindow)
RequestIdle == [pc |-> "idle", window |-> 0, saw |-> 0]

RLInit ==
  /\ rlNow = 0 /\ rlRequests = 0 /\ rlFaults = 0 /\ rlOverlap = {} /\ rlRefused = {}
  /\ rlAdder \in BOOLEAN
  /\ rlCount = [w \in Windows |-> 0] /\ rlEver = [w \in Windows |-> {0}] /\ rlAdmitted = [w \in Windows |-> 0]
  /\ rlR = [r \in Replicas |-> RequestIdle]

Request(r, s) == rlR' = [rlR EXCEPT ![r] = s]

\* rateLimitWindow.
WindowOf(now) == now \div RateWindow

RateClock ==
  /\ rlNow < MaxRateTime /\ rlNow' = rlNow + 1
  /\ UNCHANGED <<rlAdder, rlCount, rlEver, rlR, rlAdmitted, rlOverlap, rlRefused, rlRequests, rlFaults>>

\* Get, in a store that is consistent, and in one whose edge nodes answer late.
GetCount(w) == IF rlAdder THEN {rlCount[w]} ELSE rlEver[w]

\* Set and Add.
SetCount(w, n) ==
  rlCount' = [rlCount EXCEPT ![w] = n] /\ rlEver' = [rlEver EXCEPT ![w] = @ \cup {n}]

\* Allow: the key of the window, and the first read of bump.
BumpGet(r) ==
  LET w == WindowOf(rlNow)
  IN /\ rlR[r].pc = "idle" /\ rlRequests < MaxRequests /\ rlRequests' = rlRequests + 1
     /\ \E n \in GetCount(w) : Request(r, [pc |-> IF n = 0 THEN "add" ELSE "count", window |-> w, saw |-> n])
     /\ rlOverlap' = IF \E o \in Replicas : rlR[o].pc # "idle" /\ rlR[o].window = w
                     THEN rlOverlap \cup {w} ELSE rlOverlap
     /\ UNCHANGED <<rlNow, rlAdder, rlCount, rlEver, rlAdmitted, rlRefused, rlFaults>>

Admitted(r) == rlAdmitted' = [rlAdmitted EXCEPT ![rlR[r].window] = @ + 1]

\* kv.Adder creates; a store without it sets the first counter blindly.
BumpCreated(r) == ~rlAdder \/ rlCount[rlR[r].window] = 0

\* The first request of a window creates the counter, or reads it again.
BumpAdd(r) ==
  LET w == rlR[r].window
  IN /\ rlR[r].pc = "add"
     /\ IF BumpCreated(r)
        THEN SetCount(w, 1) /\ Admitted(r) /\ Request(r, RequestIdle)
        ELSE Request(r, [rlR[r] EXCEPT !.pc = "count", !.saw = rlCount[w]]) /\ UNCHANGED <<rlCount, rlEver, rlAdmitted>>
     /\ UNCHANGED <<rlNow, rlAdder, rlOverlap, rlRefused, rlRequests, rlFaults>>

\* Deviation: the request that reaches the limit is let through once more.
OverLimitLate(count) == count > RateLimitOf

\* At the limit nothing is written.
OverLimit(count) == count >= RateLimitOf

BumpSet(r) ==
  LET w == rlR[r].window
  IN /\ rlR[r].pc = "count" /\ Request(r, RequestIdle)
     /\ IF OverLimit(rlR[r].saw)
        THEN /\ rlRefused' = rlRefused \cup {w}
             /\ UNCHANGED <<rlCount, rlEver, rlAdmitted>>
        ELSE /\ SetCount(w, rlR[r].saw + 1)
             /\ Admitted(r) /\ UNCHANGED rlRefused
     /\ UNCHANGED <<rlNow, rlAdder, rlOverlap, rlRequests, rlFaults>>

\* The store fails: the request is let through, and not counted.
FailsOpen(r) ==
  /\ rlR[r].pc # "idle" /\ rlFaults < MaxRateFaults /\ rlFaults' = rlFaults + 1
  /\ Request(r, RequestIdle)
  /\ UNCHANGED <<rlNow, rlAdder, rlCount, rlEver, rlAdmitted, rlOverlap, rlRefused, rlRequests>>

RLNext ==
  \/ RateClock
  \/ \E r \in Replicas : BumpGet(r) \/ BumpAdd(r) \/ BumpSet(r) \/ FailsOpen(r)

RLSpec == RLInit /\ [][RLNext]_rlVars

\* In a consistent store, in a window whose requests came one after the other, at
\* most the limit is let through, whichever replicas they came to; and in every
\* store, however requests overlap and however old the counter they read, nobody
\* is refused before the limit was let through.
LimitHolds ==
  \A w \in Windows :
    /\ rlAdder /\ w \notin rlOverlap => rlAdmitted[w] <= RateLimitOf
    /\ w \in rlRefused => rlAdmitted[w] >= RateLimitOf

\* The shared stores, and the rate limiter that counts in them: KVStore's and
\* RateLimit's properties.
SharedStoresHold == StoreHolds /\ LimitHolds

\* What a comment says and the code does not keep (README, section 6), so no run has it.
\* Overlapping requests let through at most as many more as are in flight
\* (store_limiter.go: "a residual bounded by in-flight concurrency per key per
\* window that never resets the limit").
ResidualBounded == \A w \in Windows : rlAdmitted[w] <= RateLimitOf + Cardinality(Replicas)
=============================================================================
