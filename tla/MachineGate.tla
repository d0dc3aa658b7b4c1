---------------------------- MODULE MachineGate ----------------------------
(***************************************************************************)
(* The gate of the two machine surfaces (middleware/agent.go, reader.go):  *)
(* the observed-state webhook and the read API.  A request is admitted on  *)
(* a bearer token alone, and against a token bucket of its credential; a   *)
(* token nobody owns draws on one bucket that all such requests share.     *)
(*                                                                         *)
(* A bucket's level is a number of Units, so that a part of a token can be *)
(* refilled; Allow holds the limiter's mutex, so a decision is one step.   *)
(* tried is history.                                                       *)
(***************************************************************************)
EXTENDS Integers, Sequences, FiniteSets

CONSTANTS
  Credentials,    \* [surface -> the credential ids configured for it]
  Rate,           \* [surface -> Units a credential's bucket gains in a tick]
  Burst,          \* [surface -> tokens a credential's bucket holds]
  UnknownRate,    \* the same of the bucket of unknown tokens
  UnknownBurst,
  Unit,           \* Units in a token
  MaxClock,       \* bound: ticks
  MaxTries        \* bound: requests that reached a bucket

Surfaces == DOMAIN Credentials
Unknown == "unauthenticated"
Keys == UNION {{s} \X (Credentials[s] \cup {Unknown}) : s \in Surfaces}

ASSUME MachineGateAssumption ==
  /\ \A s \in Surfaces : Unknown \notin Credentials[s] /\ Rate[s] \in Nat /\ Burst[s] \in Nat \ {0}
  /\ UnknownRate \in Nat /\ UnknownBurst \in Nat \ {0} /\ Unit \in Nat \ {0}
  /\ MaxClock \in Nat /\ MaxTries \in Nat

VARIABLES
  clock,
  bucket,     \* [Keys -> the bucket, or None before its first request]
  tried,      \* [Keys -> the requests that asked this bucket, in order]
  answer      \* of the last request

gateVars == <<clock, bucket, tried, answer>>

None == [tokens |-> -1, last |-> -1]
rate(k) == IF k[2] = Unknown THEN UnknownRate ELSE Rate[k[1]]
burst(k) == (IF k[2] = Unknown THEN UnknownBurst ELSE Burst[k[1]]) * Unit

(* Mutant: the time of the last refill is kept from the first request. *)
RefilledFromTheStart(k) ==
  LET b == IF bucket[k] = None THEN [tokens |-> burst(k), last |-> clock] ELSE bucket[k]
      filled == b.tokens + (clock - b.last) * rate(k)
  IN [tokens |-> IF filled > burst(k) THEN burst(k) ELSE filled, last |-> b.last]

(* The bucket as Allow finds it: full at its first request, else refilled   *)
(* for the time since, up to the burst.                                     *)
Refilled(k) ==
  LET b == IF bucket[k] = None THEN [tokens |-> burst(k), last |-> clock] ELSE bucket[k]
      filled == b.tokens + (clock - b.last) * rate(k)
  IN IF clock > b.last
     THEN [tokens |-> IF filled > burst(k) THEN burst(k) ELSE filled, last |-> clock]
     ELSE b

Tries == {t \in Keys \X (1..MaxTries) : t[2] <= Len(tried[t[1]])}

Allow(k) ==
  LET b == Refilled(k)
      ok == b.tokens >= Unit
  IN /\ Cardinality(Tries) < MaxTries
     /\ bucket' = [bucket EXCEPT ![k] = IF ok THEN [b EXCEPT !.tokens = @ - Unit] ELSE b]
     /\ tried' = [tried EXCEPT ![k] = Append(@, [at |-> clock, ok |-> ok])]
     /\ answer' = IF ~ok THEN "too many requests"
                  ELSE IF k[2] = Unknown THEN "unauthorised"
                  ELSE "admitted"
     /\ UNCHANGED clock

(* A request that carries a browser session, or no bearer token, is refused *)
(* before any bucket is asked.                                              *)
Turned == answer' = "unauthorised" /\ UNCHANGED <<clock, bucket, tried>>

RequireAgent(c) == Allow(<<"agent", c>>)
RequireReader(c) == Allow(<<"reader", c>>)

Tick ==
  /\ clock < MaxClock
  /\ clock' = clock + 1
  /\ UNCHANGED <<bucket, tried, answer>>

GateInit ==
  /\ clock = 0
  /\ bucket = [k \in Keys |-> None]
  /\ tried = [k \in Keys |-> <<>>]
  /\ answer = "none"

GateNext ==
  \/ \E c \in Credentials["agent"] \cup {Unknown} : RequireAgent(c)
  \/ \E c \in Credentials["reader"] \cup {Unknown} : RequireReader(c)
  \/ Turned \/ Tick

GateSpec == GateInit /\ [][GateNext]_gateVars

----------------------------------------------------------------------------
(* Properties *)

(* Whether a request is let through depends on the requests of its own      *)
(* credential alone, and exactly so: it is, if and only if no span of time  *)
(* that ends with it would hold more admissions than the burst and what the *)
(* rate gives in that span (RateLimiter.Allow, whose bucket remembers a     *)
(* level and a time instead of the requests).                               *)
BudgetIsExact ==
  \A k \in Keys : \A i \in DOMAIN tried[k] :
    LET t == tried[k]
        admitted(j) == Cardinality({m \in j..(i - 1) : t[m].ok})
    IN t[i].ok <=> \A j \in 1..i :
         (admitted(j) + 1) * Unit <= burst(k) + (t[i].at - t[j].at) * rate(k)
=============================================================================
