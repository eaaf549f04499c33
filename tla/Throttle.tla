------------------------------ MODULE Throttle ------------------------------
(***************************************************************************)
(* The token bucket of rate_limiter.rs and its two uses: the queries of a  *)
(* connection, refused when no token is left, and the bytes of its two     *)
(* directions (rate_limited_io.rs), slowed by sleeps.                      *)
(*                                                                         *)
(* A time step is the smallest delay a sleep can express.                  *)
(***************************************************************************)
EXTENDS Integers, Sequences, FiniteSetsExt

CONSTANTS
  Rate, Period,   \* tokens earned per period, in time steps
  Sizes,          \* bytes of one read or write
  MaxTime, MaxIo  \* time and transfers of the bounded instance

ASSUME ThrottleAssumption == {Rate, Period} \subseteq Nat \ {0} /\ Sizes \subseteq Nat \ {0}

Halves == {"read", "write"}  \* directions of the connection

Unset == -1  \* no time: last_refill before its first use, no sleep pending

VARIABLES
  now,
  queryBucket, byteBucket,
  half,         \* direction -> the transfer it is in
  grants,       \* history: the times of the queries let through
  passed,       \* history: bytes transferred
  asked,        \* history: bytes of the transfers begun
  charged,      \* history: bytes reserved in the bucket
  ios           \* history: transfers begun

throttleVars == <<now, queryBucket, byteBucket, half, grants, passed, asked, charged, ios>>

Resting == [size |-> 0, reserved |-> FALSE, wake |-> Unset]
NewBucket == [tokens |-> 2 * Rate, last |-> Unset]

InitThrottle ==
  /\ now = 0
  /\ queryBucket = NewBucket /\ byteBucket = NewBucket
  /\ half = [h \in Halves |-> Resting]
  /\ grants = <<>> /\ passed = 0 /\ asked = 0 /\ charged = 0 /\ ios = 0

-----------------------------------------------------------------------------
\* Mutant: the refill does not stop at the capacity.
Refill_NoCap(b) ==
  LET earned == ((now - b.last) * Rate) \div Period
  IN IF b.last = Unset THEN [b EXCEPT !.last = now]
     ELSE IF earned = 0 THEN b
     ELSE [tokens |-> b.tokens + earned, last |-> now]

\* TokenBucket::refill: the clock moves only when a token is earned, but then
\* to now, so the rest of the division is lost.
Refill(b) ==
  LET earned == ((now - b.last) * Rate) \div Period
  IN IF b.last = Unset THEN [b EXCEPT !.last = now]
     ELSE IF earned = 0 THEN b
     ELSE [tokens |-> Min({b.tokens + earned, 2 * Rate}), last |-> now]

\* TokenBucket::take: what is there, and the time the rest takes to come.
Take(b, n) ==
  LET full == Refill(b)
  IN IF full.tokens >= n THEN [bucket |-> [full EXCEPT !.tokens = @ - n], wait |-> 0]
     ELSE [bucket |-> [full EXCEPT !.tokens = 0],
           wait |-> ((n - full.tokens) * Period) \div Rate]

\* The query gate of handle_run: try_take(1).
RunQuery ==
  LET full == Refill(queryBucket)
  IN /\ Len(grants) < 2 * MaxIo
     /\ queryBucket' = IF full.tokens >= 1 THEN [full EXCEPT !.tokens = @ - 1] ELSE full
     /\ grants' = IF full.tokens >= 1 THEN Append(grants, now) ELSE grants
     /\ UNCHANGED <<now, byteBucket, half, passed, asked, charged, ios>>

\* A read or write of n bytes begins; the same buffer is polled until it is done.
BeginIo(h, n) ==
  /\ half[h] = Resting /\ ios < MaxIo
  /\ half' = [half EXCEPT ![h].size = n]
  /\ asked' = asked + n /\ ios' = ios + 1
  /\ UNCHANGED <<now, queryBucket, byteBucket, grants, passed, charged>>

\* poll_gate on a buffer that is not reserved yet.
Reserve(h) ==
  LET t == Take(byteBucket, half[h].size)
  IN /\ half[h].size > 0 /\ ~half[h].reserved
     /\ byteBucket' = t.bucket /\ charged' = charged + half[h].size
     /\ half' = [half EXCEPT ![h].reserved = TRUE,
                             ![h].wake = IF t.wait = 0 THEN Unset ELSE now + t.wait]
     /\ UNCHANGED <<now, queryBucket, grants, passed, asked, ios>>

\* poll_read or poll_write once the sleep is over and the stream is ready: k
\* bytes pass, which may be fewer than were charged.
Transfer(h, k) ==
  /\ half[h].reserved
  /\ half[h].wake = Unset \/ half[h].wake <= now
  /\ passed' = passed + k
  /\ half' = [half EXCEPT ![h] = Resting]
  /\ UNCHANGED <<now, queryBucket, byteBucket, grants, asked, charged, ios>>

Pass ==
  /\ now < MaxTime
  /\ now' = now + 1
  /\ UNCHANGED <<queryBucket, byteBucket, half, grants, passed, asked, charged, ios>>

\* The two uses share nothing but the clock.
NextQueries == RunQuery \/ Pass
NextBytes ==
  \/ Pass
  \/ \E h \in Halves : \/ \E n \in Sizes : BeginIo(h, n)
                       \/ Reserve(h)
                       \/ \E k \in 1..half[h].size : Transfer(h, k)

SpecThrottle == InitThrottle /\ [][NextQueries \/ NextBytes]_throttleVars

-----------------------------------------------------------------------------
\* Between any two queries that were let through there are no more than the
\* burst of two periods, what the time between them earns, and less than one
\* for the part of a token that was earned before the first.
QueriesWithinRate ==
  \A i, j \in DOMAIN grants :
    i <= j => (j - i + 1) * Period < (2 * Rate + 1) * Period + (grants[j] - grants[i]) * Rate

\* Each transfer is charged once, for all it asks, before its first byte.
Uncharged(f) == IF f.reserved THEN 0 ELSE f.size
ChargedOnce == charged + Uncharged(half["read"]) + Uncharged(half["write"]) = asked

\* The bytes that pass: the burst, the tokens earned, and once more what was
\* earned during the sleeps of each direction, because a sleep does not use up
\* the tokens that come in meanwhile; each division may round away what less
\* than a time step earns.
BytesAreBounded == passed * Period <= (2 * Rate) * Period + (3 * now + ios) * Rate

\* What a cap on bytes per second says: "the bucket meters total bytes
\* regardless of how they are chunked".  Refuted: see BytesAreBounded.
BytesWithinRate == passed * Period <= (2 * Rate) * Period + (now + ios) * Rate

\* The limits of a connection: queries within the rate, each transfer charged
\* once, and the bytes within what the sleeps allow.
RatesHold ==
  QueriesWithinRate /\ ChargedOnce /\ BytesAreBounded

=============================================================================
