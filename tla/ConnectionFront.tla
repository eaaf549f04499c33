--------------------------- MODULE ConnectionFront ---------------------------
(***************************************************************************)
(* How a connection comes in and goes: the accept loop and its permits     *)
(* (listener.rs), the per-address connection cap and the window of failed  *)
(* log-ins (rate_limiter.rs), the HELLO of handler.rs, and the shutdown.   *)
(*                                                                         *)
(* A connection is a task.  Between the check that an address is blocked   *)
(* and the recording of its next failure the task waits for the            *)
(* authentication, and between reading the clock and recording the failure *)
(* for the lock of the store: tasks of one address interleave there, and   *)
(* failures may be recorded out of order.                                  *)
(***************************************************************************)
EXTENDS Integers, Sequences, FiniteSets, SequencesExt, FiniteSetsExt

CONSTANTS
  Conns,          \* connections a client may try
  Addresses,      \* peer addresses
  NoAddress,      \* peer_addr() failed
  MaxConnections, \* permits of the accept loop
  ConnCap,        \* conn_per_ip_cap; 0 admits everyone
  AuthCap,        \* failures in a window that block an address; 0 blocks nobody
  IpCap,          \* addresses the log-in store remembers; 0 is no bound
  AuthWindow,     \* length of the window in ticks
  MaxClockTick, MaxFailures  \* ticks and failures of the bounded instance

ASSUME FrontAssumption ==
  /\ {MaxConnections, ConnCap, AuthCap, IpCap} \subseteq Nat /\ AuthWindow \in Nat \ {0}
  /\ NoAddress \notin Addresses

VARIABLES
  conn,        \* Conns -> where the task is, its address, and the clock it has read
  counts,      \* ConnStore: address -> connections, for the addresses that have one
  entries,     \* AuthStore: addresses in use order, with their failure times
  listener,    \* "serving", "draining" or "stopped"
  shutdown,    \* the watch channel
  tick,
  failed       \* history: the failures of each address since its last success

frontVars == <<conn, counts, entries, listener, shutdown, tick, failed>>

Idle == [st |-> "idle", ip |-> NoAddress, guard |-> FALSE, at |-> 0]
InitFront ==
  /\ conn = [c \in Conns |-> Idle] /\ counts = <<>> /\ entries = <<>>
  /\ listener = "serving" /\ shutdown = FALSE /\ tick = 0
  /\ failed = [a \in Addresses |-> <<>>]

\* The tasks that hold a permit.
Tasks == { c \in Conns : conn[c].st # "idle" }

-----------------------------------------------------------------------------
(* The sliding window of failures, and the store of windows.               *)

\* An Instant after now is no time away.
InWindow(now, t) == now - t < AuthWindow

\* count_in_window: a filter.
CountInWindow(now, times) == Cardinality({ i \in DOMAIN times : InWindow(now, times[i]) })

\* expire: only the front is looked at, so a time behind a later one stays.
Expire(now, times) ==
  LET live == { i \in DOMAIN times : InWindow(now, times[i]) }
  IN IF live = {} THEN <<>> ELSE SubSeq(times, Min(live), Len(times))

EntryOf(a) == { i \in DOMAIN entries : entries[i].ip = a }

\* SlidingWindow::would_block
WouldBlock(times) == AuthCap > 0 /\ CountInWindow(tick, times) >= AuthCap

IsAuthBlocked(a) == \E i \in EntryOf(a) : WouldBlock(entries[i].times)

\* SlidingWindow::try_add: expired times go, a full window takes no more.
TryAdd(now, times) ==
  LET kept == Expire(now, times)
  IN IF AuthCap = 0 THEN times
     ELSE IF Len(kept) < AuthCap THEN Append(kept, now) ELSE kept

\* touch_or_insert, then try_add.  The least recently used address goes when
\* the store is full; the sequence is in use order.
RecordFailure(a, now) ==
  LET known == EntryOf(a) # {}
      mine == CHOOSE i \in EntryOf(a) : TRUE
      full == IpCap > 0 /\ Len(entries) >= IpCap
      times == IF known THEN entries[mine].times ELSE <<>>
      others == IF known THEN RemoveAt(entries, mine)
                ELSE IF full THEN RemoveAt(entries, 1) ELSE entries
  IN entries' = Append(others, [ip |-> a, times |-> TryAdd(now, times)])

\* record_auth_success: the window is emptied, its place in the order kept.
RecordSuccess(a) ==
  entries' = [i \in DOMAIN entries |->
                IF entries[i].ip = a THEN [entries[i] EXCEPT !.times = <<>>] ELSE entries[i]]

-----------------------------------------------------------------------------
(* The life of a connection.                                               *)

\* serve_with: a connection without a permit is dropped at once.
Accept(c) ==
  /\ listener = "serving" /\ ~shutdown
  /\ conn[c] = Idle /\ Cardinality(Tasks) < MaxConnections
  /\ conn' = [conn EXCEPT ![c] = [Idle EXCEPT !.st = "accepted"]]
  /\ UNCHANGED <<counts, entries, listener, shutdown, tick, failed>>

\* Mutant: the count is raised before the cap is looked at.
Admit_CountFirst(c, a) ==
  LET n == IF a \in DOMAIN counts THEN counts[a] ELSE 0
  IN /\ conn[c].st = "accepted" /\ a # NoAddress
     /\ counts' = [b \in DOMAIN counts \cup {a} |-> IF b = a THEN n + 1 ELSE counts[b]]
     /\ conn' = [conn EXCEPT ![c] = IF ConnCap > 0 /\ n >= ConnCap THEN Idle
                                    ELSE [@ EXCEPT !.st = "shaking", !.ip = a, !.guard = TRUE]]
     /\ UNCHANGED <<entries, listener, shutdown, tick, failed>>

\* try_acquire_connection: the cap is looked at and the count raised under
\* one lock.
TryAcquire(a) ==
  LET n == IF a \in DOMAIN counts THEN counts[a] ELSE 0
      ok == ConnCap = 0 \/ n < ConnCap
  IN [ok |-> ok,
      counts |-> IF ok THEN [b \in DOMAIN counts \cup {a} |-> IF b = a THEN n + 1 ELSE counts[b]]
                 ELSE counts]

\* peer_addr, then check_connection_cap.  An unknown address is let in without
\* a guard; a refused task ends and gives its permit back.
Admit(c, a) ==
  LET got == IF a = NoAddress THEN [ok |-> TRUE, counts |-> counts] ELSE TryAcquire(a)
  IN /\ conn[c].st = "accepted"
     /\ conn' = [conn EXCEPT ![c] = IF ~got.ok THEN Idle
                                    ELSE [@ EXCEPT !.st = "shaking", !.ip = a, !.guard = a # NoAddress]]
     /\ counts' = got.counts
     /\ UNCHANGED <<entries, listener, shutdown, tick, failed>>

\* ConnectionGuard::drop of the tasks that end.
Release(cs) ==
  LET held(a) == Cardinality({ c \in cs : conn[c].guard /\ conn[c].ip = a })
      left(a) == IF held(a) > counts[a] THEN 0 ELSE counts[a] - held(a)
  IN /\ conn' = [c \in Conns |-> IF c \in cs THEN Idle ELSE conn[c]]
     /\ counts' = [a \in { b \in DOMAIN counts : left(b) > 0 } |-> left(a)]

\* new_with_handshake succeeds.
Handshake(c) ==
  /\ conn[c].st = "shaking"
  /\ conn' = [conn EXCEPT ![c].st = "open"]
  /\ UNCHANGED <<counts, entries, listener, shutdown, tick, failed>>

\* A task ends: a failed handshake, GOODBYE, an i/o error, the idle timeout,
\* the shutdown signal, or a panic; guard and permit are dropped with it.
EndTask(c) ==
  /\ conn[c].st # "idle"
  /\ Release({c})
  /\ UNCHANGED <<entries, listener, shutdown, tick, failed>>

\* handle_hello: an address over its failures is refused; the others wait for
\* the authentication.
HelloCheck(c) ==
  /\ conn[c].st = "open" /\ conn[c].ip # NoAddress /\ ~IsAuthBlocked(conn[c].ip)
  /\ conn' = [conn EXCEPT ![c].st = "authenticating"]
  /\ UNCHANGED <<counts, entries, listener, shutdown, tick, failed>>

\* The authentication fails: record_auth_failure reads the clock, and waits for
\* the lock of the store.
HelloFails(c) ==
  /\ conn[c].st = "authenticating"
  /\ conn' = [conn EXCEPT ![c].st = "failing", ![c].at = tick]
  /\ UNCHANGED <<counts, entries, listener, shutdown, tick, failed>>

RecordFails(c) ==
  LET a == conn[c].ip
  IN /\ conn[c].st = "failing"
     /\ \A b \in Addresses : Len(failed[b]) + (IF b = a THEN 0 ELSE Len(failed[a])) < MaxFailures
     /\ RecordFailure(a, conn[c].at)
     /\ failed' = [failed EXCEPT ![a] = Append(@, conn[c].at)]
     /\ conn' = [conn EXCEPT ![c].st = "open", ![c].at = 0]
     /\ UNCHANGED <<counts, listener, shutdown, tick>>

HelloSucceeds(c) ==
  /\ conn[c].st = "authenticating"
  /\ RecordSuccess(conn[c].ip)
  /\ conn' = [conn EXCEPT ![c].st = "open"]
  /\ failed' = [failed EXCEPT ![conn[c].ip] = <<>>]
  /\ UNCHANGED <<counts, listener, shutdown, tick>>

-----------------------------------------------------------------------------
(* Time and shutdown.                                                      *)

Tick ==
  /\ tick < MaxClockTick
  /\ tick' = tick + 1
  /\ UNCHANGED <<conn, counts, entries, listener, shutdown, failed>>

SignalShutdown ==
  /\ ~shutdown
  /\ shutdown' = TRUE
  /\ UNCHANGED <<conn, counts, entries, listener, tick, failed>>

StopAccepting ==
  /\ listener = "serving" /\ shutdown
  /\ listener' = "draining"
  /\ UNCHANGED <<conn, counts, entries, shutdown, tick, failed>>

\* The drain ends when no task is left or its timeout fires; the tasks still
\* in the set are aborted with it.
Drain ==
  /\ listener = "draining"
  /\ listener' = "stopped"
  /\ Release(Tasks)
  /\ UNCHANGED <<entries, shutdown, tick, failed>>

NextFront ==
  \/ \E c \in Conns, a \in Addresses \cup {NoAddress} : Admit(c, a)
  \/ \E c \in Conns : \/ Accept(c) \/ Handshake(c) \/ EndTask(c)
                      \/ HelloCheck(c) \/ HelloFails(c) \/ RecordFails(c) \/ HelloSucceeds(c)
  \/ Tick \/ SignalShutdown \/ StopAccepting \/ Drain

\* The accept loop selects the shutdown branch first, and its drain has a timer.
FairFront == WF_frontVars(StopAccepting) /\ WF_frontVars(Drain)

SpecFront == InitFront /\ [][NextFront]_frontVars /\ FairFront

-----------------------------------------------------------------------------
\* Every address is counted once per connection that holds its guard, never
\* above the cap, and an address without connections leaves no entry behind:
\* however a connection ends, its place is given back.
CountsAreLive ==
  /\ \A a \in Addresses :
       LET live == Cardinality({ c \in Conns : conn[c].guard /\ conn[c].ip = a })
       IN /\ (a \in DOMAIN counts) = (live > 0)
          /\ live > 0 => counts[a] = live
          /\ ConnCap > 0 => live <= ConnCap
  /\ DOMAIN counts \subseteq Addresses

\* An address is refused only if, since its last successful log-in, it failed
\* AuthCap times within the window that ends now: the eviction of other
\* addresses, expired failures and failures recorded out of order never lock
\* anyone out.
NoFalseLockout ==
  \A a \in Addresses : IsAuthBlocked(a) => CountInWindow(tick, failed[a]) >= AuthCap

\* The store of failures keeps one window per address, no more addresses than
\* its cap, and no more times than a window counts.
StoreIsBounded ==
  /\ \A i, j \in DOMAIN entries : entries[i].ip = entries[j].ip => i = j
  /\ IpCap > 0 => Len(entries) <= IpCap
  /\ \A i \in DOMAIN entries : Len(entries[i].times) <= AuthCap

\* A shutdown ends the accept loop, whatever its connections do.
ShutdownCompletes == shutdown ~> listener = "stopped"

\* What is held against an address is what it did: its live connections, and
\* its failed log-ins within the window since its last success.
AddressesAreTreatedRight ==
  CountsAreLive /\ NoFalseLockout /\ StoreIsBounded

=============================================================================
