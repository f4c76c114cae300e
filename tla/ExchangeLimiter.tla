--------------------------- MODULE ExchangeLimiter ---------------------------
(***************************************************************************)
(* Admission to the device-token exchange (src/api.rs,                     *)
(* DeviceExchangeLimiter and the admission kept by                         *)
(* github_oauth_device_exchange): a sliding window per source address, a   *)
(* bounded table of sources, and a global number of concurrent exchanges.  *)
(*                                                                         *)
(* A request reads the clock before it waits for the mutex, so requests    *)
(* may enter the table in another order than their timestamps.             *)
(***************************************************************************)
EXTENDS Integers, FiniteSets, Sequences

CONSTANTS
  Sources,        \* peer addresses
  Tasks,          \* concurrent requests
  Limit,          \* DEVICE_EXCHANGE_RATE_LIMIT
  Window,         \* DEVICE_EXCHANGE_RATE_WINDOW
  MaxSources,     \* MAX_DEVICE_EXCHANGE_SOURCES
  MaxConcurrent,  \* DEVICE_EXCHANGE_MAX_CONCURRENT
  MaxStall,       \* the longest wait for the mutex
  MaxTime,        \* bound on the clock
  None

ASSUME ExchangeLimiterAssumption ==
  /\ {Limit, MaxSources, MaxConcurrent} \subseteq Nat \ {0}
  /\ {Window, MaxStall, MaxTime} \subseteq Nat
  /\ None \notin Sources

VARIABLES
  attempts,  \* attempts[s]: the instants kept for s; a source without any is not in the map
  permits,   \* permits left
  pc, src,   \* per task
  stamp,     \* per task: the instant it read
  pushes,    \* history: when the recent attempts of a source were counted
  now

vars == <<attempts, permits, pc, src, stamp, pushes, now>>

Present(m) == {s \in Sources : m[s] # << >>}

TypeOK ==
  /\ attempts \in [Sources -> Seq(Nat)]
  /\ permits \in 0 .. MaxConcurrent
  /\ pc \in [Tasks -> {"idle", "arrived", "admitted", "limited", "busy"}]
  /\ src \in [Tasks -> Sources \cup {None}]
  /\ stamp \in [Tasks -> Nat]
  /\ pushes \in [Sources -> Seq(Nat)]
  /\ permits + Cardinality({a \in Tasks : pc[a] = "admitted"}) = MaxConcurrent
  /\ now \in Nat

Init ==
  /\ attempts = [s \in Sources |-> << >>]
  /\ permits = MaxConcurrent
  /\ pc = [a \in Tasks |-> "idle"]
  /\ src = [a \in Tasks |-> None]
  /\ stamp = [a \in Tasks |-> 0]
  /\ pushes = [s \in Sources |-> << >>]
  /\ now = 0

-----------------------------------------------------------------------------
\* Mutant: only full tables are pruned.
MutantPopStale(q, cutoff) == q

\* while front <= cutoff { pop_front }: a stale entry behind a fresh one stays.
PopStale(q, cutoff) ==
  LET fresh == {i \in 1 .. Len(q) : q[i] > cutoff}
      first == CHOOSE i \in fresh : \A j \in fresh : i <= j
  IN  IF fresh = {} THEN << >> ELSE SubSeq(q, first, Len(q))

\* Mutant: the fallback of checked_sub, taken always.
MutantCutoff(a) == stamp[a]

Cutoff(a) == stamp[a] - Window

\* A request arrives and reads the clock.
Arrive(a, s) ==
  /\ pc[a] = "idle"
  /\ pc' = [pc EXCEPT ![a] = "arrived"]
  /\ src' = [src EXCEPT ![a] = s]
  /\ stamp' = [stamp EXCEPT ![a] = now]
  /\ UNCHANGED <<attempts, permits, pushes, now>>

\* Mutant: the limit on sources is off by one.
MutantTableFull(a) == Cardinality(Present(attempts)) > MaxSources /\ attempts[src[a]] = << >>

\* A new source meets a full table.
TableFull(a) == Cardinality(Present(attempts)) >= MaxSources /\ attempts[src[a]] = << >>

\* The table after the pruning that a new source triggers when it is full.
Pruned(a) ==
  IF TableFull(a)
  THEN [s \in Sources |-> PopStale(attempts[s], Cutoff(a))]
  ELSE attempts

\* The table is still full of sources with recent attempts: RateLimited, the same error
\* as for a source that has spent its own.
AdmitFull(a) ==
  /\ pc[a] = "arrived"
  /\ TableFull(a) /\ Cardinality(Present(Pruned(a))) >= MaxSources
  /\ attempts' = Pruned(a)
  /\ pc' = [pc EXCEPT ![a] = "limited"]
  /\ UNCHANGED <<permits, src, stamp, pushes, now>>

\* The source has spent its attempts, or the attempt is counted and a permit is
\* tried for: an attempt that finds the server busy counts as well.
Admit(a) ==
  LET s == src[a]
      entries == PopStale(Pruned(a)[s], Cutoff(a))
  IN
  /\ pc[a] = "arrived"
  /\ ~(TableFull(a) /\ Cardinality(Present(Pruned(a))) >= MaxSources)
  /\ \/ /\ Len(entries) >= Limit
        /\ attempts' = [Pruned(a) EXCEPT ![s] = entries]
        /\ pc' = [pc EXCEPT ![a] = "limited"]
        /\ UNCHANGED <<permits, pushes>>
     \/ /\ Len(entries) < Limit
        /\ attempts' = [Pruned(a) EXCEPT ![s] = Append(entries, stamp[a])]
        /\ pushes' = [pushes EXCEPT ![s] = Append(@, now)]
        /\ \/ permits > 0 /\ permits' = permits - 1 /\ pc' = [pc EXCEPT ![a] = "admitted"]
           \/ permits = 0 /\ UNCHANGED permits /\ pc' = [pc EXCEPT ![a] = "busy"]
  /\ UNCHANGED <<src, stamp, now>>

\* Mutant: the permit of an exchange that ends early is lost.
MutantLeave(a) ==
  /\ pc[a] \notin {"idle", "arrived"}
  /\ pc' = [pc EXCEPT ![a] = "idle"]
  /\ src' = [src EXCEPT ![a] = None]
  /\ UNCHANGED <<attempts, permits, stamp, pushes, now>>

\* The handler returns, or its future is dropped; _admission goes with it.
Leave(a) ==
  /\ pc[a] # "idle"
  /\ pc' = [pc EXCEPT ![a] = "idle"]
  /\ src' = [src EXCEPT ![a] = None]
  /\ stamp' = [stamp EXCEPT ![a] = 0]
  /\ permits' = IF pc[a] = "admitted" THEN permits + 1 ELSE permits
  /\ UNCHANGED <<attempts, pushes, now>>

\* The history, which grows in the order of time, is kept for as long as a property
\* may ask for it.
Recent(q) == PopStale(q, now - Window - MaxStall)

Tick ==
  /\ now < MaxTime
  /\ \A a \in Tasks : pc[a] = "arrived" => now < stamp[a] + MaxStall
  /\ now' = now + 1
  /\ pushes' = [s \in Sources |-> Recent(pushes[s])]
  /\ UNCHANGED <<attempts, permits, pc, src, stamp>>

Next ==
  \/ \E a \in Tasks :
       (\E s \in Sources : Arrive(a, s)) \/ AdmitFull(a) \/ Admit(a) \/ Leave(a)
  \/ Tick

Spec == Init /\ [][Next]_vars

-----------------------------------------------------------------------------
(* Properties.                                                             *)

\* The attempts of s counted during the last `span' ticks.
Counted(s, span) == Cardinality({i \in 1 .. Len(pushes[s]) : pushes[s][i] > now - span})

\* At most Limit attempts of a source are let through per window, less the time
\* a request may wait for the mutex with a timestamp already read.
RateHolds == \A s \in Sources : Counted(s, Window - MaxStall) <= Limit

\* A source is told to slow down (RateLimited) only if it made Limit attempts lately, or
\* if MaxSources other sources made one: stale entries, which nobody removes until the
\* table is full, and a queue out of order never cost anybody an exchange.  In the second
\* case the source may have made no attempt at all.
RefusalJustified ==
  [][\A a \in Tasks : pc[a] = "arrived" /\ pc'[a] = "limited" =>
       \/ Counted(src[a], Window + MaxStall) >= Limit
       \/ \E others \in SUBSET (Sources \ {src[a]}) :
            /\ IsFiniteSet(others) /\ Cardinality(others) >= MaxSources
            /\ \A s \in others : Counted(s, Window + MaxStall) > 0]_vars

\* The table of sources never outgrows its limit, and what it has for a source
\* is never more than its limit of attempts.
TableBounded ==
  /\ Cardinality(Present(attempts)) <= MaxSources
  /\ \A s \in Sources : Len(attempts[s]) <= Limit

-----------------------------------------------------------------------------
(* The inductive invariant behind the properties.                          *)

\* The queue q of a source against the history p of its attempts, at time t.  Both
\* are in the order in which the attempts were counted and end with the same one, so
\* equal distances from the end mean the same attempt: it was counted after its stamp
\* was read and at most MaxStall later.  What has left the queue was counted too long
\* ago for the rate, what has left the history too long ago for a refusal.
Aligned(q, p, t) ==
  /\ \A i \in 1 .. Len(p) : p[i] <= t
  /\ \A i, j \in 1 .. Len(p) : i <= j => p[i] <= p[j]
  /\ \A i \in 1 .. Len(q), j \in 1 .. Len(p) :
       Len(q) - i = Len(p) - j => q[i] <= p[j] /\ p[j] <= q[i] + MaxStall
  /\ \A j \in 1 .. Len(p) : j <= Len(p) - Len(q) => p[j] <= t - Window + MaxStall
  /\ \A i \in 1 .. Len(q) : i <= Len(q) - Len(p) => q[i] <= t - Window - MaxStall

\* A request that waits for the mutex read the clock not long ago.
StampInv ==
  \A a \in Tasks : pc[a] = "arrived" =>
    src[a] \in Sources /\ stamp[a] <= now /\ now <= stamp[a] + MaxStall

\* The sources and the admitted requests are finitely many.
FiniteInv == IsFiniteSet(Present(attempts)) /\ IsFiniteSet({a \in Tasks : pc[a] = "admitted"})

LimiterInv ==
  /\ TypeOK /\ FiniteInv /\ StampInv /\ TableBounded
  /\ \A s \in Sources : Aligned(attempts[s], pushes[s], now)
=============================================================================
