---------------------------- MODULE ReplayCache ----------------------------
(***************************************************************************)
(* scep.ReplayCache under concurrent requests.                             *)
(*                                                                         *)
(* Check reads the clock BEFORE it takes the mutex, so a goroutine can sit  *)
(* between the two while others, with later clocks, evict and record. Each  *)
(* call is therefore two steps: ReadClock and Check. The clock is Go's      *)
(* monotonic clock: one for the process, never going back. A crash loses    *)
(* the table and the calls in flight.                                      *)
(***************************************************************************)
EXTENDS ReplayTable

CONSTANTS Callers,   \* request goroutines that may be inside Check at once
          MaxTime    \* bound on the clock

ASSUME MaxTimeAssumption == MaxTime \in Nat

VARIABLES clock,     \* the monotonic clock
          seen,      \* ReplayCache.seen
          pc,        \* where each caller is, and the answer it got
          key,       \* the pair each caller asks about
          now,       \* the instant each caller read
          window,    \* history: end of the TTL of the last acceptance, per key
          forgotten  \* history: keys that overflow cleared since accepted

vars == <<clock, seen, pc, key, now, window, forgotten>>

States == {"idle", "checking", "fresh", "replayed"}

Init ==
    /\ clock = 0
    /\ seen = EmptyTable
    /\ pc = [c \in Callers |-> "idle"]
    /\ key \in [Callers -> ReplayKeys]
    /\ now = [c \in Callers |-> 0]
    /\ window = [k \in ReplayKeys |-> 0]
    /\ forgotten = {}

\* A parsed message enters Check: the key is hashed and the clock read.
ReadClock(c) ==
    /\ pc[c] # "checking"
    /\ \E k \in ReplayKeys : key' = [key EXCEPT ![c] = k]
    /\ now' = [now EXCEPT ![c] = clock]
    /\ pc' = [pc EXCEPT ![c] = "checking"]
    /\ UNCHANGED <<clock, seen, window, forgotten>>

\* Under the mutex: the pair is recorded and unexpired, so it is refused.
Refuse(c) ==
    /\ pc[c] = "checking"
    /\ IsReplay(seen, key[c], now[c])
    /\ pc' = [pc EXCEPT ![c] = "replayed"]
    /\ UNCHANGED <<clock, seen, key, now, window, forgotten>>

\* Under the mutex: room is made, the pair is recorded, the caller goes on.
Accept(c) ==
    /\ pc[c] = "checking"
    /\ ~IsReplay(seen, key[c], now[c])
    /\ seen' = Record(seen, key[c], now[c])
    /\ pc' = [pc EXCEPT ![c] = "fresh"]
    /\ window' = [window EXCEPT ![key[c]] = now[c] + ReplayTTL]
    /\ forgotten' = (IF Overflows(seen, now[c]) THEN forgotten \cup DOMAIN seen
                                                ELSE forgotten) \ {key[c]}
    /\ UNCHANGED <<clock, key, now>>

Tick ==
    /\ clock < MaxTime
    /\ clock' = clock + 1
    /\ UNCHANGED <<seen, pc, key, now, window, forgotten>>

\* The process dies and comes back: NewReplayCache starts from an empty table.
Restart ==
    /\ seen' = EmptyTable
    /\ pc' = [c \in Callers |-> "idle"]
    /\ window' = [k \in ReplayKeys |-> 0]
    /\ forgotten' = {}
    /\ UNCHANGED <<clock, key, now>>

Next ==
    \/ \E c \in Callers : ReadClock(c) \/ Refuse(c) \/ Accept(c)
    \/ Tick
    \/ Restart

Spec == Init /\ [][Next]_vars

-----------------------------------------------------------------------------
(* The types of ReplayCache's fields and of the callers' locals, with the   *)
(* range the code gives an expiry: at most one TTL ahead of the clock.      *)
TypeOK ==
    /\ clock \in 0..MaxTime
    /\ DOMAIN seen \subseteq ReplayKeys
    /\ seen = [k \in DOMAIN seen |-> seen[k]]
    /\ \A k \in DOMAIN seen : seen[k] \in 1..(clock + ReplayTTL)
    /\ pc \in [Callers -> States]
    /\ key \in [Callers -> ReplayKeys]
    /\ now \in [Callers -> Nat]
    /\ \A c \in Callers : now[c] <= clock
    /\ window \in [ReplayKeys -> Nat]
    /\ forgotten \subseteq ReplayKeys

(* The table never outgrows ReplayMaxSize, whatever callers with older      *)
(* clocks do to it between an eviction and the write that follows.          *)
TableBounded == Entries(seen) <= ReplayMaxSize

(* A pair that was accepted is not accepted again before its TTL has passed *)
(* on the real clock - however stale the clock a second caller read, and    *)
(* whoever evicted in between - unless overflow cleared it (evictLocked) or *)
(* the process restarted.                                                  *)
NoEarlyRegrant ==
    [][\A c \in Callers :
          (pc[c] = "checking" /\ pc'[c] = "fresh")
            => \/ clock >= window[key[c]]
               \/ key[c] \in forgotten]_vars

(* Check refuses nothing but a pair some caller really had accepted, whose  *)
(* TTL had not passed when the refused caller read the clock: an eviction   *)
(* or a restart never makes an unanswered message unanswerable.             *)
RefusedOnlyIfAnswered ==
    [][\A c \in Callers :
          (pc[c] = "checking" /\ pc'[c] = "replayed")
            => now[c] < window[key[c]]]_vars

(* What docs/threat-model.md:412-417 says: a pair recorded on first sight is *)
(* refused thereafter, for its TTL and within one process's life.            *)
RefusedThereafter ==
    [][\A c \in Callers :
          (pc[c] = "checking" /\ pc'[c] = "fresh")
            => clock >= window[key[c]]]_vars

-----------------------------------------------------------------------------
(* What makes NoEarlyRegrant inductive: a live window is backed by the      *)
(* table entry that recorded it, unless overflow took the entry away.       *)
WindowBacked ==
    /\ \A k \in DOMAIN seen : seen[k] = window[k]
    /\ \A k \in ReplayKeys :
          clock < window[k] => k \in DOMAIN seen \/ k \in forgotten
=============================================================================
