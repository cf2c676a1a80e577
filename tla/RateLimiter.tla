----------------------------- MODULE RateLimiter -----------------------------
(***************************************************************************)
(* The rate limiters in front of DNS queries; a process runs one.          *)
(*   dns-server/app/services/rate_limiter.py                               *)
(*     "memory": InMemoryBackend, token buckets with LRU eviction          *)
(*     "valkey": ValKeyBackend, window counters several servers share      *)
(*                                                                         *)
(* Nothing awaits inside a check, so a check is one step; only the INCR    *)
(* and the EXPIRE of Valkey are separate commands, with commands of other  *)
(* servers or a crash between them. A bucket is refilled when it is used;  *)
(* refilling it at every tick gives the same tokens at every use. Counters *)
(* of different identities in Valkey are independent, so one is followed.  *)
(***************************************************************************)
EXTENDS Integers, Sequences

CONSTANTS
    Keys,          \* identities (tokens, SPIFFE ids, addresses)
    Burst, Rps,    \* bucket capacity, tokens per tick
    MaxKeys,       \* max_in_memory_keys
    Servers,       \* processes that share Valkey
    WindowSize,    \* ticks per window
    MaxRequests,   \* requests per window
    MaxTime,       \* bound: ticks
    MaxAsks        \* bound: requests to Valkey in one tick

ASSUME LimiterAssumption ==
    /\ {Burst, Rps, MaxRequests, MaxTime, MaxAsks} \subseteq Nat
    /\ {MaxKeys, WindowSize} \subseteq Nat \ {0}

Backends == {"memory", "valkey"}
Never    == -1
Windows  == 0..(MaxTime \div WindowSize)

VARIABLES
    backend,   \* which limiter runs
    now,       \* the clock
    asks,      \* bound: requests to Valkey in this tick
    order,     \* memory: OrderedDict keys, least recently used first
    tokens,    \* memory: tokens available
    debt,      \* history: requests passed and not yet paid for by refills,
               \* counted up to one more than Burst
    evicted,   \* history: identities whose bucket was evicted
    count,     \* valkey: the counter of each window, 0 when absent
    expires,   \* valkey: when a counter expires, Never without a TTL
    pending,   \* valkey: servers between INCR and EXPIRE, with their window
    leaked,    \* history: windows whose EXPIRE failed or never came
    passed     \* history: requests passed in each window, over all servers

memVars  == <<order, tokens, debt, evicted>>
kvVars   == <<count, expires, pending, leaked, passed>>
limVars  == <<backend, now, asks, memVars, kvVars>>

LimTypeOK ==
    /\ backend \in Backends /\ now \in 0..MaxTime /\ asks \in 0..MaxAsks
    /\ order \in Seq(Keys) /\ Len(order) <= MaxKeys
    /\ tokens \in [Keys -> 0..Burst] /\ debt \in [Keys -> 0..(Burst + 1)]
    /\ evicted \subseteq Keys
    /\ count \in [Windows -> Nat] /\ expires \in [Windows -> Never..(MaxTime + WindowSize + 1)]
    /\ pending \in [Servers -> Windows \cup {Never}] /\ leaked \subseteq Windows
    /\ passed \in [Windows -> Nat]

LimInit ==
    /\ backend \in Backends /\ now = 0 /\ asks = 0
    /\ order = <<>> /\ tokens = [k \in Keys |-> Burst] /\ debt = [k \in Keys |-> 0]
    /\ evicted = {}
    /\ count = [w \in Windows |-> 0] /\ expires = [w \in Windows |-> Never]
    /\ pending = [s \in Servers |-> Never] /\ leaked = {} /\ passed = [w \in Windows |-> 0]

-----------------------------------------------------------------------------
(* InMemoryBackend.check_and_consume *)

Capped(n, cap) == IF n > cap THEN cap ELSE n

Tracked == {order[i] : i \in DOMAIN order}
Place(k) == CHOOSE i \in DOMAIN order : order[i] = k
Others(k) == SubSeq(order, 1, Place(k) - 1) \o SubSeq(order, Place(k) + 1, Len(order))

\* The dictionary order after a request of k: a hit moves k to the end, a new
\* key first evicts the oldest when the dictionary is full.
Moved(k) == IF k \in Tracked THEN Append(Others(k), k)
            ELSE (IF Len(order) >= MaxKeys THEN Tail(order) ELSE order) \o <<k>>

\* Mutation: a request of a known identity creates its bucket anew.
AvailableFresh(k) == Burst

\* Tokens of k's bucket; a new bucket starts full.
Available(k) == IF k \in Tracked THEN tokens[k] ELSE Burst

CheckMemory(k) ==
    /\ backend = "memory"
    /\ order' = Moved(k)
    /\ evicted' = evicted \cup (Tracked \ {order'[i] : i \in DOMAIN order'})
    /\ IF Available(k) >= 1
       THEN /\ tokens' = [tokens EXCEPT ![k] = Available(k) - 1]
            /\ debt' = [debt EXCEPT ![k] = Capped(@ + 1, Burst + 1)]
       ELSE UNCHANGED <<tokens, debt>>
    /\ UNCHANGED <<backend, now, asks, kvVars>>

-----------------------------------------------------------------------------
(* ValKeyBackend.check_and_consume *)

Window == now \div WindowSize

\* INCR, which creates the counter at 1 without a TTL. The caller of the first
\* INCR goes on to EXPIRE, and its own request waits for it.
Incr(s) ==
    /\ backend = "valkey" /\ pending[s] = Never
    /\ asks < MaxAsks /\ asks' = asks + 1
    /\ count' = [count EXCEPT ![Window] = @ + 1]
    /\ IF count[Window] = 0 THEN pending' = [pending EXCEPT ![s] = Window] /\ UNCHANGED passed
       ELSE /\ UNCHANGED pending
            /\ passed' = [passed EXCEPT ![Window] =
                             @ + (IF count[Window] + 1 <= MaxRequests THEN 1 ELSE 0)]
    /\ UNCHANGED <<backend, now, memVars, expires, leaked>>

\* Mutation: the counter expires before its window ends.
TtlShort == WindowSize - 1

Ttl == WindowSize + 1

\* Mutation: the key of the current window is computed again for EXPIRE.
ExpireNextWindow(s) ==
    /\ pending[s] # Never
    /\ pending' = [pending EXCEPT ![s] = Never]
    /\ expires' = [expires EXCEPT ![Window] = now + Ttl]
    /\ passed' = [passed EXCEPT ![pending[s]] = @ + 1]
    /\ UNCHANGED <<backend, now, asks, memVars, count, leaked>>

\* EXPIRE, and the answer to the request that sent it. EXPIRE on a counter
\* that is gone does nothing.
Expire(s) ==
    /\ pending[s] # Never
    /\ pending' = [pending EXCEPT ![s] = Never]
    /\ expires' = [expires EXCEPT ![pending[s]] = IF count[pending[s]] > 0 THEN now + Ttl ELSE @]
    /\ passed' = [passed EXCEPT ![pending[s]] = @ + (IF 1 <= MaxRequests THEN 1 ELSE 0)]
    /\ UNCHANGED <<backend, now, asks, memVars, count, leaked>>

\* EXPIRE raises or the server dies: the request is denied, the counter stays.
ExpireFails(s) ==
    /\ pending[s] # Never
    /\ pending' = [pending EXCEPT ![s] = Never]
    /\ leaked' = leaked \cup {pending[s]}
    /\ UNCHANGED <<backend, now, asks, memVars, count, expires, passed>>

-----------------------------------------------------------------------------
Paid(n) == IF n > Rps THEN n - Rps ELSE 0
Gone(w) == expires[w] # Never /\ expires[w] <= now + 1

LimTick ==
    /\ now < MaxTime
    /\ now' = now + 1
    /\ asks' = 0
    /\ tokens' = [k \in Keys |-> Capped(tokens[k] + Rps, Burst)]
    /\ debt' = [k \in Keys |-> Paid(debt[k])]
    /\ count' = [w \in Windows |-> IF Gone(w) THEN 0 ELSE count[w]]
    /\ expires' = [w \in Windows |-> IF Gone(w) THEN Never ELSE expires[w]]
    /\ UNCHANGED <<backend, order, evicted, pending, leaked, passed>>

LimNext ==
    \/ \E k \in Keys : CheckMemory(k)
    \/ \E s \in Servers : Incr(s) \/ Expire(s) \/ ExpireFails(s)
    \/ LimTick

LimSpec == LimInit /\ [][LimNext]_limVars

-----------------------------------------------------------------------------
(* Properties. *)

\* An identity whose bucket was never evicted passes at most Burst requests
\* beyond what the refill rate paid for (TokenBucket.allow).
BurstIfKept == \A k \in Keys \ evicted : debt[k] <= Burst

\* Over all servers, a window passes at most MaxRequests requests, whatever
\* INCR, EXPIRE, failures and expiry do in between (ValKeyBackend).
WindowQuota == \A w \in Windows : passed[w] <= MaxRequests

\* A counter that is still stored after its window and its TTL had its EXPIRE
\* failed, or a server is about to send it: nothing else is left behind.
OnlyFailuresLeak ==
    \A w \in Windows : count[w] > 0 /\ expires[w] = Never
        => w \in leaked \/ \E s \in Servers : pending[s] = w
=============================================================================
