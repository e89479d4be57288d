-------------------------- MODULE SubscriptionCache --------------------------
(***************************************************************************)
(* The in-memory snapshot of subscriptions behind the guard of mutations   *)
(* and of features (src/internal/billing: snapshotFor, Middleware,         *)
(* RequireFeature, HasFeature), and the operations that change the row and *)
(* then drop the snapshot.                                                 *)
(*                                                                         *)
(* A request takes the cached snapshot while it lives, or reads the row    *)
(* and stores what it read.  The contents of the row are its version and   *)
(* the feature overrides; snapshot 0 is that of a school without           *)
(* subscription or of a failed read, which locks the school.               *)
(***************************************************************************)
EXTENDS Naturals

CONSTANTS
    Subscribers,                       \* the schools
    Requests, Writers, Keys,           \* Keys: the features one may override
    NoKey,
    TTL,                               \* life of an entry (60 s)
    MaxVersion, MaxTime, MaxCacheFaults \* bounds on writes, time and failures

ASSUME CacheAssumption ==
    /\ NoKey \notin Keys
    /\ TTL \in Nat \ {0}
    /\ MaxVersion \in Nat \ {0} /\ MaxTime \in Nat /\ MaxCacheFaults \in Nat

Versions == 0 .. MaxVersion

VARIABLES
    clock,
    version, overrides,    \* the row of each school
    superseded,            \* history: when each version stopped being current
    entry, expiresAt,      \* the cache: version stored, end of its life (0: no entry)
    reqPc, reqSchool, snap, began,
    since,                 \* the version acknowledged when the request began
    writerPc, scope,       \* each operation that changes rows, and its schools
    readOverrides, key, value, \* SetFeatureOverrides: what it read, what it sets
    promised,              \* the version of the latest operation that returned
    late,                  \* history: entry stored after a write, or not dropped
    wanted, racedMerges,   \* history: the overrides asked for; concurrent merges
    cacheFaults

rowVars == <<version, overrides, superseded, wanted, racedMerges>>
cacheVars == <<entry, expiresAt, late>>
reqVars == <<reqPc, reqSchool, snap, began, since>>
writerVars == <<writerPc, scope, readOverrides, key, value>>
snapshotVars == <<clock, rowVars, cacheVars, reqVars, writerVars, promised, cacheFaults>>

CacheTypeOK ==
    /\ clock \in Nat
    /\ version \in [Subscribers -> Versions]
    /\ overrides \in [Subscribers -> SUBSET Keys]
    /\ superseded \in [Subscribers \X Versions -> Nat]
    /\ entry \in [Subscribers -> Versions]
    /\ expiresAt \in [Subscribers -> Nat]
    /\ reqPc \in [Requests -> {"idle", "missed", "read", "served"}]
    /\ reqSchool \in [Requests -> Subscribers]
    /\ snap \in [Requests -> Versions]
    /\ began \in [Requests -> Nat]
    /\ since \in [Requests -> Versions]
    /\ writerPc \in [Writers -> {"idle", "merging", "merged", "written"}]
    /\ scope \in [Writers -> SUBSET Subscribers]
    /\ readOverrides \in [Writers -> SUBSET Keys]
    /\ key \in [Writers -> Keys \cup {NoKey}]
    /\ \A w \in Writers : writerPc[w] = "merging" => key[w] \in Keys
    /\ value \in [Writers -> {"on", "off"}]
    /\ promised \in [Subscribers -> Versions]
    /\ late \in SUBSET Subscribers
    /\ wanted \in [Subscribers -> SUBSET Keys]
    /\ racedMerges \in SUBSET Subscribers
    /\ cacheFaults \in Nat

CacheInit ==
    /\ clock = 1
    /\ version = [s \in Subscribers |-> 1]
    /\ overrides = [s \in Subscribers |-> {}]
    /\ superseded = [sv \in Subscribers \X Versions |-> 0]
    /\ entry = [s \in Subscribers |-> 0]
    /\ expiresAt = [s \in Subscribers |-> 0]
    /\ reqPc = [r \in Requests |-> "idle"]
    /\ reqSchool \in [Requests -> Subscribers]
    /\ snap = [r \in Requests |-> 0]
    /\ began = [r \in Requests |-> 0]
    /\ since = [r \in Requests |-> 0]
    /\ writerPc = [w \in Writers |-> "idle"]
    /\ scope = [w \in Writers |-> {}]
    /\ readOverrides = [w \in Writers |-> {}]
    /\ key = [w \in Writers |-> NoKey]
    /\ value = [w \in Writers |-> "off"]
    /\ promised = [s \in Subscribers |-> 1]
    /\ late = {}
    /\ wanted = [s \in Subscribers |-> {}]
    /\ racedMerges = {}
    /\ cacheFaults = 0

-----------------------------------------------------------------------------
Live(s) == clock < expiresAt[s]

\* The lookup under the read lock, with the one reading of the clock.
Lookup(r, s) ==
    /\ reqPc[r] = "idle"
    /\ reqSchool' = [reqSchool EXCEPT ![r] = s]
    /\ began' = [began EXCEPT ![r] = clock]
    /\ since' = [since EXCEPT ![r] = promised[s]]
    /\ IF Live(s)
       THEN /\ reqPc' = [reqPc EXCEPT ![r] = "served"]
            /\ snap' = [snap EXCEPT ![r] = entry[s]]
       ELSE /\ reqPc' = [reqPc EXCEPT ![r] = "missed"]
            /\ UNCHANGED snap
    /\ UNCHANGED <<clock, rowVars, cacheVars, writerVars, promised, cacheFaults>>

\* The statement on the database, outside the lock; a failed one counts as "no
\* subscription".
ReadSubscription(r) ==
    /\ reqPc[r] = "missed"
    /\ reqPc' = [reqPc EXCEPT ![r] = "read"]
    /\ \/ /\ snap' = [snap EXCEPT ![r] = version[reqSchool[r]]]
          /\ UNCHANGED cacheFaults
       \/ /\ cacheFaults < MaxCacheFaults
          /\ cacheFaults' = cacheFaults + 1
          /\ snap' = [snap EXCEPT ![r] = 0]
    /\ UNCHANGED <<clock, rowVars, cacheVars, reqSchool, began, since, writerVars, promised>>

\* Mutant: the life of the entry is counted from the moment it is stored.
LifeFromStoring(r) == clock + TTL

\* The life of an entry is counted from the lookup.
Life(r) == began[r] + TTL

\* Under the write lock.
StoreEntry(r) ==
    LET s == reqSchool[r]
    IN  /\ reqPc[r] = "read"
        /\ reqPc' = [reqPc EXCEPT ![r] = "served"]
        /\ entry' = [entry EXCEPT ![s] = snap[r]]
        /\ expiresAt' = [expiresAt EXCEPT ![s] = Life(r)]
        /\ late' = IF snap[r] # version[s] THEN late \cup {s} ELSE late \ {s}
        /\ UNCHANGED <<clock, rowVars, reqSchool, snap, began, since,
                       writerVars, promised, cacheFaults>>

RequestEnds(r) ==
    /\ reqPc[r] = "served"
    /\ reqPc' = [reqPc EXCEPT ![r] = "idle"]
    /\ snap' = [snap EXCEPT ![r] = 0]
    /\ began' = [began EXCEPT ![r] = 0]
    /\ since' = [since EXCEPT ![r] = 0]
    /\ UNCHANGED <<clock, rowVars, cacheVars, reqSchool, writerVars, promised, cacheFaults>>

Tick ==
    /\ clock < MaxTime
    /\ clock' = clock + 1
    /\ UNCHANGED <<rowVars, cacheVars, reqVars, writerVars, promised, cacheFaults>>

-----------------------------------------------------------------------------
\* A statement of writer w changes the rows of the schools S.
WriteRows(w, S, pc) ==
    /\ \A s \in S : version[s] < MaxVersion
    /\ version' = [s \in Subscribers |-> IF s \in S THEN version[s] + 1 ELSE version[s]]
    /\ superseded' = [sv \in Subscribers \X Versions |->
                        IF \E s \in S : sv = <<s, version[s]>> THEN clock ELSE superseded[sv]]
    /\ writerPc' = [writerPc EXCEPT ![w] = pc]
    /\ scope' = [scope EXCEPT ![w] = S]
    /\ UNCHANGED <<clock, cacheVars, reqVars, promised, cacheFaults>>

\* ActivateSubscription and ExtendSubscriptionGoodwill write one row, TickOnce
\* any of them; none touches the overrides.
WriteSubscriptions(w, S) ==
    /\ writerPc[w] = "idle" /\ S # {}
    /\ WriteRows(w, S, "written")
    /\ UNCHANGED <<overrides, wanted, racedMerges, readOverrides, key, value>>

\* SetFeatureOverrides accepts the known keys only (k \in Keys) and reads the
\* overrides it will merge with.
ReadOverrides(w, s, k, on) ==
    /\ writerPc[w] = "idle"
    /\ writerPc' = [writerPc EXCEPT ![w] = "merging"]
    /\ scope' = [scope EXCEPT ![w] = {s}]
    /\ readOverrides' = [readOverrides EXCEPT ![w] = overrides[s]]
    /\ key' = [key EXCEPT ![w] = k]
    /\ value' = [value EXCEPT ![w] = on]
    /\ UNCHANGED <<clock, rowVars, cacheVars, reqVars, promised, cacheFaults>>

\* Mutant: the request replaces the overrides.
ReplaceOverrides(old, k, on) == IF on = "on" THEN {k} ELSE {}

Merge(old, k, on) == IF on = "on" THEN old \cup {k} ELSE old \ {k}

\* ... and writes the merged overrides back.
UpdateFeatureOverrides(w, s) ==
    /\ writerPc[w] = "merging"
    /\ scope[w] = {s}
    /\ WriteRows(w, {s}, "merged")
    /\ overrides' = [overrides EXCEPT ![s] = Merge(readOverrides[w], key[w], value[w])]
    /\ wanted' = [wanted EXCEPT ![s] = IF value[w] = "on" THEN @ \cup {key[w]}
                                       ELSE @ \ {key[w]}]
    /\ racedMerges' = IF overrides[s] # readOverrides[w] THEN racedMerges \cup {s} ELSE racedMerges
    /\ readOverrides' = [readOverrides EXCEPT ![w] = {}]
    /\ key' = [key EXCEPT ![w] = NoKey]
    /\ value' = [value EXCEPT ![w] = "off"]

WriterDone(w) ==
    /\ writerPc[w] \in {"merged", "written"}
    /\ writerPc' = [writerPc EXCEPT ![w] = "idle"]
    /\ scope' = [scope EXCEPT ![w] = {}]
    /\ UNCHANGED <<clock, rowVars, readOverrides, key, value, reqVars>>

\* Mutant: the operation forgets to drop the entry.
NoInvalidate(w, S) ==
    /\ WriterDone(w)
    /\ promised' = [s \in Subscribers |-> IF s \in scope[w] THEN version[s] ELSE promised[s]]
    /\ UNCHANGED <<cacheVars, cacheFaults>>

\* invalidateCache, or invalidateAllCache after TickOnce; the operation returns.
InvalidateCache(w, S) ==
    /\ S = scope[w] \/ (S = Subscribers /\ writerPc[w] = "written")
    /\ WriterDone(w)
    /\ entry' = [s \in Subscribers |-> IF s \in S THEN 0 ELSE entry[s]]
    /\ expiresAt' = [s \in Subscribers |-> IF s \in S THEN 0 ELSE expiresAt[s]]
    /\ late' = late \ S
    /\ promised' = [s \in Subscribers |-> IF s \in scope[w] THEN version[s] ELSE promised[s]]
    /\ UNCHANGED cacheFaults

\* ActivateSubscription fails after the upsert (SetInvoicePaid), TickOnce after
\* its first statement: the entries of the rows written stay.
WriterFails(w) ==
    /\ writerPc[w] = "written"
    /\ cacheFaults < MaxCacheFaults
    /\ cacheFaults' = cacheFaults + 1
    /\ WriterDone(w)
    /\ late' = late \cup scope[w]
    /\ UNCHANGED <<entry, expiresAt, promised>>

CacheNext ==
    \/ Tick
    \/ \E r \in Requests :
         \/ \E s \in Subscribers : Lookup(r, s)
         \/ ReadSubscription(r) \/ StoreEntry(r) \/ RequestEnds(r)
    \/ \E w \in Writers :
         \/ \E S \in SUBSET Subscribers : WriteSubscriptions(w, S) \/ InvalidateCache(w, S)
         \/ \E s \in Subscribers, k \in Keys, on \in {"on", "off"} : ReadOverrides(w, s, k, on)
         \/ \E s \in Subscribers : UpdateFeatureOverrides(w, s)
         \/ WriterFails(w)

CacheSpec == CacheInit /\ [][CacheNext]_snapshotVars

-----------------------------------------------------------------------------
\* What a request is served is at most one TTL old: it was the current snapshot
\* at some moment less than a TTL before the request began, however slowly the
\* entry was read and stored, and whichever writers failed to drop it.
BoundedStaleness ==
    \A r \in Requests :
        reqPc[r] = "served" /\ snap[r] \notin {0, version[reqSchool[r]]} =>
            superseded[<<reqSchool[r], snap[r]>>] + TTL > began[r]

\* A live entry that lags behind the row is explained: the writer is about to
\* drop it, a reader stored what it had read before the write, or the writer
\* failed halfway.
StaleIsExplained ==
    \A s \in Subscribers : Live(s) /\ entry[s] # version[s] =>
        \/ s \in late
        \/ \E w \in Writers : writerPc[w] \in {"merged", "written"} /\ s \in scope[w]

\* Unless two calls of SetFeatureOverrides overlapped, the overrides of a school
\* are what its calls asked for, key by key; no other operation disturbs them.
OverridesMergeUnlessRaced ==
    \A s \in Subscribers \ racedMerges : overrides[s] = wanted[s]

\* What the comment on SetFeatureOverrides says: the cache is dropped before the
\* function returns, so the next request surely gets the new version.  It does
\* not hold: see the first cause of StaleIsExplained.
NextRequestSeesUpdate ==
    \A r \in Requests : reqPc[r] = "served" /\ snap[r] # 0 => snap[r] >= since[r]
=============================================================================
