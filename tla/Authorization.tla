---------------------------- MODULE Authorization ----------------------------
(***************************************************************************)
(* The billing gate's decision (pkg/acp/balance.go, pkg/acp/epoch.go): may *)
(* this payer be served?  Concurrent requests ask the EpochClock for the   *)
(* settlement epoch, look in the per-epoch cache of funded payers, read    *)
(* the balance from ShinzoHub and write it back to the cache.  The clock   *)
(* re-reads the hub's height when its interval has elapsed, concurrent     *)
(* refreshes being coalesced by a singleflight group.                      *)
(*                                                                         *)
(* Every lock release and every call to the hub ends an action.            *)
(***************************************************************************)
EXTENDS Integers, FiniteSets, Functions

CONSTANTS Request,      \* request handlers, each serving one query after another
          Payer,
          PayerOf,      \* whose queries a handler serves
          Balance,      \* the balances a payer can have
          MinBalance,   \* SHINZO_MIN_QUERY_BALANCE
          EpochLength,  \* SHINZO_EPOCH_LENGTH
          MaxHeight     \* bound: the hub's height

ASSUME HubAssumption ==
  /\ PayerOf \in [Request -> Payer]
  /\ Balance \subseteq Nat
  /\ MinBalance \in Nat
  /\ EpochLength \in Nat \ {0}
  /\ MaxHeight \in Nat

VARIABLES
  height,      \* the hub's latest block
  balance,     \* the hub's query balances
  epoch,       \* EpochClock.epoch
  haveEpoch,   \* EpochClock.haveEpoch
  fresh,       \* less than the interval has passed since lastFetch
  cache,       \* BalanceAuthorizer.cache
  cacheEpoch,  \* BalanceAuthorizer.cacheEpoch
  pc,          \* where each request is
  seen,        \* the height the request's refresh read
  repoch,      \* the epoch the request goes by
  rbal,        \* the balance the request read
  \* history
  fundedIn,    \* the latest hub epoch in which the payer was funded, or -1
  steady       \* has the payer been funded throughout the request?

hubVars == <<height, balance, fundedIn>>
clockVars == <<epoch, haveEpoch, fresh>>
cacheVars == <<cache, cacheEpoch>>
requestVars == <<pc, seen, repoch, rbal, steady>>
vars == <<hubVars, clockVars, cacheVars, requestVars>>

EpochAt(h) == h \div EpochLength
HubEpoch == EpochAt(height)

Funded(b) == b >= MinBalance

Where == {"idle", "join", "leading", "commit", "waiting", "cache", "read", "write",
          "allowed", "denied", "error"}

TypeOK ==
  /\ height \in Nat
  /\ balance \in [Payer -> Balance]
  /\ epoch \in Nat /\ haveEpoch \in BOOLEAN /\ fresh \in BOOLEAN
  /\ DOMAIN cache \subseteq Payer
  /\ \A p \in DOMAIN cache : cache[p] \in Nat
  /\ cacheEpoch \in Nat
  /\ pc \in [Request -> Where]
  /\ seen \in [Request -> Nat]
  /\ repoch \in [Request -> Nat]
  /\ rbal \in [Request -> Nat]
  /\ fundedIn \in [Payer -> Int]
  /\ steady \in [Request -> BOOLEAN]

Init ==
  /\ height = 0
  /\ balance \in [Payer -> Balance]
  /\ epoch = 0 /\ haveEpoch = FALSE /\ fresh = FALSE
  /\ cache = <<>> /\ cacheEpoch = 0
  /\ pc = [r \in Request |-> "idle"]
  /\ seen = [r \in Request |-> 0]
  /\ repoch = [r \in Request |-> 0]
  /\ rbal = [r \in Request |-> 0]
  /\ fundedIn = [p \in Payer |-> IF Funded(balance[p]) THEN 0 ELSE -1]
  /\ steady = [r \in Request |-> FALSE]

-----------------------------------------------------------------------------
(* The hub (external): balances fall when an epoch settles, and a payer    *)
(* may top up at any time.                                                 *)

\* What a change of the hub to height h and balances b means for the history.
Observed(h, b) ==
  /\ fundedIn' = [p \in Payer |-> IF Funded(b[p]) THEN EpochAt(h) ELSE fundedIn[p]]
  /\ steady' = [r \in Request |-> steady[r] /\ Funded(b[PayerOf[r]])]

\* The next block; the first block of an epoch settles the one before.
Block ==
  /\ height < MaxHeight
  /\ height' = height + 1
  /\ IF EpochAt(height + 1) = HubEpoch
       THEN balance' = balance
       ELSE balance' \in {b \in [Payer -> Balance] : \A p \in Payer : b[p] <= balance[p]}
  /\ Observed(height', balance')
  /\ UNCHANGED <<clockVars, cacheVars, pc, seen, repoch, rbal>>

TopUp(p) ==
  /\ \E b \in Balance : b > balance[p] /\ balance' = [balance EXCEPT ![p] = b]
  /\ height' = height
  /\ Observed(height, balance')
  /\ UNCHANGED <<clockVars, cacheVars, pc, seen, repoch, rbal>>

-----------------------------------------------------------------------------
(* EpochClock.                                                             *)

\* The clock's interval has elapsed.
Expire ==
  /\ fresh
  /\ fresh' = FALSE
  /\ UNCHANGED <<hubVars, epoch, haveEpoch, cacheVars, requestVars>>

Goto(r, where) == pc' = [pc EXCEPT ![r] = where]

\* Authorize begins, with the locked section of Epoch.
Ask(r) ==
  /\ pc[r] = "idle"
  /\ IF haveEpoch /\ fresh
       THEN repoch' = [repoch EXCEPT ![r] = epoch] /\ Goto(r, "cache")
       ELSE repoch' = repoch /\ Goto(r, "join")
  /\ steady' = [steady EXCEPT ![r] = Funded(balance[PayerOf[r]])]
  /\ UNCHANGED <<hubVars, clockVars, cacheVars, seen, rbal>>

\* The call of the group that is in flight.
Flight == {r \in Request : pc[r] \in {"leading", "commit"}}

\* Variant: every caller refreshes for itself.
JoinAlone(r) ==
  /\ pc[r] = "join"
  /\ Goto(r, "leading")
  /\ UNCHANGED <<hubVars, clockVars, cacheVars, seen, repoch, rbal, steady>>

\* group.Do: wait for the refresh in flight, or start one.
Join(r) ==
  /\ pc[r] = "join"
  /\ Goto(r, IF Flight = {} THEN "leading" ELSE "waiting")
  /\ UNCHANGED <<hubVars, clockVars, cacheVars, seen, repoch, rbal, steady>>

\* refresh: LatestBlockNumber answers.
ReadHeight(r) ==
  /\ pc[r] = "leading"
  /\ seen' = [seen EXCEPT ![r] = height]
  /\ Goto(r, "commit")
  /\ UNCHANGED <<hubVars, clockVars, cacheVars, repoch, rbal, steady>>

\* Variant: the waiting callers are not told that the refresh failed.
RefreshFailsAlone(r) ==
  /\ pc[r] = "leading"
  /\ Goto(r, "error")
  /\ UNCHANGED <<hubVars, clockVars, cacheVars, seen, repoch, rbal, steady>>

\* Everyone who shares the refresh's result: the leader and those who wait for it.
Sharing(r) == {r} \cup {q \in Request : pc[q] = "waiting"}

\* refresh commits the epoch under the clock's lock and the group hands out the result.
CommitEpoch(r) ==
  /\ pc[r] = "commit"
  /\ epoch' = EpochAt(seen[r])
  /\ haveEpoch' = TRUE
  /\ fresh' = TRUE
  /\ repoch' = [q \in Request |-> IF q \in Sharing(r) THEN epoch' ELSE repoch[q]]
  /\ pc' = [q \in Request |-> IF q \in Sharing(r) THEN "cache" ELSE pc[q]]
  /\ seen' = [seen EXCEPT ![r] = 0]
  /\ UNCHANGED <<hubVars, cacheVars, rbal, steady>>

\* The height read failed: the last known epoch serves, or there is none yet and every
\* caller that shares the refresh gets the error.
RefreshFails(r) ==
  /\ pc[r] = "leading"
  /\ IF haveEpoch
       THEN /\ repoch' = [q \in Request |-> IF q \in Sharing(r) THEN epoch ELSE repoch[q]]
            /\ pc' = [q \in Request |-> IF q \in Sharing(r) THEN "cache" ELSE pc[q]]
       ELSE /\ repoch' = repoch
            /\ pc' = [q \in Request |-> IF q \in Sharing(r) THEN "error" ELSE pc[q]]
  /\ UNCHANGED <<hubVars, clockVars, cacheVars, seen, rbal, steady>>

-----------------------------------------------------------------------------
(* BalanceAuthorizer.                                                      *)

\* cachedFunded: another epoch, earlier or later, empties the cache; a hit allows.
CheckCache(r) ==
  /\ pc[r] = "cache"
  /\ IF repoch[r] # cacheEpoch
       THEN cache' = <<>> /\ cacheEpoch' = repoch[r] /\ Goto(r, "read")
       ELSE /\ Goto(r, IF PayerOf[r] \in DOMAIN cache THEN "allowed" ELSE "read")
            /\ UNCHANGED cacheVars
  /\ UNCHANGED <<hubVars, clockVars, seen, repoch, rbal, steady>>

\* GetQueryBalance.
ReadBalance(r) ==
  /\ pc[r] = "read"
  /\ rbal' = [rbal EXCEPT ![r] = balance[PayerOf[r]]]
  /\ Goto(r, "write")
  /\ UNCHANGED <<hubVars, clockVars, cacheVars, seen, repoch, steady>>

ReadBalanceFails(r) ==
  /\ pc[r] = "read"
  /\ Goto(r, "error")
  /\ UNCHANGED <<hubVars, clockVars, cacheVars, seen, repoch, rbal, steady>>

Remember(p, b) ==
  cache' = [q \in DOMAIN cache \cup {p} |-> IF q = p THEN b ELSE cache[q]]

\* Variants: a balance is cached whatever epoch the cache has moved to; exactly the
\* minimum is not enough.
WriteBackAnyEpoch(r) ==
  /\ pc[r] = "write"
  /\ IF Funded(rbal[r]) THEN Remember(PayerOf[r], rbal[r]) ELSE cache' = cache
  /\ Goto(r, IF Funded(rbal[r]) THEN "allowed" ELSE "denied")
  /\ rbal' = [rbal EXCEPT ![r] = 0]
  /\ UNCHANGED <<hubVars, clockVars, cacheEpoch, seen, repoch, steady>>

WriteBackStrict(r) ==
  /\ pc[r] = "write"
  /\ Goto(r, IF rbal[r] > MinBalance THEN "allowed" ELSE "denied")
  /\ rbal' = [rbal EXCEPT ![r] = 0]
  /\ UNCHANGED <<hubVars, clockVars, cacheVars, seen, repoch, steady>>

\* The comparison, and the second locked section: a funded balance is cached if the
\* cache still is of the request's epoch.
WriteBack(r) ==
  /\ pc[r] = "write"
  /\ IF Funded(rbal[r]) /\ cacheEpoch = repoch[r]
       THEN Remember(PayerOf[r], rbal[r])
       ELSE cache' = cache
  /\ Goto(r, IF Funded(rbal[r]) THEN "allowed" ELSE "denied")
  /\ rbal' = [rbal EXCEPT ![r] = 0]
  /\ UNCHANGED <<hubVars, clockVars, cacheEpoch, seen, repoch, steady>>

\* The gate acts on the answer and the handler is free for another query.
Respond(r) ==
  /\ pc[r] \in {"allowed", "denied", "error"}
  /\ Goto(r, "idle")
  /\ repoch' = [repoch EXCEPT ![r] = 0]
  /\ steady' = [steady EXCEPT ![r] = FALSE]
  /\ UNCHANGED <<hubVars, clockVars, cacheVars, seen, rbal>>

Handle(r) ==
  \/ Join(r)
  \/ ReadHeight(r)
  \/ CommitEpoch(r)
  \/ RefreshFails(r)
  \/ CheckCache(r)
  \/ ReadBalance(r)
  \/ ReadBalanceFails(r)
  \/ WriteBack(r)
  \/ Respond(r)

Next ==
  \/ Block
  \/ \E p \in Payer : TopUp(p)
  \/ Expire
  \/ \E r \in Request : Ask(r) \/ Handle(r)

Spec == Init /\ [][Next]_vars

\* A request that has begun goes on: its calls to the hub return, with or without error.
FairSpec == Spec /\ \A r \in Request : WF_vars(Handle(r))

-----------------------------------------------------------------------------
(* Properties.                                                             *)

(***************************************************************************)
(* "Writing after the epoch advanced would serve a stale balance under the *)
(* new epoch": a payer is allowed only if it was funded at some time in    *)
(* the epoch the request goes by, or later, whatever refreshes, cache      *)
(* resets (forwards and backwards) and balance reads of other requests     *)
(* came between.                                                           *)
(***************************************************************************)
AllowSound ==
  \A r \in Request : pc[r] = "allowed" => fundedIn[PayerOf[r]] >= repoch[r]

(***************************************************************************)
(* "A below-minimum balance is not served from the cache, so a mid-epoch   *)
(* top-up is seen on the next query": a payer that is funded from the      *)
(* start of its request to the end is never denied.                        *)
(***************************************************************************)
DenySound ==
  \A r \in Request : pc[r] = "denied" => ~steady[r]

(***************************************************************************)
(* The epoch the clock reports never goes back while the hub's height does *)
(* not: a slow refresh cannot overwrite the result of a later one, and no  *)
(* refresh overtakes the hub.                                              *)
(***************************************************************************)
ClockMonotone == [][epoch' >= epoch]_vars

\* Every request is answered: no one waits for a refresh nobody runs.
Answered == \A r \in Request : pc[r] # "idle" ~> pc[r] = "idle"

\* The strengthening of AllowSound: the epoch never runs ahead of the hub, and what a
\* request carries or the cache holds was funded late enough.
ClockBehind ==
  /\ haveEpoch => epoch <= HubEpoch
  /\ \A r \in Request :
       /\ pc[r] = "commit" => seen[r] <= height /\ epoch <= EpochAt(seen[r])
       /\ repoch[r] <= HubEpoch
  /\ ~haveEpoch => epoch = 0
  /\ \A r, q \in Flight : r = q

FundedLate ==
  /\ \A p \in Payer : fundedIn[p] <= HubEpoch /\ (Funded(balance[p]) => fundedIn[p] = HubEpoch)
  /\ \A r \in Request :
       pc[r] = "write" /\ Funded(rbal[r]) => fundedIn[PayerOf[r]] >= repoch[r]
  /\ \A p \in DOMAIN cache : fundedIn[p] >= cacheEpoch

IInv == TypeOK /\ ClockBehind /\ FundedLate /\ AllowSound
=============================================================================
