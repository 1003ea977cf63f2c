------------------------- MODULE AuthorizationProofs -------------------------
(***************************************************************************)
(* Theorems about module Authorization, for any number of requests and     *)
(* payers, any epoch length and any balances.                              *)
(***************************************************************************)
EXTENDS Authorization, TLAPS

\* Division by the epoch length is monotone: a higher block is in no earlier epoch.
LEMMA EpochAtMonotone ==
  ASSUME NEW a \in Nat, NEW b \in Nat, a <= b
  PROVE  EpochAt(a) \in Nat /\ EpochAt(a) <= EpochAt(b)
<1> DEFINE L == EpochLength
           x == a \div L
           y == b \div L
<1>1. L \in Nat /\ L > 0
  BY HubAssumption
<1>2. x \in Int /\ a % L \in 0..(L - 1) /\ a = L * x + (a % L)
  BY <1>1
<1>3. y \in Int /\ b % L \in 0..(L - 1) /\ b = L * y + (b % L)
  BY <1>1
<1> HIDE DEF L, x, y
<1>4. x >= 0
  <2> SUFFICES ASSUME x <= -1 PROVE FALSE
    BY <1>2
  <2>1. L * x <= L * (-1)
    BY <1>1, <1>2
  <2> QED
    BY <1>1, <1>2, <2>1
<1>5. x <= y
  <2> SUFFICES ASSUME y <= x - 1 PROVE FALSE
    BY <1>2, <1>3
  <2>1. L * y <= L * (x - 1) /\ L * (x - 1) = L * x - L
    BY <1>1, <1>2, <1>3
  <2> QED
    BY <1>1, <1>2, <1>3, <2>1
<1> QED
  BY <1>2, <1>4, <1>5 DEF EpochAt, L, x, y

LEMMA HubEpochType ==
  ASSUME height \in Nat
  PROVE  HubEpoch \in Nat
BY EpochAtMonotone DEF HubEpoch

-----------------------------------------------------------------------------
(* The variables keep their types.                                         *)

LEMMA TypeInit == Init => TypeOK
<1> SUFFICES ASSUME Init PROVE TypeOK
  OBVIOUS
<1>1. DOMAIN cache = {}
  BY DEF Init
<1>2. haveEpoch \in BOOLEAN /\ fresh \in BOOLEAN /\ steady \in [Request -> BOOLEAN]
  BY Zenon DEF Init
<1>3. fundedIn \in [Payer -> Int]
  BY DEF Init
<1> QED
  BY <1>1, <1>2, <1>3 DEF Init, TypeOK, Where

\* What the history records of a change of the hub.
LEMMA ObservedFacts ==
  ASSUME TypeOK, NEW h \in Nat, NEW b \in [Payer -> Balance], Observed(h, b)
  PROVE  /\ fundedIn' \in [Payer -> Int]
         /\ steady' \in [Request -> BOOLEAN]
         /\ \A p \in Payer : Funded(b[p]) => fundedIn'[p] = EpochAt(h)
         /\ \A p \in Payer : ~Funded(b[p]) => fundedIn'[p] = fundedIn[p]
<1>1. EpochAt(h) \in Nat
  BY EpochAtMonotone
<1>2. steady' \in [Request -> BOOLEAN]
  BY DEF Observed
<1> QED
  BY <1>1, <1>2 DEF Observed, TypeOK

LEMMA TypeStep == TypeOK /\ [Next]_vars => TypeOK'
<1> SUFFICES ASSUME TypeOK, [Next]_vars PROVE TypeOK'
  OBVIOUS
<1> USE DEF hubVars, clockVars, cacheVars, requestVars
<1>0. ASSUME NEW r \in Request, NEW where \in Where, Goto(r, where)
      PROVE  pc' \in [Request -> Where]
  BY <1>0 DEF Goto, TypeOK
<1>1. CASE Block
  <2>1. height' \in Nat /\ balance' \in [Payer -> Balance] /\ Observed(height', balance')
    BY <1>1 DEF Block, TypeOK
  <2>2. fundedIn' \in [Payer -> Int] /\ steady' \in [Request -> BOOLEAN]
    BY <2>1, ObservedFacts
  <2> QED
    BY <1>1, <2>1, <2>2 DEF Block, TypeOK
<1>2. ASSUME NEW p \in Payer, TopUp(p) PROVE TypeOK'
  <2>1. height' = height /\ balance' \in [Payer -> Balance] /\ Observed(height, balance')
    BY <1>2 DEF TopUp, TypeOK
  <2>2. fundedIn' \in [Payer -> Int] /\ steady' \in [Request -> BOOLEAN]
    BY <2>1, ObservedFacts DEF TypeOK
  <2> QED
    BY <1>2, <2>1, <2>2 DEF TopUp, TypeOK
<1>3. CASE Expire
  BY <1>3 DEF Expire, TypeOK
<1>4. ASSUME NEW r \in Request, Ask(r) PROVE TypeOK'
  <2>1. pc' \in [Request -> Where]
    BY <1>4, <1>0 DEF Ask, Where
  <2>2. steady' \in [Request -> BOOLEAN]
    BY <1>4 DEF Ask, TypeOK, Funded
  <2> QED
    BY <1>4, <2>1, <2>2 DEF Ask, TypeOK
<1>5. ASSUME NEW r \in Request, Join(r) PROVE TypeOK'
  BY <1>5, <1>0 DEF Join, TypeOK, Where
<1>6. ASSUME NEW r \in Request, ReadHeight(r) PROVE TypeOK'
  BY <1>6, <1>0 DEF ReadHeight, TypeOK, Where
<1>7. ASSUME NEW r \in Request, CommitEpoch(r) PROVE TypeOK'
  <2>1. epoch' \in Nat
    BY <1>7, EpochAtMonotone DEF CommitEpoch, TypeOK
  <2>2. haveEpoch' \in BOOLEAN /\ fresh' \in BOOLEAN
    BY <1>7, Zenon DEF CommitEpoch
  <2> QED
    BY <1>7, <2>1, <2>2 DEF CommitEpoch, TypeOK, Where
<1>8. ASSUME NEW r \in Request, RefreshFails(r) PROVE TypeOK'
  BY <1>8 DEF RefreshFails, TypeOK, Where
<1>9. ASSUME NEW r \in Request, CheckCache(r) PROVE TypeOK'
  <2>1. pc' \in [Request -> Where]
    BY <1>9, <1>0 DEF CheckCache, Where
  <2>2. CASE repoch[r] # cacheEpoch
    BY <1>9, <2>1, <2>2 DEF CheckCache, TypeOK
  <2>3. CASE repoch[r] = cacheEpoch
    BY <1>9, <2>1, <2>3 DEF CheckCache, TypeOK
  <2> QED
    BY <2>2, <2>3
<1>10. ASSUME NEW r \in Request, ReadBalance(r) PROVE TypeOK'
  <2>1. balance[PayerOf[r]] \in Nat
    BY HubAssumption DEF TypeOK
  <2> QED
    BY <1>10, <1>0, <2>1 DEF ReadBalance, TypeOK, Where
<1>11. ASSUME NEW r \in Request, ReadBalanceFails(r) PROVE TypeOK'
  BY <1>11, <1>0 DEF ReadBalanceFails, TypeOK, Where
<1>12. ASSUME NEW r \in Request, WriteBack(r) PROVE TypeOK'
  <2>1. pc' \in [Request -> Where]
    BY <1>12, <1>0 DEF WriteBack, Where
  <2>2. DOMAIN cache' \subseteq Payer /\ \A p \in DOMAIN cache' : cache'[p] \in Nat
    <3>1. PayerOf[r] \in Payer /\ rbal[r] \in Nat
      BY HubAssumption DEF TypeOK
    <3>2. CASE Remember(PayerOf[r], rbal[r])
      <4>1. DOMAIN cache' = DOMAIN cache \cup {PayerOf[r]}
        BY <3>2 DEF Remember
      <4>2. \A p \in DOMAIN cache' : cache'[p] = rbal[r] \/ (p \in DOMAIN cache /\ cache'[p] = cache[p])
        BY <3>2 DEF Remember
      <4> QED
        BY <3>1, <4>1, <4>2 DEF TypeOK
    <3>3. CASE cache' = cache
      BY <3>3 DEF TypeOK
    <3> QED
      BY <1>12, <3>2, <3>3 DEF WriteBack
  <2> QED
    BY <1>12, <2>1, <2>2 DEF WriteBack, TypeOK
<1>13. ASSUME NEW r \in Request, Respond(r) PROVE TypeOK'
  <2>1. steady' \in [Request -> BOOLEAN]
    BY <1>13 DEF Respond, TypeOK
  <2> QED
    BY <1>13, <1>0, <2>1 DEF Respond, TypeOK, Where
<1>14. CASE UNCHANGED vars
  BY <1>14 DEF vars, TypeOK
<1> QED
  BY <1>1, <1>2, <1>3, <1>4, <1>5, <1>6, <1>7, <1>8, <1>9, <1>10, <1>11, <1>12, <1>13, <1>14
     DEF Next, Handle

\* Every variable of the hub, the clock, the cache and the requests keeps its type.
THEOREM TypeCorrect == Spec => []TypeOK
<1> QED
  BY TypeInit, TypeStep, PTL DEF Spec

-----------------------------------------------------------------------------
(* The clock stays behind the hub and only one refresh is in flight.       *)

LEMMA ClockInit == Init => ClockBehind
<1> SUFFICES ASSUME Init PROVE ClockBehind
  OBVIOUS
<1>1. HubEpoch \in Nat
  BY HubEpochType DEF Init
<1> QED
  BY <1>1 DEF Init, ClockBehind, Flight

LEMMA ClockStep == TypeOK /\ ClockBehind /\ [Next]_vars => ClockBehind'
<1> SUFFICES ASSUME TypeOK, ClockBehind, [Next]_vars PROVE ClockBehind'
  OBVIOUS
<1> USE DEF hubVars, clockVars, cacheVars, requestVars
<1>0. HubEpoch \in Nat /\ height \in Nat /\ epoch \in Nat
  BY HubEpochType DEF TypeOK
<1>h. ASSUME height' \in Nat, height <= height', UNCHANGED <<clockVars, pc, seen, repoch>>
      PROVE  ClockBehind'
  <2>1. HubEpoch <= HubEpoch' /\ HubEpoch' \in Nat
    BY <1>0, <1>h, EpochAtMonotone DEF HubEpoch
  <2>2. Flight' = Flight
    BY <1>h DEF Flight
  <2>3. \A r \in Request : seen[r] \in Nat /\ repoch[r] \in Nat
    BY DEF TypeOK
  <2> QED
    BY <1>0, <1>h, <2>1, <2>2, <2>3 DEF ClockBehind
<1>u. ASSUME UNCHANGED <<height, clockVars, seen, repoch>>,
             \A q \in Request : pc'[q] \in {"leading", "commit"} => pc'[q] = pc[q]
      PROVE  ClockBehind'
  BY <1>u DEF ClockBehind, Flight, HubEpoch
<1>1. CASE Block
  BY <1>0, <1>1, <1>h DEF Block
<1>2. ASSUME NEW p \in Payer, TopUp(p) PROVE ClockBehind'
  BY <1>0, <1>2, <1>h DEF TopUp
<1>3. CASE Expire
  BY <1>3 DEF Expire, ClockBehind, Flight, HubEpoch
<1>4. ASSUME NEW r \in Request, Ask(r) PROVE ClockBehind'
  BY <1>4 DEF Ask, Goto, ClockBehind, Flight, HubEpoch, TypeOK
<1>5. ASSUME NEW r \in Request, Join(r) PROVE ClockBehind'
  BY <1>5 DEF Join, Goto, ClockBehind, Flight, HubEpoch, TypeOK
<1>6. ASSUME NEW r \in Request, ReadHeight(r) PROVE ClockBehind'
  <2>1. epoch <= EpochAt(height)
    BY <1>0 DEF ClockBehind, HubEpoch
  <2> QED
    BY <1>0, <1>6, <2>1 DEF ReadHeight, Goto, ClockBehind, Flight, HubEpoch, TypeOK
<1>7. ASSUME NEW r \in Request, CommitEpoch(r) PROVE ClockBehind'
  <2>1. seen[r] \in Nat /\ seen[r] <= height
    BY <1>7 DEF CommitEpoch, ClockBehind, TypeOK
  <2>2. EpochAt(seen[r]) \in Nat /\ EpochAt(seen[r]) <= HubEpoch
    BY <1>0, <2>1, EpochAtMonotone DEF HubEpoch
  <2>3. Flight = {r}
    BY <1>7 DEF CommitEpoch, ClockBehind, Flight
  <2>4. Flight' = {}
    BY <1>7, <2>3 DEF CommitEpoch, Flight, Sharing
  <2>5. /\ epoch' = EpochAt(seen[r]) /\ haveEpoch' /\ height' = height
        /\ \A q \in Request : repoch'[q] \in {repoch[q], epoch'}
    BY <1>7 DEF CommitEpoch
  <2>6. \A q \in Request : pc'[q] # "commit"
    BY <2>4 DEF Flight
  <2> QED
    BY <2>2, <2>4, <2>5, <2>6 DEF ClockBehind, HubEpoch
<1>8. ASSUME NEW r \in Request, RefreshFails(r) PROVE ClockBehind'
  <2>1. /\ UNCHANGED <<height, clockVars, seen>>
        /\ \A q \in Request : pc'[q] \in {"leading", "commit"} => pc'[q] = pc[q]
        /\ \A q \in Request : repoch'[q] = repoch[q] \/ (haveEpoch /\ repoch'[q] = epoch)
    BY <1>8 DEF RefreshFails, TypeOK
  <2> QED
    BY <2>1 DEF ClockBehind, Flight, HubEpoch
<1>9. ASSUME NEW r \in Request, CheckCache(r) PROVE ClockBehind'
  BY <1>9, <1>u DEF CheckCache, Goto, TypeOK
<1>10. ASSUME NEW r \in Request, ReadBalance(r) PROVE ClockBehind'
  BY <1>10, <1>u DEF ReadBalance, Goto, TypeOK
<1>11. ASSUME NEW r \in Request, ReadBalanceFails(r) PROVE ClockBehind'
  BY <1>11, <1>u DEF ReadBalanceFails, Goto, TypeOK
<1>12. ASSUME NEW r \in Request, WriteBack(r) PROVE ClockBehind'
  BY <1>12, <1>u DEF WriteBack, Goto, TypeOK
<1>13. ASSUME NEW r \in Request, Respond(r) PROVE ClockBehind'
  BY <1>0, <1>13 DEF Respond, Goto, TypeOK, ClockBehind, Flight, HubEpoch
<1>14. CASE UNCHANGED vars
  BY <1>14, <1>u DEF vars
<1> QED
  BY <1>1, <1>2, <1>3, <1>4, <1>5, <1>6, <1>7, <1>8, <1>9, <1>10, <1>11, <1>12, <1>13, <1>14
     DEF Next, Handle

\* The clock's epoch never goes back: with one refresh in flight at a time, the height a
\* refresh commits was read after the height of the commit before it.
THEOREM ClockMonotoneCorrect == Spec => ClockMonotone
<1>1. TypeOK /\ ClockBehind /\ [Next]_vars => [epoch' >= epoch]_vars
  <2> SUFFICES ASSUME TypeOK, ClockBehind, [Next]_vars, ~(UNCHANGED vars)
               PROVE  epoch' >= epoch
    OBVIOUS
  <2> USE DEF hubVars, clockVars, cacheVars, requestVars
  <2>1. ASSUME NEW r \in Request, CommitEpoch(r) PROVE epoch' >= epoch
    <3>1. epoch' = EpochAt(seen[r]) /\ epoch <= EpochAt(seen[r]) /\ seen[r] \in Nat
      BY <2>1 DEF CommitEpoch, ClockBehind, TypeOK
    <3>2. EpochAt(seen[r]) \in Nat /\ epoch \in Nat
      BY <3>1, EpochAtMonotone DEF TypeOK
    <3> QED
      BY <3>1, <3>2
  <2>2. ASSUME epoch' = epoch PROVE epoch' >= epoch
    BY <2>2 DEF TypeOK
  <2>3. CASE Block \/ Expire \/ \E p \in Payer : TopUp(p)
    BY <2>2, <2>3 DEF Block, Expire, TopUp
  <2>4. ASSUME NEW r \in Request, Ask(r) \/ Join(r) \/ ReadHeight(r) \/ RefreshFails(r)
                 \/ CheckCache(r) \/ ReadBalance(r) \/ ReadBalanceFails(r)
                 \/ WriteBack(r) \/ Respond(r)
        PROVE  epoch' >= epoch
    BY <2>2, <2>4 DEF Ask, Join, ReadHeight, RefreshFails, CheckCache, ReadBalance,
                      ReadBalanceFails, WriteBack, Respond
  <2> QED
    BY <2>1, <2>3, <2>4 DEF Next, Handle
<1>2. TypeOK /\ ClockBehind /\ [Next]_vars => (TypeOK /\ ClockBehind)'
  BY TypeStep, ClockStep
<1>3. Init => TypeOK /\ ClockBehind
  BY TypeInit, ClockInit
<1> QED
  BY <1>1, <1>2, <1>3, PTL DEF Spec, ClockMonotone

-----------------------------------------------------------------------------
(* Whoever is allowed was funded late enough.                              *)

FundedInv == FundedLate /\ AllowSound

LEMMA FundedInit == Init => FundedInv
<1> SUFFICES ASSUME Init PROVE FundedInv
  OBVIOUS
<1>1. HubEpoch = 0
  <2>1. EpochLength \in Nat \ {0} /\ height = 0
    BY HubAssumption DEF Init
  <2>2. 0 \div EpochLength = 0
    BY <2>1
  <2> QED
    BY <2>1, <2>2 DEF HubEpoch, EpochAt
<1>2. DOMAIN cache = {} /\ \A r \in Request : pc[r] = "idle"
  BY DEF Init
<1> QED
  BY <1>1, <1>2 DEF Init, FundedInv, FundedLate, AllowSound

LEMMA FundedStep ==
  TypeOK /\ ClockBehind /\ FundedInv /\ [Next]_vars => FundedInv'
<1> SUFFICES ASSUME TypeOK, ClockBehind, FundedInv, [Next]_vars PROVE FundedInv'
  OBVIOUS
<1> USE DEF hubVars, clockVars, cacheVars, requestVars
<1>0. /\ HubEpoch \in Nat /\ height \in Nat /\ cacheEpoch \in Nat
      /\ \A r \in Request : PayerOf[r] \in Payer /\ repoch[r] \in Nat
      /\ \A p \in Payer : fundedIn[p] \in Int
  BY HubEpochType, HubAssumption DEF TypeOK
<1>f. /\ \A p \in Payer : fundedIn[p] <= HubEpoch /\ (Funded(balance[p]) => fundedIn[p] = HubEpoch)
      /\ \A r \in Request :
           pc[r] = "write" /\ Funded(rbal[r]) => fundedIn[PayerOf[r]] >= repoch[r]
      /\ \A p \in DOMAIN cache : fundedIn[p] >= cacheEpoch
      /\ \A r \in Request : pc[r] = "allowed" => fundedIn[PayerOf[r]] >= repoch[r]
  BY DEF FundedInv, FundedLate, AllowSound
<1>h. ASSUME NEW h \in Nat, height <= h, height' = h,
             balance' \in [Payer -> Balance], Observed(h, balance'),
             UNCHANGED <<cacheVars, pc, repoch, rbal>>
      PROVE  FundedInv'
  <2>1. HubEpoch <= EpochAt(h) /\ EpochAt(h) \in Nat /\ HubEpoch' = EpochAt(h)
    BY <1>0, <1>h, EpochAtMonotone DEF HubEpoch
  <2>2. ASSUME NEW p \in Payer
        PROVE  /\ Funded(balance'[p]) => fundedIn'[p] = EpochAt(h)
               /\ fundedIn'[p] >= fundedIn[p] /\ fundedIn'[p] <= EpochAt(h)
               /\ fundedIn'[p] \in Int
    <3>1. fundedIn'[p] = IF Funded(balance'[p]) THEN EpochAt(h) ELSE fundedIn[p]
      BY <1>h DEF Observed
    <3>2. fundedIn[p] \in Int
      BY <1>0
    <3>3. fundedIn[p] <= HubEpoch
      BY <1>f
    <3> QED
      BY <1>0, <2>1, <3>1, <3>2, <3>3
  <2>3. \A p \in DOMAIN cache : fundedIn'[p] >= cacheEpoch
    BY <1>0, <1>f, <2>2 DEF TypeOK
  <2>4. \A r \in Request : fundedIn[PayerOf[r]] >= repoch[r] => fundedIn'[PayerOf[r]] >= repoch[r]
    BY <1>0, <2>2
  <2>5. cache' = cache /\ cacheEpoch' = cacheEpoch /\ pc' = pc /\ repoch' = repoch /\ rbal' = rbal
    BY <1>h
  <2> QED
    BY <1>f, <2>1, <2>2, <2>3, <2>4, <2>5 DEF FundedInv, FundedLate, AllowSound
<1>u. ASSUME UNCHANGED <<height, balance, fundedIn, cacheVars>>,
             \A q \in Request : pc'[q] \in {"write", "allowed"} =>
               pc'[q] = pc[q] /\ repoch'[q] = repoch[q] /\ rbal'[q] = rbal[q]
      PROVE  FundedInv'
  BY <1>f, <1>u DEF FundedInv, FundedLate, AllowSound, HubEpoch
<1>1. CASE Block
  <2>1. height + 1 \in Nat /\ height' = height + 1 /\ height <= height + 1
    BY <1>0, <1>1 DEF Block
  <2>2. balance' \in [Payer -> Balance] /\ Observed(height + 1, balance')
    BY <1>1 DEF Block, TypeOK
  <2> QED
    BY <1>1, <2>1, <2>2, <1>h DEF Block
<1>2. ASSUME NEW p \in Payer, TopUp(p) PROVE FundedInv'
  <2>1. balance' \in [Payer -> Balance] /\ height <= height
    BY <1>0, <1>2 DEF TopUp, TypeOK
  <2> QED
    BY <1>0, <1>2, <2>1, <1>h DEF TopUp
<1>3. CASE Expire
  BY <1>3, <1>u DEF Expire
<1>4. ASSUME NEW r \in Request, Ask(r) PROVE FundedInv'
  BY <1>4, <1>u DEF Ask, Goto, TypeOK
<1>5. ASSUME NEW r \in Request, Join(r) PROVE FundedInv'
  BY <1>5, <1>u DEF Join, Goto, TypeOK
<1>6. ASSUME NEW r \in Request, ReadHeight(r) PROVE FundedInv'
  BY <1>6, <1>u DEF ReadHeight, Goto, TypeOK
<1>7. ASSUME NEW r \in Request, CommitEpoch(r) PROVE FundedInv'
  BY <1>7, <1>u DEF CommitEpoch, TypeOK
<1>8. ASSUME NEW r \in Request, RefreshFails(r) PROVE FundedInv'
  BY <1>8, <1>u DEF RefreshFails, TypeOK
<1>9. ASSUME NEW r \in Request, CheckCache(r) PROVE FundedInv'
  <2>1. CASE repoch[r] # cacheEpoch
    <3>1. DOMAIN cache' = {}
      BY <1>9, <2>1 DEF CheckCache
    <3>2. \A q \in Request : pc'[q] \in {"write", "allowed"} => pc'[q] = pc[q]
      BY <1>9, <2>1 DEF CheckCache, Goto, TypeOK
    <3> QED
      BY <1>9, <1>f, <3>1, <3>2 DEF CheckCache, FundedInv, FundedLate, AllowSound, HubEpoch
  <2>2. CASE repoch[r] = cacheEpoch /\ PayerOf[r] \notin DOMAIN cache
    BY <1>9, <1>u, <2>2 DEF CheckCache, Goto, TypeOK
  <2>3. CASE repoch[r] = cacheEpoch /\ PayerOf[r] \in DOMAIN cache
    <3>1. fundedIn[PayerOf[r]] >= repoch[r]
      BY <1>f, <2>3
    <3>2. \A q \in Request \ {r} : pc'[q] = pc[q]
      BY <1>9, <2>3 DEF CheckCache, Goto, TypeOK
    <3>3. pc'[r] = "allowed"
      BY <1>9, <2>3 DEF CheckCache, Goto, TypeOK
    <3>4. UNCHANGED <<height, balance, fundedIn, cacheVars, repoch, rbal>>
      BY <1>9, <2>3 DEF CheckCache
    <3> QED
      BY <1>f, <3>1, <3>2, <3>3, <3>4 DEF FundedInv, FundedLate, AllowSound, HubEpoch
  <2> QED
    BY <2>1, <2>2, <2>3
<1>10. ASSUME NEW r \in Request, ReadBalance(r) PROVE FundedInv'
  <2>1. rbal'[r] = balance[PayerOf[r]] /\ \A q \in Request \ {r} : rbal'[q] = rbal[q]
    BY <1>10 DEF ReadBalance, TypeOK
  <2>2. pc'[r] = "write" /\ \A q \in Request \ {r} : pc'[q] = pc[q]
    BY <1>10 DEF ReadBalance, Goto, TypeOK
  <2>3. UNCHANGED <<height, balance, fundedIn, cacheVars, repoch>>
    BY <1>10 DEF ReadBalance
  <2>4. repoch[r] <= HubEpoch
    BY DEF ClockBehind
  <2>5. Funded(rbal'[r]) => fundedIn[PayerOf[r]] >= repoch[r]
    BY <1>0, <1>f, <2>1, <2>4
  <2> QED
    BY <1>f, <2>1, <2>2, <2>3, <2>5 DEF FundedInv, FundedLate, AllowSound, HubEpoch
<1>11. ASSUME NEW r \in Request, ReadBalanceFails(r) PROVE FundedInv'
  BY <1>11, <1>u DEF ReadBalanceFails, Goto, TypeOK
<1>12. ASSUME NEW r \in Request, WriteBack(r) PROVE FundedInv'
  <2>1. Funded(rbal[r]) => fundedIn[PayerOf[r]] >= repoch[r]
    BY <1>12, <1>f DEF WriteBack
  <2>2. \A q \in Request \ {r} : pc'[q] = pc[q] /\ rbal'[q] = rbal[q]
    BY <1>12 DEF WriteBack, Goto, TypeOK
  <2>3. pc'[r] = IF Funded(rbal[r]) THEN "allowed" ELSE "denied"
    BY <1>12 DEF WriteBack, Goto, TypeOK
  <2>4. UNCHANGED <<height, balance, fundedIn, cacheEpoch, repoch>>
    BY <1>12 DEF WriteBack
  <2>5. \A p \in DOMAIN cache' : fundedIn[p] >= cacheEpoch
    <3>1. CASE Funded(rbal[r]) /\ cacheEpoch = repoch[r]
      <4>1. DOMAIN cache' = DOMAIN cache \cup {PayerOf[r]}
        BY <1>12, <3>1 DEF WriteBack, Remember
      <4> QED
        BY <1>f, <2>1, <3>1, <4>1
    <3>2. CASE ~(Funded(rbal[r]) /\ cacheEpoch = repoch[r])
      BY <1>12, <1>f, <3>2 DEF WriteBack
    <3> QED
      BY <3>1, <3>2
  <2> QED
    BY <1>f, <2>1, <2>2, <2>3, <2>4, <2>5 DEF FundedInv, FundedLate, AllowSound, HubEpoch
<1>13. ASSUME NEW r \in Request, Respond(r) PROVE FundedInv'
  BY <1>13, <1>u DEF Respond, Goto, TypeOK
<1>14. CASE UNCHANGED vars
  BY <1>14, <1>u DEF vars
<1> QED
  BY <1>1, <1>2, <1>3, <1>4, <1>5, <1>6, <1>7, <1>8, <1>9, <1>10, <1>11, <1>12, <1>13, <1>14
     DEF Next, Handle

\* A request is allowed only for a payer that was funded in the epoch the request goes
\* by, or later: neither a cache reset, nor a write-back after one, nor a clock that
\* lags behind the hub lets a balance of an earlier epoch through.
THEOREM AllowSoundCorrect == Spec => []AllowSound
<1>1. Init => TypeOK /\ ClockBehind /\ FundedInv
  BY TypeInit, ClockInit, FundedInit
<1>2. TypeOK /\ ClockBehind /\ FundedInv /\ [Next]_vars => (TypeOK /\ ClockBehind /\ FundedInv)'
  BY TypeStep, ClockStep, FundedStep
<1>3. FundedInv => AllowSound
  BY DEF FundedInv
<1> QED
  BY <1>1, <1>2, <1>3, PTL DEF Spec

-----------------------------------------------------------------------------
(* Whoever stays funded is not denied.                                     *)

\* The strengthening of DenySound: a payer that has been funded since its request began
\* is funded now, and the balance the request carries was read in that time.
SteadyFunded ==
  \A r \in Request :
    steady[r] => /\ Funded(balance[PayerOf[r]])
                 /\ pc[r] = "write" => Funded(rbal[r])
                 /\ pc[r] # "denied"

LEMMA SteadyInit == Init => SteadyFunded
BY DEF Init, SteadyFunded

LEMMA SteadyStep == TypeOK /\ SteadyFunded /\ [Next]_vars => SteadyFunded'
<1> SUFFICES ASSUME TypeOK, SteadyFunded, [Next]_vars,
                    NEW q \in Request, steady'[q]
             PROVE  /\ Funded(balance'[PayerOf[q]])
                    /\ pc'[q] = "write" => Funded(rbal'[q])
                    /\ pc'[q] # "denied"
  BY DEF SteadyFunded
<1> DEFINE Fine == /\ Funded(balance'[PayerOf[q]])
                   /\ pc'[q] = "write" => Funded(rbal'[q])
                   /\ pc'[q] # "denied"
<1> USE DEF hubVars, clockVars, cacheVars, requestVars
<1>0. steady[q] => /\ Funded(balance[PayerOf[q]])
                   /\ pc[q] = "write" => Funded(rbal[q])
                   /\ pc[q] # "denied"
  BY DEF SteadyFunded
\* A change of the hub.
<1>h. ASSUME Observed(height', balance'), UNCHANGED <<pc, rbal>> PROVE Fine
  <2>1. steady[q] /\ Funded(balance'[PayerOf[q]])
    BY <1>h DEF Observed
  <2> QED
    BY <1>0, <1>h, <2>1
\* A step that neither reads a balance nor denies.
<1>u. ASSUME UNCHANGED <<balance, steady, rbal>>,
             pc'[q] \in {"write", "denied"} => pc'[q] = pc[q]
      PROVE  Fine
  BY <1>0, <1>u
<1>1. CASE Block
  BY <1>1, <1>h DEF Block
<1>2. ASSUME NEW p \in Payer, TopUp(p) PROVE Fine
  BY <1>2, <1>h DEF TopUp
<1>3. CASE Expire
  BY <1>3, <1>u DEF Expire
<1>4. ASSUME NEW r \in Request, Ask(r) PROVE Fine
  <2>1. balance' = balance /\ rbal' = rbal
    BY <1>4 DEF Ask
  <2>2. CASE q = r
    <3>1. Funded(balance[PayerOf[q]])
      BY <1>4, <2>2 DEF Ask, TypeOK
    <3>2. pc'[q] \in {"cache", "join"}
      BY <1>4, <2>2 DEF Ask, Goto, TypeOK
    <3> QED
      BY <2>1, <3>1, <3>2
  <2>3. CASE q # r
    <3>1. steady[q] /\ pc'[q] = pc[q]
      BY <1>4, <2>3 DEF Ask, Goto, TypeOK
    <3> QED
      BY <1>0, <2>1, <3>1
  <2> QED
    BY <2>2, <2>3
<1>5. ASSUME NEW r \in Request, Join(r) PROVE Fine
  BY <1>5, <1>u DEF Join, Goto, TypeOK
<1>6. ASSUME NEW r \in Request, ReadHeight(r) PROVE Fine
  BY <1>6, <1>u DEF ReadHeight, Goto, TypeOK
<1>7. ASSUME NEW r \in Request, CommitEpoch(r) PROVE Fine
  BY <1>7, <1>u DEF CommitEpoch
<1>8. ASSUME NEW r \in Request, RefreshFails(r) PROVE Fine
  BY <1>8, <1>u DEF RefreshFails
<1>9. ASSUME NEW r \in Request, CheckCache(r) PROVE Fine
  BY <1>9, <1>u DEF CheckCache, Goto, TypeOK
<1>10. ASSUME NEW r \in Request, ReadBalance(r) PROVE Fine
  BY <1>10, <1>0 DEF ReadBalance, Goto, TypeOK
<1>11. ASSUME NEW r \in Request, ReadBalanceFails(r) PROVE Fine
  BY <1>11, <1>u DEF ReadBalanceFails, Goto, TypeOK
<1>12. ASSUME NEW r \in Request, WriteBack(r) PROVE Fine
  BY <1>12, <1>0 DEF WriteBack, Goto, TypeOK
<1>13. ASSUME NEW r \in Request, Respond(r) PROVE Fine
  BY <1>13, <1>0 DEF Respond, Goto, TypeOK
<1>14. CASE UNCHANGED vars
  BY <1>14, <1>u DEF vars
<1> QED
  BY <1>1, <1>2, <1>3, <1>4, <1>5, <1>6, <1>7, <1>8, <1>9, <1>10, <1>11, <1>12, <1>13, <1>14
     DEF Next, Handle

\* A payer that is funded from the start of its request to the end is never denied: a
\* balance below the minimum is never served from the cache, and the balance that denies
\* was read after the request began.
THEOREM DenySoundCorrect == Spec => []DenySound
<1>1. Init => TypeOK /\ SteadyFunded
  BY TypeInit, SteadyInit
<1>2. TypeOK /\ SteadyFunded /\ [Next]_vars => (TypeOK /\ SteadyFunded)'
  BY TypeStep, SteadyStep
<1>3. SteadyFunded => DenySound
  BY DEF SteadyFunded, DenySound
<1> QED
  BY <1>1, <1>2, <1>3, PTL DEF Spec
=============================================================================
