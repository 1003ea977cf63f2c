--------------------------- MODULE BootstrapProofs ---------------------------
(***************************************************************************)
(* Snapshot bootstrap, for any snapshots, ranges, failures and crashes:    *)
(* only verified snapshots are written, an attestation stands for a whole  *)
(* import, and a start that meets no failure leaves every wanted block in  *)
(* the store and every stored block in the index.                          *)
(***************************************************************************)
EXTENDS Bootstrap, TLAPS

\* The type invariant, part by part.
DBType == store \subseteq Nat /\ indexed \subseteq store /\ attested \subseteq File
WorkType == /\ pc \in Where
            /\ needed \subseteq File /\ imported \subseteq File /\ file \subseteq File
            /\ existing \in [min : Nat, max : Nat]
HistoryType == /\ wrote \subseteq File /\ whole \subseteq File /\ found \subseteq Nat
               /\ faults \in Nat /\ starts \in Nat
CleanType == clean \in BOOLEAN

LEMMA TypeParts == TypeOK <=> DBType /\ WorkType /\ HistoryType /\ CleanType
  BY DEF TypeOK, DBType, WorkType, HistoryType, CleanType

LEMMA BlocksAreNumbers == \A f \in File : Blocks(f) \subseteq Nat
  BY FileAssumption DEF Blocks

LEMMA CoveringChoice ==
  /\ \A range : Covering(range) \subseteq File /\ Covering(range) \subseteq Signed
  /\ Covering(NoRange) = Requested \cap Signed
  BY DEF Covering, Requested, Inside, NoRange

\* The overlap test finds every snapshot with a block of a configured range.
LEMMA WantedChosen == Wanted \subseteq Requested \cap Signed
<1> SUFFICES ASSUME NEW f \in Wanted PROVE f \in Requested /\ f \in Signed
  OBVIOUS
<1>1. f \in File /\ f \in Signed /\ StartBlock[f] \in Nat /\ EndBlock[f] \in Nat
  BY FileAssumption DEF Wanted
<1>2. PICK r \in HistoricalRanges : \E b \in Blocks(f) : b \in r.start..r.end
  BY DEF Wanted
<1>3. r.start \in Nat /\ r.end \in Nat
  BY <1>2, FileAssumption
<1>4. Overlaps(f, r)
  BY <1>1, <1>2, <1>3 DEF Overlaps, Blocks
<1> QED
  BY <1>1, <1>4 DEF Requested

\* One action of bootstrap, or of the rest of the host.
Step ==
  \/ List \/ ListFails \/ ReadHighest \/ ReadHighestFails \/ ReadLowest \/ ReadLowestFails
  \/ \E f \in File : Begin(f) \/ Refuse(f) \/ DownloadFails(f) \/ Imported(f)
  \/ \E f \in File : \E b \in Blocks(f) : Write(f, b)
  \/ ImportFails \/ Attest \/ AttestFails \/ Finish \/ Rebuild \/ RebuildFails
  \/ \E b \in Live : Replicate(b)
  \/ \E b \in Live : Prune(b)
  \/ Crash \/ Restart

LEMMA NextIsStep == Next => Step
  BY DEF Next, Step, Resolve, Import

LEMMA TypeInit == Init => TypeOK
<1> SUFFICES ASSUME Init PROVE TypeOK
  OBVIOUS
<1>1. CleanType
  BY DEF Init, CleanType
<1> QED
  BY <1>1, TypeParts DEF Init, DBType, WorkType, HistoryType, NoRange, Where

LEMMA TypeStep == TypeOK /\ [Next]_vars => TypeOK'
<1> SUFFICES ASSUME TypeOK, [Next]_vars PROVE TypeOK'
  OBVIOUS
<1>0. DBType /\ WorkType /\ HistoryType /\ CleanType
  BY TypeParts
<1>s. Step \/ UNCHANGED vars
  BY NextIsStep
<1>1. DBType'
  <2> USE <1>0 DEF DBType, dbVars
  <2>1. ASSUME NEW f \in File, NEW b \in Blocks(f), Write(f, b) PROVE DBType'
    BY <2>1, BlocksAreNumbers DEF Write
  <2>2. CASE Attest
    BY <2>2 DEF Attest, WorkType
  <2>3. CASE Rebuild \/ RebuildFails
    BY <2>3 DEF Rebuild, RebuildFails
  <2>4. ASSUME NEW b \in Live, Replicate(b) PROVE DBType'
    BY <2>4, FileAssumption DEF Replicate
  <2>5. ASSUME NEW b \in Live, Prune(b) PROVE DBType'
    BY <2>5 DEF Prune
  <2>6. ASSUME \/ List \/ ListFails \/ ReadHighest \/ ReadHighestFails \/ ReadLowest
               \/ ReadLowestFails \/ ImportFails \/ AttestFails \/ Finish
               \/ Crash \/ Restart
               \/ \E f \in File : Begin(f) \/ Refuse(f) \/ DownloadFails(f) \/ Imported(f)
        PROVE  UNCHANGED dbVars
    BY <2>6 DEF List, ListFails, ReadHighest, ReadHighestFails, ReadLowest, ReadLowestFails,
                ImportFails, AttestFails, Finish, Crash, Restart, Begin, Refuse,
                DownloadFails, Imported
  <2> QED
    BY <1>s, <2>1, <2>2, <2>3, <2>4, <2>5, <2>6 DEF Step, vars
<1>2. WorkType'
  <2> USE <1>0 DEF WorkType, Where, Goto
  <2>1. ASSUME NEW range \in [min : Nat, max : Nat], Decide(range), UNCHANGED <<file, imported>>
        PROVE  WorkType'
    BY <2>1, CoveringChoice DEF Decide
  <2>2. CASE List
    BY <2>2 DEF List
  <2>3. CASE ListFails
    BY <2>3 DEF ListFails
  <2>4. CASE ReadHighest
    <3>1. CASE Decide(NoRange)
      BY <3>1, <2>4, <2>1 DEF ReadHighest, NoRange
    <3>2. ASSUME NEW n \in Seen, existing' = [NoRange EXCEPT !.max = n], Goto("lowest"),
                 UNCHANGED needed
          PROVE  WorkType'
      BY <3>2, <2>4 DEF ReadHighest, Seen, NoRange, DBType
    <3> QED
      BY <3>1, <3>2, <2>4 DEF ReadHighest
  <2>5. CASE ReadHighestFails
    BY <2>5, <2>1 DEF ReadHighestFails, NoRange
  <2>6. CASE ReadLowest
    <3>1. PICK n \in Seen : Decide([existing EXCEPT !.min = n])
      BY <2>6 DEF ReadLowest
    <3>2. [existing EXCEPT !.min = n] \in [min : Nat, max : Nat]
      BY DEF Seen, DBType
    <3> QED
      BY <3>1, <3>2, <2>6, <2>1 DEF ReadLowest
  <2>7. CASE ReadLowestFails
    BY <2>7, <2>1 DEF ReadLowestFails
  <2>8. ASSUME NEW f \in File, Begin(f) \/ Refuse(f) \/ DownloadFails(f) \/ Imported(f)
        PROVE  WorkType'
    BY <2>8 DEF Begin, Refuse, DownloadFails, Imported
  <2>9. CASE ImportFails \/ Attest \/ AttestFails
    BY <2>9 DEF ImportFails, Attest, AttestFails
  <2>10. CASE Finish \/ Rebuild \/ RebuildFails
    BY <2>10 DEF Finish, Rebuild, RebuildFails
  <2>11. CASE Crash \/ Restart
    BY <2>11 DEF Crash, Restart, NoRange
  <2>12. ASSUME \/ \E f \in File : \E b \in Blocks(f) : Write(f, b)
                \/ \E b \in Live : Replicate(b)
                \/ \E b \in Live : Prune(b)
         PROVE  UNCHANGED workVars
    BY <2>12 DEF Write, Replicate, Prune
  <2> QED
    BY <1>s, <2>2, <2>3, <2>4, <2>5, <2>6, <2>7, <2>8, <2>9, <2>10, <2>11, <2>12
    DEF Step, vars, workVars
<1>3. HistoryType'
  <2> USE <1>0 DEF HistoryType, Fault, historyVars
  <2>1. CASE ReadHighest \/ ReadHighestFails
    BY <2>1 DEF ReadHighest, ReadHighestFails, DBType
  <2>2. ASSUME NEW f \in File, Begin(f) \/ Refuse(f) \/ DownloadFails(f) \/ Imported(f)
        PROVE  HistoryType'
    <3>1. CASE DownloadFails(f)
      BY <3>1 DEF DownloadFails
    <3>2. CASE Imported(f)
      BY <3>2 DEF Imported
    <3> QED
      BY <2>2, <3>1, <3>2 DEF Begin, Refuse
  <2>3. ASSUME NEW f \in File, NEW b \in Blocks(f), Write(f, b) PROVE HistoryType'
    BY <2>3 DEF Write
  <2>4. CASE ListFails \/ ReadLowestFails \/ ImportFails \/ AttestFails \/ RebuildFails
    <3>1. UNCHANGED <<wrote, whole, found, starts>> /\ faults' = faults + 1
      BY <2>4 DEF ListFails, ReadLowestFails, ImportFails, AttestFails, RebuildFails
    <3> QED
      BY <3>1
  <2>5. CASE Restart
    BY <2>5 DEF Restart
  <2>6. ASSUME \/ List \/ ReadLowest \/ Attest \/ Finish \/ Rebuild \/ Crash
               \/ \E b \in Live : Replicate(b)
               \/ \E b \in Live : Prune(b)
        PROVE  UNCHANGED historyVars
    BY <2>6 DEF List, ReadLowest, Attest, Finish, Rebuild, Crash, Replicate, Prune
  <2> QED
    BY <1>s, <2>1, <2>2, <2>3, <2>4, <2>5, <2>6 DEF Step, vars
<1>4. CleanType'
  <2>1. \/ UNCHANGED clean
        \/ clean' = FALSE
        \/ clean' = TRUE
    BY <1>s DEF Step, vars, historyVars, Fault, List, ListFails, ReadHighest, ReadHighestFails,
                ReadLowest, ReadLowestFails, Begin, Refuse, DownloadFails, Imported, Write,
                ImportFails, Attest, AttestFails, Finish, Rebuild, RebuildFails, Replicate,
                Prune, Crash, Restart
  <2> QED
    BY <2>1, <1>0 DEF CleanType
<1> QED
  BY <1>1, <1>2, <1>3, <1>4, TypeParts DEF TypeOK, DBType, WorkType, HistoryType, CleanType

(***************************************************************************)
(* The variables of bootstrapFromSnapshots and of the store have their     *)
(* types, and nothing is indexed that is not stored, whatever fails.       *)
(***************************************************************************)
THEOREM TypeCorrect == Spec => []TypeOK
  BY TypeInit, TypeStep, PTL DEF Spec

-----------------------------------------------------------------------------
\* What is picked, verified, written and attested.
SafeInv == TypeOK /\ Chosen /\ OnlyVerified /\ AttestedImported

LEMMA SafeInit == Init => SafeInv
  BY TypeInit DEF Init, SafeInv, Chosen, OnlyVerified, AttestedImported

LEMMA SafeStep == SafeInv /\ [Next]_vars => SafeInv'
<1> SUFFICES ASSUME SafeInv, [Next]_vars PROVE SafeInv'
  OBVIOUS
<1>0. TypeOK /\ TypeOK'
  BY TypeStep DEF SafeInv
<1>s. Step \/ UNCHANGED vars
  BY NextIsStep
<1> DEFINE Safe == Chosen /\ OnlyVerified /\ AttestedImported
<1> SUFFICES Safe'
  BY <1>0 DEF SafeInv
<1> USE DEF SafeInv, Chosen, OnlyVerified, AttestedImported, Goto, dbVars, historyVars, workVars
<1>1. ASSUME NEW range, Decide(range), UNCHANGED <<file, wrote, whole, attested>>
      PROVE  Safe'
  BY <1>1, CoveringChoice DEF Decide
<1>2. CASE List \/ ListFails
  BY <1>2 DEF List, ListFails
<1>3. CASE ReadHighest
  BY <1>3, <1>1 DEF ReadHighest
<1>4. CASE ReadHighestFails
  BY <1>4, <1>1 DEF ReadHighestFails
<1>5. CASE ReadLowest \/ ReadLowestFails
  BY <1>5, <1>1 DEF ReadLowest, ReadLowestFails
<1>6. ASSUME NEW f \in File, Begin(f) PROVE Safe'
  BY <1>6 DEF Begin, IsNext
<1>7. ASSUME NEW f \in File, Refuse(f) \/ DownloadFails(f) PROVE Safe'
  BY <1>7 DEF Refuse, DownloadFails
<1>8. ASSUME NEW f \in File, Imported(f) PROVE Safe'
  <2>1. f \in file /\ whole' = whole \cup {f} /\ wrote' = wrote \cup {f}
    BY <1>8 DEF Imported
  <2>2. file' = file /\ needed' = needed /\ attested' = attested
    BY <1>8 DEF Imported
  <2>3. file = {f}
    BY <2>1
  <2> QED
    BY <2>1, <2>2, <2>3
<1>9. ASSUME NEW f \in File, NEW b \in Blocks(f), Write(f, b) PROVE Safe'
  BY <1>9 DEF Write
<1>10. CASE ImportFails \/ AttestFails
  BY <1>10 DEF ImportFails, AttestFails
<1>11. CASE Attest
  BY <1>11 DEF Attest
<1>12. CASE Finish \/ Rebuild \/ RebuildFails
  BY <1>12 DEF Finish, Rebuild, RebuildFails
<1>13. ASSUME NEW b \in Live, Replicate(b) \/ Prune(b) PROVE Safe'
  BY <1>13 DEF Replicate, Prune
<1>14. CASE Crash \/ Restart
  BY <1>14 DEF Crash, Restart
<1>15. CASE UNCHANGED vars
  BY <1>15 DEF vars
<1> QED
  BY <1>s, <1>2, <1>3, <1>4, <1>5, <1>6, <1>7, <1>8, <1>9, <1>10, <1>11, <1>12, <1>13,
     <1>14, <1>15
  DEF Step

(***************************************************************************)
(* Whatever fails and wherever the host crashes, no key of an unsigned or  *)
(* unverified snapshot reaches the store (importSingleSnapshot,            *)
(* ImportWithVerification).                                                *)
(***************************************************************************)
THEOREM OnlyVerifiedCorrect == Spec => []OnlyVerified
<1>1. SafeInv => OnlyVerified
  BY DEF SafeInv
<1> QED
  BY <1>1, SafeInit, SafeStep, PTL DEF Spec

(***************************************************************************)
(* createSnapshotAttestation only speaks of snapshots whose import ran to  *)
(* its end.                                                                *)
(***************************************************************************)
THEOREM AttestedImportedCorrect == Spec => []AttestedImported
<1>1. SafeInv => AttestedImported
  BY DEF SafeInv
<1> QED
  BY <1>1, SafeInit, SafeStep, PTL DEF Spec

-----------------------------------------------------------------------------
\* What a start without failures leaves.
SeedInv == TypeOK /\ FreshStart /\ SeedGoesOn /\ CleanSeed /\ AllIndexed

LEMMA SeedInit == Init => SeedInv
  BY TypeInit DEF Init, SeedInv, FreshStart, SeedGoesOn, CleanSeed, AllIndexed

LEMMA SeedStep == SeedInv /\ [Next]_vars => SeedInv'
<1> SUFFICES ASSUME SeedInv, [Next]_vars PROVE SeedInv'
  OBVIOUS
<1>0. TypeOK /\ TypeOK'
  BY TypeStep DEF SeedInv
<1>t. indexed \subseteq store
  BY <1>0 DEF TypeOK
<1>s. Step \/ UNCHANGED vars
  BY NextIsStep
<1> DEFINE Seed == FreshStart /\ SeedGoesOn /\ CleanSeed /\ AllIndexed
<1>seed. Seed
  BY DEF SeedInv
<1> SUFFICES Seed'
  BY <1>0 DEF SeedInv
<1> USE DEF FreshStart, SeedGoesOn, CleanSeed, AllIndexed, Goto, dbVars, historyVars, workVars
<1>1. CASE List
  BY <1>1, <1>seed, WantedChosen DEF List, Requested
<1>2. CASE ListFails \/ RebuildFails
  BY <1>2, <1>seed DEF ListFails, RebuildFails, Fault
<1>3. CASE ReadHighest
  <2>1. imported = {} /\ file = {} /\ found' = store /\ UNCHANGED <<imported, file>>
    BY <1>3, <1>seed DEF ReadHighest
  <2>2. CASE Seen = {} /\ Decide(NoRange)
    BY <2>1, <2>2, CoveringChoice, WantedChosen DEF Decide
  <2>3. CASE Seen # {} /\ Goto("lowest")
    BY <2>1, <2>3, <1>t DEF Seen
  <2> QED
    BY <1>3, <2>2, <2>3 DEF ReadHighest
<1>4. CASE ReadHighestFails \/ ReadLowestFails
  <2>1. imported = {} /\ file = {} /\ ~clean' /\ UNCHANGED <<imported, file>>
    BY <1>4, <1>seed DEF ReadHighestFails, ReadLowestFails, Fault
  <2>2. pc' \in {"up", "next"}
    BY <1>4 DEF ReadHighestFails, ReadLowestFails, Decide
  <2> QED
    BY <2>1, <2>2
<1>5. CASE ReadLowest
  <2>1. imported = {} /\ file = {} /\ found # {} /\ UNCHANGED <<imported, file, found>>
    BY <1>5, <1>seed DEF ReadLowest
  <2>2. pc' \in {"up", "next"}
    BY <1>5 DEF ReadLowest, Decide
  <2> QED
    BY <2>1, <2>2
<1>6. ASSUME NEW f \in File, Begin(f) PROVE Seed'
  BY <1>6, <1>seed DEF Begin
<1>7. ASSUME NEW f \in File, Refuse(f) PROVE Seed'
  BY <1>7, <1>seed DEF Refuse, Wanted
<1>8. ASSUME NEW f \in File, DownloadFails(f) PROVE Seed'
  BY <1>8, <1>seed DEF DownloadFails, Fault
<1>9. ASSUME NEW f \in File, NEW b \in Blocks(f), Write(f, b) PROVE Seed'
  BY <1>9, <1>seed DEF Write
<1>10. CASE ImportFails \/ AttestFails
  BY <1>10, <1>seed DEF ImportFails, AttestFails, Fault
<1>11. CASE Attest
  BY <1>11, <1>seed DEF Attest
<1>12. CASE Finish
  BY <1>12, <1>seed DEF Finish
<1>13. CASE Rebuild
  BY <1>13, <1>seed DEF Rebuild
<1>14. ASSUME NEW b \in Live, Replicate(b) PROVE Seed'
  BY <1>14, <1>seed DEF Replicate
<1>15. ASSUME NEW b \in Live, Prune(b) PROVE Seed'
  BY <1>15, <1>seed DEF Prune
<1>16. CASE Crash \/ Restart
  BY <1>16, <1>seed DEF Crash, Restart
<1>17. CASE UNCHANGED vars
  BY <1>17, <1>seed DEF vars
<1>18. ASSUME NEW f \in File, Imported(f) PROVE Seed'
  BY <1>18, <1>seed DEF Imported
<1> QED
  BY <1>s, <1>1, <1>2, <1>3, <1>4, <1>5, <1>6, <1>7, <1>8, <1>9, <1>10, <1>11, <1>12,
     <1>13, <1>14, <1>15, <1>16, <1>17, <1>18
  DEF Step

(***************************************************************************)
(* A start without failures on an empty store ends with every block of     *)
(* every good snapshot the ranges ask for, in the index.                   *)
(***************************************************************************)
THEOREM CleanSeedCorrect == Spec => []CleanSeed
<1>1. SeedInv => CleanSeed
  BY DEF SeedInv
<1> QED
  BY <1>1, SeedInit, SeedStep, PTL DEF Spec

(***************************************************************************)
(* A start that imported something and met no failure has indexed every    *)
(* stored block, those an interrupted start left included.                 *)
(***************************************************************************)
THEOREM AllIndexedCorrect == Spec => []AllIndexed
<1>1. SeedInv => AllIndexed
  BY DEF SeedInv
<1> QED
  BY <1>1, SeedInit, SeedStep, PTL DEF Spec
=============================================================================
